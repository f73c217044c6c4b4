-------------------------- MODULE TransactionGroup --------------------------
(***************************************************************************)
(* transaction_group, one commit over several locked stores. A call visits *)
(* its participants in the order of their stores' addresses; each visit is *)
(* one call of that store's transaction, whole under that store's mutex,   *)
(* and other groups and direct writers run between the visits.             *)
(*                                                                         *)
(* Of a participant only what the group can meet is kept: whether it is    *)
(* staged, whether it has writes, and whether what it watches was          *)
(* published over since.                                                   *)
(***************************************************************************)
EXTENDS Integers, Sequences, FiniteSets, SequencesExt

CONSTANTS
    Groups,
    StoreCount,     \* stores are 1 .. StoreCount, in the order of their addresses
    Arguments,      \* the stores each group was made over, as its caller named them
    Splits,         \* every store's transaction offers the two halves of a commit
    CanRefuse,      \* a participant's stage runs out of memory, its rollback may fail
    Keeps           \* a participant whose rollback failed is staged still

Stores == 1 .. StoreCount

GroupAssumption ==
    /\ StoreCount \in Nat \ {0}
    /\ Arguments \in [Groups -> Seq(Stores)]
    /\ \A g \in Groups : Arguments[g] # <<>> /\ IsInjective(Arguments[g])
    /\ {Splits, CanRefuse, Keeps} \subseteq BOOLEAN

VARIABLES
    parts,          \* the participants of each group, by store
    staging,        \* what each group says of itself
    call,           \* the pass each group is in, and the position it has reached
    published,      \* history: the participants the last commit published
    outcome,        \* history: what the last commit answered
    torn            \* history: a commit was refused behind one that published

vars == <<parts, staging, call, published, outcome, torn>>

----------------------------------------------------------------------------

Order(g) == SortSeq(Arguments[g], <)
Taken(g) == ToSet(Arguments[g])
AsksFirst(g) == Splits /\ Len(Arguments[g]) > 1

Idle == [name |-> "none", at |-> 0]
At(name, position) == [name |-> name, at |-> position]
Visited(g) == Order(g)[call[g].at]
AtEnd(g) == call[g].at = Len(Order(g))

\* A pass that has visited everyone but this participant goes on, or ends.
Advance(g) == call' = [call EXCEPT ![g] = IF AtEnd(g) THEN Idle ELSE At(@.name, @.at + 1)]
Stop(g) == call' = [call EXCEPT ![g] = Idle]

Opened == [staged |-> FALSE, wrote |-> FALSE, watched |-> FALSE, moved |-> FALSE]

Init ==
    /\ parts = [g \in Groups |-> [s \in Taken(g) |-> Opened]]
    /\ staging = [g \in Groups |-> "pending"]
    /\ call = [g \in Groups |-> Idle]
    /\ published = [g \in Groups |-> {}]
    /\ outcome = [g \in Groups |-> "none"]
    /\ torn = [g \in Groups |-> FALSE]

----------------------------------------------------------------------------
(* One participant, through its store. *)

\* A version of store s was published by someone other than g, or by g itself.
Moves(f, s) ==
    [g \in Groups |-> [r \in Taken(g) |->
        IF r = s THEN [f[g][r] EXCEPT !.moved = f[g][r].moved \/ f[g][r].watched] ELSE f[g][r]]]

Conflicts(g, s) == parts[g][s].watched /\ parts[g][s].moved

StagePart(g, s) ==
    /\ ~parts[g][s].staged /\ ~Conflicts(g, s)
    /\ parts' = [parts EXCEPT ![g][s].staged = TRUE]

StagePartRefused(g, s) == parts[g][s].staged \/ Conflicts(g, s) \/ (CanRefuse /\ parts[g][s].wrote)

ValidatePart(g, s) == parts[g][s].staged /\ ~Conflicts(g, s)

PublishPart(g, s) ==
    LET done == [parts EXCEPT ![g][s].staged = FALSE, ![g][s].wrote = FALSE]
    IN  /\ parts' = IF parts[g][s].wrote THEN Moves(done, s) ELSE done
        /\ published' = [published EXCEPT ![g] = @ \cup {s}]

RollbackPart(g, s) ==
    /\ parts[g][s].staged
    /\ parts' = [parts EXCEPT ![g][s].staged = FALSE]

\* Out of memory, the engines lose the write and say so; a partitioned store stays staged.
RollbackPartFails(g, s) ==
    /\ CanRefuse /\ parts[g][s].staged /\ parts[g][s].wrote
    /\ parts' = IF Keeps THEN parts ELSE [parts EXCEPT ![g][s].staged = FALSE, ![g][s].wrote = FALSE]

ResetPart(g, s) == parts' = [parts EXCEPT ![g][s] = Opened]

----------------------------------------------------------------------------
(* What is done to a participant between the calls of its group. *)

IsIdle(g) == call[g] = Idle

Write(g, s) ==
    /\ IsIdle(g) /\ ~parts[g][s].staged
    /\ parts' = [parts EXCEPT ![g][s].wrote = TRUE]
    /\ UNCHANGED <<staging, call, published, outcome, torn>>

Watch(g, s) ==
    /\ IsIdle(g) /\ ~parts[g][s].watched
    /\ parts' = [parts EXCEPT ![g][s].watched = TRUE]
    /\ UNCHANGED <<staging, call, published, outcome, torn>>

\* A write outside any group.
WriteDirectly(s) ==
    /\ parts' = Moves(parts, s)
    /\ UNCHANGED <<staging, call, published, outcome, torn>>

----------------------------------------------------------------------------
(* stage *)

Stage(g) ==
    /\ IsIdle(g) /\ staging[g] = "pending"
    /\ call' = [call EXCEPT ![g] = At("stage", 1)]
    /\ UNCHANGED <<parts, staging, published, outcome, torn>>

StageNext(g) ==
    /\ call[g].name = "stage"
    /\ \/ /\ StagePart(g, Visited(g))
          /\ Advance(g)
          /\ staging' = IF AtEnd(g) THEN [staging EXCEPT ![g] = "staged"] ELSE staging
       \/ /\ StagePartRefused(g, Visited(g))
          /\ call' = [call EXCEPT ![g] = IF @.at = 1 THEN Idle ELSE At("unwind", @.at - 1)]
          /\ UNCHANGED <<parts, staging>>
    /\ UNCHANGED <<published, outcome, torn>>

\* The staged prefix, the last staged first; what each rollback answers is ignored.
UnwindNext(g) ==
    /\ call[g].name = "unwind"
    /\ RollbackPart(g, Visited(g)) \/ RollbackPartFails(g, Visited(g))
    /\ call' = [call EXCEPT ![g] = IF @.at = 1 THEN Idle ELSE At("unwind", @.at - 1)]
    /\ UNCHANGED <<staging, published, outcome, torn>>

----------------------------------------------------------------------------
(* commit *)

Commit(g) ==
    /\ IsIdle(g) /\ staging[g] = "staged"
    /\ call' = [call EXCEPT ![g] = At(IF AsksFirst(g) THEN "validate" ELSE "commit", 1)]
    /\ published' = [published EXCEPT ![g] = {}]
    /\ outcome' = [outcome EXCEPT ![g] = "none"]
    /\ UNCHANGED <<parts, staging, torn>>

Refused(g) == Stop(g) /\ outcome' = [outcome EXCEPT ![g] = "refused"]

\* A participant that may publish does so at once.
MutantValidateNext(g) ==
    /\ call[g].name = "validate"
    /\ \/ /\ ValidatePart(g, Visited(g))
          /\ PublishPart(g, Visited(g))
          /\ call' = [call EXCEPT ![g] = IF AtEnd(g) THEN Idle ELSE At("validate", @.at + 1)]
          /\ UNCHANGED outcome
       \/ ~ValidatePart(g, Visited(g)) /\ Refused(g) /\ UNCHANGED <<parts, published>>
    /\ UNCHANGED <<staging, torn>>

ValidateNext(g) ==
    /\ call[g].name = "validate"
    /\ \/ /\ ValidatePart(g, Visited(g))
          /\ call' = [call EXCEPT ![g] = IF AtEnd(g) THEN At("publish", 1) ELSE At("validate", @.at + 1)]
          /\ UNCHANGED outcome
       \/ ~ValidatePart(g, Visited(g)) /\ Refused(g)
    /\ UNCHANGED <<parts, staging, published, torn>>

Ends(g) ==
    /\ Advance(g)
    /\ outcome' = IF AtEnd(g) THEN [outcome EXCEPT ![g] = "committed"] ELSE outcome
    /\ staging' = IF AtEnd(g) THEN [staging EXCEPT ![g] = "pending"] ELSE staging

PublishNext(g) ==
    /\ call[g].name = "publish"
    /\ PublishPart(g, Visited(g))
    /\ Ends(g)
    /\ UNCHANGED torn

\* Without the split each participant decides and writes in one call.
CommitNext(g) ==
    /\ call[g].name = "commit"
    /\ \/ /\ ValidatePart(g, Visited(g))
          /\ PublishPart(g, Visited(g))
          /\ Ends(g)
          /\ UNCHANGED torn
       \/ /\ ~ValidatePart(g, Visited(g))
          /\ Refused(g)
          /\ staging' = IF call[g].at = 1 THEN staging ELSE [staging EXCEPT ![g] = "pending"]
          /\ torn' = [torn EXCEPT ![g] = call[g].at # 1]
          /\ UNCHANGED <<parts, published>>

----------------------------------------------------------------------------
(* rollback, reset, and the end of a group *)

Rollback(g) ==
    /\ IsIdle(g) /\ staging[g] = "staged"
    /\ call' = [call EXCEPT ![g] = At("rollback", 1)]
    /\ UNCHANGED <<parts, staging, published, outcome, torn>>

RollbackNext(g) ==
    /\ call[g].name = "rollback"
    /\ \/ /\ RollbackPart(g, Visited(g))
          /\ Advance(g)
          /\ staging' = IF AtEnd(g) THEN [staging EXCEPT ![g] = "pending"] ELSE staging
       \/ /\ IF parts[g][Visited(g)].staged THEN RollbackPartFails(g, Visited(g)) ELSE UNCHANGED parts
          /\ Stop(g)
          /\ UNCHANGED staging
    /\ UNCHANGED <<published, outcome, torn>>

Reset(g) ==
    /\ IsIdle(g)
    /\ call' = [call EXCEPT ![g] = At("reset", 1)]
    /\ UNCHANGED <<parts, staging, published, outcome, torn>>

ResetNext(g) ==
    /\ call[g].name = "reset"
    /\ ResetPart(g, Visited(g))
    /\ Advance(g)
    /\ staging' = IF AtEnd(g) THEN [staging EXCEPT ![g] = "pending"] ELSE staging
    /\ torn' = IF AtEnd(g) THEN [torn EXCEPT ![g] = FALSE] ELSE torn
    /\ UNCHANGED <<published, outcome>>

----------------------------------------------------------------------------

Next ==
    \/ \E g \in Groups :
         \/ Stage(g) \/ StageNext(g) \/ UnwindNext(g)
         \/ Commit(g) \/ ValidateNext(g) \/ PublishNext(g) \/ CommitNext(g)
         \/ Rollback(g) \/ RollbackNext(g) \/ Reset(g) \/ ResetNext(g)
         \/ \E s \in Taken(g) : Write(g, s) \/ Watch(g, s)
    \/ \E s \in Stores : WriteDirectly(s)

Spec == Init /\ [][Next]_vars

----------------------------------------------------------------------------
(* Properties. *)

(* Types of the state; a pass stays within its participants.                   *)
GroupTypeOK ==
    /\ \A g \in Groups : parts[g] \in [Taken(g) -> [staged : BOOLEAN, wrote : BOOLEAN,
                                                    watched : BOOLEAN, moved : BOOLEAN]]
    /\ staging \in [Groups -> {"pending", "staged"}]
    /\ \A g \in Groups : call[g] = Idle \/ call[g].at \in DOMAIN Order(g)
    /\ \A g \in Groups : published[g] \subseteq Taken(g)
    /\ outcome \in [Groups -> {"none", "refused", "committed"}]
    /\ torn \in [Groups -> BOOLEAN]

(* Between calls a group that says it is staged has every participant staged,   *)
(* and one that says it is pending has none, unless its commit tore.           *)
StagedAsOne ==
    \A g \in Groups : IsIdle(g) =>
        IF staging[g] = "staged" THEN \A s \in Taken(g) : parts[g][s].staged
        ELSE torn[g] \/ \A s \in Taken(g) : ~parts[g][s].staged

(* The comment of stage, that a partial stage is never observable: a group that *)
(* says it is pending has nothing in any store, whatever its rollbacks answer.  *)
PartialStageUnseen ==
    \A g \in Groups : IsIdle(g) /\ staging[g] = "pending" /\ ~torn[g] =>
        \A s \in Taken(g) : ~parts[g][s].staged

(* The comment of commit: where every participant is asked first, a refusal     *)
(* published nothing and a success everything.                                 *)
CommitWhole ==
    \A g \in Groups : AsksFirst(g) =>
        /\ outcome[g] = "refused" => published[g] = {}
        /\ outcome[g] = "committed" => published[g] = Taken(g)

(* The comment of commit, of a group that cannot ask: a refusal leaves it staged *)
(* exactly where nothing was published, which is what rollback may then rely on. *)
RefusalShows ==
    \A g \in Groups : call[g].name = "commit" /\ call'[g] = Idle /\ outcome'[g] = "refused" =>
        (staging'[g] = "staged") = (published'[g] = {})

(* A stage that was refused, and whatever it unwound, kept the pending writes.   *)
WritesSurvive ==
    \A g \in Groups : call[g].name \in {"stage", "unwind"} =>
        \A s \in Taken(g) : parts[g][s].wrote => parts'[g][s].wrote

(* A watch makes a commit fail rather than clobber what was published since.     *)
NothingClobbered ==
    \A g \in Groups : \A s \in published'[g] \ published[g] : ~(Conflicts(g, s) /\ parts[g][s].wrote)

=============================================================================
