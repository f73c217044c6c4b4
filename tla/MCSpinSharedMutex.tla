------------------------- MODULE MCSpinSharedMutex -------------------------
(***************************************************************************)
(* SpinSharedMutex for TLC. A behaviour either parks at once, with all     *)
(* three threads calling, or spins first, with one of them staying out.    *)
(***************************************************************************)
EXTENDS SpinSharedMutex

CONSTANTS t1, t2, t3

MCThree == {t1, t2, t3}

VARIABLE spinning

MCvars == <<spinning, vars>>

Eager == INSTANCE SpinSharedMutex WITH Spins <- 0

Joins(A) == ~spinning /\ A /\ UNCHANGED spinning
Spinning(A) == spinning /\ A /\ pc'[t3] = pc[t3] /\ UNCHANGED spinning

MCInit == Init /\ spinning \in BOOLEAN
MCNext == Joins(Eager!Next) \/ Spinning(Next)

MCSpec ==
    /\ MCInit /\ [][MCNext]_MCvars
    /\ \A t \in Threads : WF_MCvars(Joins(Eager!Step(t))) /\ WF_MCvars(Spinning(Step(t)))

=============================================================================
