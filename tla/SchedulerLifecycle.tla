-------------------------- MODULE SchedulerLifecycle --------------------------
(* The scheduler, its requests and its runners implement RunLifecycle, as    *)
(* long as one serve process works on the tables.                            *)
EXTENDS Scheduler

\* The statement behind each decision: run-now rows and rows of the concurrent
\* policy are sent beside others, the rest alone.
Admission(r) ==
    IF via[r] = "none" THEN "none"
    ELSE IF via[r] \in {"manual", "concurrent"} THEN "beside" ELSE "alone"

Lifecycle ==
    INSTANCE RunLifecycle
    WITH Runs <- RunIds,
         owner <- [r \in RunIds |-> run[r].sched],
         status <- [r \in RunIds |-> run[r].status],
         admitted <- [r \in RunIds |-> Admission(r)],
         launched <- {r \in RunIds : starts[r] > 0}

\* Every step of the tick, of the requests beside it and of the runners is a
\* step of the life of a run or leaves it alone, across crashes and failed
\* statements: rows are sent to runners only by a decision that was right when
\* it was made, only sent rows run or report, and nothing that was sent is
\* discarded.
ImplementsLifecycle == Lifecycle!Spec
=============================================================================
