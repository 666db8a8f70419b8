------------------------------ MODULE AutoPause ------------------------------
(***************************************************************************)
(* Pausing a schedule whose scheduled runs keep failing.                   *)
(*                                                                         *)
(* The finalize handler (internal/api/finalize.go) commits a run's outcome *)
(* and then, in a second transaction, evaluates the schedule's streak      *)
(* (finalize_autopause.go).  The evaluation reads the configuration, reads *)
(* the recent outcomes and updates the schedule in three statements at     *)
(* READ COMMITTED, so other finalizes, the operator's pause and resume,    *)
(* the orphan sweep and repository sync can come between them.  The last   *)
(* statement holds the schedule's row lock until the audit row and the run *)
(* event are written and the transaction commits, so those are one step.   *)
(*                                                                         *)
(* One schedule is modelled: no statement here touches two.  Rows of table *)
(* run are numbered in created_at order, and last_enabled_at is kept as    *)
(* the number of the first row created at or after it.                     *)
(***************************************************************************)
EXTENDS Naturals, FiniteSets

CONSTANTS
    MaxRuns,      \* bound: rows of table run
    Afters,       \* values of schedule.auto_pause_after; 0 is NULL
    DefaultAutoPauseAfter,
    MaxToggles,   \* bound: operator pauses and resumes
    MaxSyncs,     \* bound: syncs that upsert the schedule
    MaxSweeps,    \* bound: runs failed by the orphan sweep
    MaxLost       \* bound: evaluations that fail or die with their process

ASSUME AutoPauseAssumption ==
    /\ Afters \subseteq Nat /\ Afters # {}
    /\ DefaultAutoPauseAfter \in Nat \ {0}
    /\ {MaxRuns, MaxToggles, MaxSyncs, MaxSweeps, MaxLost} \subseteq Nat

VARIABLES
    enabled, autoPaused, after,  \* schedule.enabled, auto_paused_at, auto_pause_after
    lastEnabled,                 \* schedule.last_enabled_at
    nextId, run,                 \* table run
    eval,                        \* the evaluation started by each finalize
    audit,                       \* the schedule.auto_paused audit rows
    periods,                     \* history: times the schedule became enabled
    toggles, syncs, sweeps, lost

schedule == <<enabled, autoPaused, after, lastEnabled>>
bounds == <<toggles, syncs, sweeps, lost>>
vars == <<schedule, nextId, run, eval, audit, periods, bounds>>

RunIds == 1..MaxRuns
Terminal == {"succeeded", "partial_failure", "failed"}
RunRow == [reason : {"schedule", "manual"}, status : Terminal \cup {"none", "running"}]
Idle == [step |-> "none", after |-> 1, since |-> 1, seen |-> {}]
Evaluation == [step : {"none", "config", "recent", "pause"}, after : Nat,
               since : Nat, seen : SUBSET RunIds]

Threshold(a) == IF a >= 1 THEN a ELSE DefaultAutoPauseAfter

\* ListRecentTerminalScheduledRuns: the newest n terminal scheduled rows
\* created since the given moment.
TerminalScheduled(since) ==
    {r \in RunIds : /\ run[r].reason = "schedule"
                    /\ run[r].status \in Terminal
                    /\ r >= since}
Recent(since, n) ==
    {r \in TerminalScheduled(since) :
        Cardinality({q \in TerminalScheduled(since) : q > r}) < n}
AllFailed(rows) == \A r \in rows : run[r].status = "failed"

Init ==
    /\ enabled = TRUE /\ autoPaused = FALSE /\ after \in Afters
    /\ lastEnabled = 1
    /\ nextId = 1
    /\ run = [r \in RunIds |-> [reason |-> "schedule", status |-> "none"]]
    /\ eval = [r \in RunIds |-> Idle]
    /\ audit = {}
    /\ periods = 1
    /\ toggles = 0 /\ syncs = 0 /\ sweeps = 0 /\ lost = 0

\* A run is created: by the scheduler for an enabled schedule, by run-now
\* for any.
Create(reason) ==
    /\ nextId \in RunIds
    /\ reason = "schedule" => enabled
    /\ run' = [run EXCEPT ![nextId] = [reason |-> reason, status |-> "running"]]
    /\ nextId' = nextId + 1
    /\ UNCHANGED <<schedule, eval, audit, periods, bounds>>

\* The finalize transaction commits; evaluateAutoPause is called next and
\* returns at once unless a scheduled run failed.
Finalize(r, status) ==
    /\ run[r].status = "running"
    /\ run' = [run EXCEPT ![r].status = status]
    /\ eval' = [eval EXCEPT ![r].step =
                    IF run[r].reason = "schedule" /\ status = "failed"
                    THEN "config" ELSE "none"]
    /\ UNCHANGED <<schedule, nextId, audit, periods, bounds>>

\* OrphanSweep fails the run; nothing evaluates the streak.
Sweep(r) ==
    /\ run[r].status = "running" /\ sweeps < MaxSweeps
    /\ run' = [run EXCEPT ![r].status = "failed"]
    /\ sweeps' = sweeps + 1
    /\ UNCHANGED <<schedule, nextId, eval, audit, periods, toggles, syncs, lost>>

\* evaluateAutoPause: GetScheduleAutoPauseConfig.
GetConfig(r) ==
    /\ eval[r].step = "config"
    /\ eval' = [eval EXCEPT ![r] = [@ EXCEPT !.step = "recent",
                    !.after = Threshold(after), !.since = lastEnabled]]
    /\ UNCHANGED <<schedule, nextId, run, audit, periods, bounds>>

\* Mutant of ListRecent: one failure more than the threshold is asked for.
ListRecentOffByOne(r) ==
    /\ eval[r].step = "recent"
    /\ LET rows == Recent(eval[r].since, eval[r].after)
           streak == Cardinality(rows) > eval[r].after /\ AllFailed(rows)
       IN  eval' = [eval EXCEPT ![r] = IF streak
                        THEN [@ EXCEPT !.step = "pause", !.seen = rows] ELSE Idle]
    /\ UNCHANGED <<schedule, nextId, run, audit, periods, bounds>>

\* Mutant of ListRecent: the recent outcomes are counted, not looked at.
ListRecentCounts(r) ==
    /\ eval[r].step = "recent"
    /\ LET rows == Recent(eval[r].since, eval[r].after)
       IN  eval' = [eval EXCEPT ![r] = IF Cardinality(rows) >= eval[r].after
                        THEN [@ EXCEPT !.step = "pause", !.seen = rows] ELSE Idle]
    /\ UNCHANGED <<schedule, nextId, run, audit, periods, bounds>>

\* evaluateAutoPause: the recent outcomes; too few, or a streak broken by
\* another outcome, end it.
ListRecent(r) ==
    /\ eval[r].step = "recent"
    /\ LET rows == Recent(eval[r].since, eval[r].after)
           streak == Cardinality(rows) >= eval[r].after /\ AllFailed(rows)
       IN  eval' = [eval EXCEPT ![r] = IF streak
                        THEN [@ EXCEPT !.step = "pause", !.seen = rows] ELSE Idle]
    /\ UNCHANGED <<schedule, nextId, run, audit, periods, bounds>>

\* Mutant of AutoPauseSchedule: rows are recorded even when none was updated.
AutoPauseUnguarded(r) ==
    /\ eval[r].step = "pause"
    /\ enabled' = FALSE
    /\ autoPaused' = TRUE
    /\ audit' = audit \cup {[run |-> r, seen |-> eval[r].seen, period |-> periods]}
    /\ eval' = [eval EXCEPT ![r] = Idle]
    /\ UNCHANGED <<after, lastEnabled, nextId, run, periods, bounds>>

\* evaluateAutoPause: AutoPauseSchedule, WHERE enabled; when a row was
\* updated, the audit row and run event in the same transaction.
AutoPauseSchedule(r) ==
    /\ eval[r].step = "pause"
    /\ IF enabled
       THEN /\ enabled' = FALSE
            /\ autoPaused' = TRUE
            /\ audit' = audit \cup {[run |-> r, seen |-> eval[r].seen, period |-> periods]}
       ELSE UNCHANGED <<enabled, autoPaused, audit>>
    /\ eval' = [eval EXCEPT ![r] = Idle]
    /\ UNCHANGED <<after, lastEnabled, nextId, run, periods, bounds>>

\* An error, the evaluation timeout or a crash rolls the evaluation back; the
\* finalize stands and nothing retries.
EvaluationLost(r) ==
    /\ eval[r].step # "none" /\ lost < MaxLost
    /\ eval' = [eval EXCEPT ![r] = Idle]
    /\ lost' = lost + 1
    /\ UNCHANGED <<schedule, nextId, run, audit, periods, toggles, syncs, sweeps>>

\* The operator pauses or resumes: SetScheduleEnabled.
SetScheduleEnabled(on) ==
    /\ toggles < MaxToggles
    /\ enabled' = on
    /\ autoPaused' = IF on THEN FALSE ELSE autoPaused
    /\ lastEnabled' = IF on /\ ~enabled THEN nextId ELSE lastEnabled
    /\ periods' = IF on /\ ~enabled THEN periods + 1 ELSE periods
    /\ toggles' = toggles + 1
    /\ UNCHANGED <<after, nextId, run, eval, audit, syncs, sweeps, lost>>

\* A sync upserts the schedule: enabled is set, the auto-pause columns other
\* than auto_pause_after are not in its SET list.
UpsertSchedule(a) ==
    /\ syncs < MaxSyncs
    /\ enabled' = TRUE
    /\ after' = a
    /\ periods' = IF enabled THEN periods ELSE periods + 1
    /\ syncs' = syncs + 1
    /\ UNCHANGED <<autoPaused, lastEnabled, nextId, run, eval, audit, toggles,
                   sweeps, lost>>

Evaluate(r) == GetConfig(r) \/ ListRecent(r) \/ AutoPauseSchedule(r)

Next ==
    \/ \E reason \in {"schedule", "manual"} : Create(reason)
    \/ \E r \in RunIds : \/ \E status \in Terminal : Finalize(r, status)
                         \/ Sweep(r) \/ Evaluate(r) \/ EvaluationLost(r)
    \/ \E on \in BOOLEAN : SetScheduleEnabled(on)
    \/ \E a \in Afters : UpsertSchedule(a)

Spec == Init /\ [][Next]_vars

-----------------------------------------------------------------------------
\* Every variable has its type; run statuses are those finalize accepts.
TypeOK ==
    /\ enabled \in BOOLEAN /\ autoPaused \in BOOLEAN /\ after \in Afters
    /\ nextId \in 1..(MaxRuns + 1) /\ lastEnabled \in 1..(MaxRuns + 1)
    /\ run \in [RunIds -> RunRow]
    /\ eval \in [RunIds -> Evaluation]
    /\ audit \subseteq [run : RunIds, seen : SUBSET RunIds, period : Nat]
    /\ periods \in Nat
    /\ toggles \in 0..MaxToggles /\ syncs \in 0..MaxSyncs
    /\ sweeps \in 0..MaxSweeps /\ lost \in 0..MaxLost

\* The streak that should have paused the schedule: the newest outcomes since
\* it was last enabled reach the threshold and all are failures.
Streak ==
    LET rows == Recent(lastEnabled, Threshold(after))
    IN  Cardinality(rows) >= Threshold(after) /\ AllFailed(rows)

\* What breaks the promise below by itself: a run failed by the sweep and an
\* evaluation that was lost are evaluated by nobody, and a sync enables the
\* schedule without moving the window.
Undisturbed == syncs = 0 /\ sweeps = 0 /\ lost = 0

\* No streak is missed: however finalizes overlap, an enabled schedule with a
\* full streak of failures behind it has an evaluation under way that will
\* find the streak (the outcome is committed before its streak is read, so the
\* last evaluator of a streak sees all of it).
StreakIsBeingEvaluated ==
    Undisturbed /\ enabled /\ Streak =>
        \E r \in RunIds : /\ r >= lastEnabled
                          /\ \/ eval[r].step = "config"
                             \/ eval[r].step = "recent" /\ eval[r].since = lastEnabled
                             \/ eval[r].step = "pause"

\* At most one auto-pause is recorded for each time the schedule was enabled,
\* however many finalizes see the streak at once.
OneAuditPerPeriod ==
    \A x, y \in audit : x.period = y.period => x = y

\* Every recorded auto-pause rests on failed scheduled runs only, as many as
\* the threshold: run-now failures and partial failures never count.  The
\* failures may be those of an earlier period the schedule was enabled: the
\* update does not look again at the window and the threshold that were read.
PausedOnFailures ==
    \A x \in audit :
        /\ \A r \in x.seen : run[r].reason = "schedule" /\ run[r].status = "failed"
        /\ x.run \in x.seen \/ \E r \in x.seen : r > x.run
        /\ \E a \in Afters : Cardinality(x.seen) = Threshold(a)

=============================================================================
