------------------------------ MODULE Scheduler ------------------------------
(***************************************************************************)
(* The scheduler loop of `cronfoundry serve` (internal/scheduler), the     *)
(* schedule and run tables it works on, the runners it launches, and the   *)
(* statements of other components that touch the same two tables: pause,   *)
(* resume, run-now, repository sync and the runner's finalize call.        *)
(*                                                                         *)
(* Every SQL statement the loop issues is one atomic step; between two of  *)
(* them anything else may happen, the process may crash, and the statement *)
(* itself may return an error.  A statement that took effect although the  *)
(* client saw an error is the same behaviour as the next one failing.      *)
(*                                                                         *)
(* Time.  Cron instants are small naturals and `now' saturates at Horizon, *)
(* after the last of them.  The other timestamps are only ever compared    *)
(* with now(), so the model keeps the difference: `age' of a row is        *)
(* now() - COALESCE(started_at, created_at), `left' of a token is its      *)
(* expiry minus now.  Both saturate, so the clock can tick for ever.       *)
(* created_at orders rows; row identifiers are handed out in that order.   *)
(***************************************************************************)
EXTENDS Integers, FiniteSets

CONSTANTS
    Schedules,    \* rows of table schedule
    Servers,      \* serve processes, each running its own scheduler loop
    MaxRuns,      \* bound: rows of table run ever inserted
    Horizon,      \* bound: the clock stops distinguishing instants here
    Crons,        \* cron expressions, each the set of instants it matches
    Policies,     \* values of schedule.overlap_policy
    Outcomes,     \* the statuses runners report
    Timeouts,     \* values of schedule.timeout_sec
    TokenSlack,   \* the 120 s added to the timeout in a runner's token
    SweepGrace,   \* the 300 s of grace in OrphanSweep
    MaxFaults,    \* bound: crashes and failed statements
    MaxEdits      \* bound: pause, resume, sync and run-now requests

ZeroTime == 0     \* Go's zero time.Time: an instant before every other
Null     == -1    \* SQL NULL
Never    == Horizon + 1
Instants == 1..(Horizon - 1)
Fires    == {ZeroTime, Null, Never} \cup Instants
RunIds   == 1..MaxRuns

ASSUME BoundsAssumption ==
    /\ MaxRuns \in Nat
    /\ Horizon \in Nat \ {0}
    /\ MaxFaults \in Nat
    /\ MaxEdits \in Nat
ASSUME SchedulesAssumption == Schedules # {}
ASSUME CronsAssumption == Crons \subseteq SUBSET Instants
ASSUME PoliciesAssumption == Policies \subseteq {"skip", "queue", "concurrent"}
ASSUME OutcomesAssumption == Outcomes \subseteq {"succeeded", "partial_failure", "failed"}
ASSUME TimesAssumption ==
    /\ Timeouts \subseteq Nat
    /\ TokenSlack \in Nat
    /\ SweepGrace \in Nat
\* 120 s and 300 s: a token expires before the sweep takes its run.
ASSUME SlackAssumption == TokenSlack <= SweepGrace

VARIABLES
    now,      \* the database clock
    sched,    \* table schedule
    run,      \* table run
    nextId,   \* identifier of the next row of table run
    pc,       \* where each serve process is in Tick ("down": not running)
    due,      \* rows returned by ListDueSchedulesWithSha, not yet processed
    cur,      \* the row processOne is working on (at most one)
    job,      \* dispatchArgs: the run being dispatched (at most one)
    pend,     \* rows returned by dispatchPending's query, not yet dispatched
    runners,  \* live runner processes with the token each was given
    faults, edits,
    (* History variables: *)
    via,      \* the decision under which each run was sent to a runner
    starts,   \* how many runners were launched for each run
    fired,    \* instants of each schedule for which a row was inserted
    since     \* the instant after which next_fire_at of a schedule stands for
              \* its expression: now() when it was last computed from the clock

server == <<pc, due, cur, job, pend>>
vars == <<now, sched, run, nextId, pc, due, cur, job, pend, runners,
          faults, edits, via, starts, fired, since>>

-----------------------------------------------------------------------------
(* Data.                                                                    *)

Active == {"pending", "running"}
Terminal == {"succeeded", "partial_failure", "failed"}
Statuses == Active \cup Terminal \cup {"none", "deleted"}

ScheduleRow == [enabled : BOOLEAN, policy : Policies, cron : Crons,
                timeout : Timeouts, nextFire : Fires]
RunRow == [sched : Schedules, fire : Fires, status : Statuses, age : Nat,
           hash : Nat, err : {"none", "shutdown"}]
Due == [sched : Schedules, cron : Crons, policy : Policies,
        timeout : Timeouts, fire : Fires]
Job == [run : RunIds, timeout : Timeouts, token : Nat, left : Nat]
Runner == [run : RunIds, pid : Nat, timeout : Timeouts, token : Nat, left : Nat,
           phase : {"working", "admitted"}]
\* An identifier that is not in use; its other columns mean nothing.
NoRow == [sched |-> CHOOSE s \in Schedules : TRUE, fire |-> Null, status |-> "none",
          age |-> 0, hash |-> 0, err |-> "none"]

\* Mutant of NextFire: the base instant itself counts as the next one.
NextFireInclusive(cron, base) ==
    LET later == {t \in cron : t >= base}
    IN  IF later = {} THEN Never
        ELSE CHOOSE t \in later : \A u \in later : t <= u

\* schedule.Next(base): an expression with no instant at all (30 February)
\* yields the zero time; one whose instants lie past the horizon, Never.
NextFire(cron, base) ==
    LET later == {t \in cron : t > base}
    IN  IF cron = {} THEN ZeroTime
        ELSE IF later = {} THEN Never
        ELSE CHOOSE t \in later : \A u \in later : t <= u

IsActive(r) == run[r].status \in Active
ActiveRuns(s) == {r \in RunIds : run[r].sched = s /\ IsActive(r)}
OlderActive(r) == {q \in ActiveRuns(run[r].sched) : q < r}

\* Mutant of Overdue: only rows that were marked running are swept.
OverdueRunningOnly(r) ==
    run[r].status = "running" /\ run[r].age > sched[run[r].sched].timeout + SweepGrace

\* Whether OrphanSweep takes row r: it reads the schedule's current timeout
\* and does not look at schedule.enabled.
Overdue(r) == IsActive(r) /\ run[r].age > sched[run[r].sched].timeout + SweepGrace

\* Ages are told apart up to the first one every schedule's sweep accepts.
AgeCap == CHOOSE a \in {t + SweepGrace + 1 : t \in Timeouts} :
              \A t \in Timeouts : t + SweepGrace + 1 <= a

\* Mutant of Decide: the new row is counted out a second time.
DecideOffByOne(policy, activeCount) ==
    IF policy = "concurrent" \/ activeCount <= 1 THEN "dispatch"
    ELSE IF policy = "queue" THEN "queue"
    ELSE "skip"

Decide(policy, activeCount) ==
    IF policy = "concurrent" \/ activeCount = 0 THEN "dispatch"
    ELSE IF policy = "queue" THEN "queue"
    ELSE "skip"

Up == \E p \in Servers : pc[p] # "down"

-----------------------------------------------------------------------------
(* Initially some schedules have been synced, some of them have been paused *)
(* since, and no process is running.                                        *)

Init ==
    /\ now = 1
    /\ sched \in [Schedules -> {x \in ScheduleRow : x.nextFire = NextFire(x.cron, 0)}]
    /\ run = [r \in RunIds |-> NoRow]
    /\ nextId = 1
    /\ pc = [p \in Servers |-> "down"]
    /\ due = [p \in Servers |-> {}]
    /\ cur = [p \in Servers |-> {}]
    /\ job = [p \in Servers |-> {}]
    /\ pend = [p \in Servers |-> {}]
    /\ runners = {}
    /\ faults = 0
    /\ edits = 0
    /\ via = [r \in RunIds |-> "none"]
    /\ starts = [r \in RunIds |-> 0]
    /\ fired = [s \in Schedules |-> {}]
    /\ since = [s \in Schedules |-> 0]

-----------------------------------------------------------------------------
(* Tick, one action per statement.                                          *)

\* OrphanSweep: one UPDATE over all overdue rows.
SweepRows ==
    run' = [r \in RunIds |-> IF Overdue(r)
                             THEN [run[r] EXCEPT !.status = "failed", !.err = "shutdown",
                                                 !.age = 0]
                             ELSE run[r]]

\* serve starts (or restarts after a crash): SweepOrphans, then the loop,
\* whose first tick runs at once.
Start(p) ==
    /\ pc[p] = "down"
    /\ SweepRows
    /\ pc' = [pc EXCEPT ![p] = "idle"]
    /\ UNCHANGED <<now, sched, nextId, due, cur, job, pend, runners,
                   faults, edits, via, starts, fired, since>>

DueRows ==
    {[sched |-> s, cron |-> sched[s].cron, policy |-> sched[s].policy,
      timeout |-> sched[s].timeout, fire |-> sched[s].nextFire] :
        s \in {x \in Schedules : sched[x].enabled /\ sched[x].nextFire <= now}}

ListDue(p) ==
    /\ pc[p] = "idle"
    /\ due' = [due EXCEPT ![p] = DueRows]
    /\ pc' = [pc EXCEPT ![p] = "schedules"]
    /\ UNCHANGED <<now, sched, run, nextId, cur, job, pend, runners,
                   faults, edits, via, starts, fired, since>>

\* processOne or dispatchRun returns: its locals are gone, and the loop that
\* called it, over due schedules or over pending rows, takes its next row.
Loop(p) == IF cur[p] # {} THEN "schedules" ELSE "drain"
Return(p) ==
    /\ pc' = [pc EXCEPT ![p] = Loop(p)]
    /\ cur' = [cur EXCEPT ![p] = {}]
    /\ job' = [job EXCEPT ![p] = {}]

\* The next due row, in order of next_fire_at.
IsNextDue(p, d) == \A e \in due[p] : d.fire <= e.fire

InsertedRow(s, fire) ==
    [NoRow EXCEPT !.sched = s, !.fire = fire, !.status = "pending"]

\* processOne: InsertRun with ON CONFLICT (schedule_id, fire_time) DO NOTHING.
\* The table keeps one row per fire; a row that was deleted does not conflict.
InsertRun(p) ==
    /\ pc[p] = "schedules"
    /\ \E d \in due[p] :
        /\ IsNextDue(p, d)
        /\ due' = [due EXCEPT ![p] = @ \ {d}]
        /\ cur' = [cur EXCEPT ![p] = {d}]
        /\ IF \E r \in RunIds : run[r].sched = d.sched /\ run[r].fire = d.fire
                                /\ run[r].status \notin {"none", "deleted"}
           THEN /\ pc' = [pc EXCEPT ![p] = "advanceOnly"]
                /\ UNCHANGED <<run, nextId, job, fired>>
           ELSE /\ nextId \in RunIds
                /\ run' = [run EXCEPT ![nextId] = InsertedRow(d.sched, d.fire)]
                /\ nextId' = nextId + 1
                /\ job' = [job EXCEPT ![p] = {[run |-> nextId, timeout |-> d.timeout,
                                               token |-> 0, left |-> 0]}]
                /\ fired' = [fired EXCEPT ![d.sched] = @ \cup {d.fire}]
                /\ pc' = [pc EXCEPT ![p] = "advance"]
    /\ UNCHANGED <<now, sched, pend, runners, faults, edits, via, starts, since>>

\* The history of a write of next_fire_at by processOne: a value computed from
\* an expression that a sync has replaced since the list was read says nothing
\* of the new expression, whose instants before it are passed over.
WriteNextFire(d, fire) ==
    /\ sched' = [sched EXCEPT ![d.sched].nextFire = fire]
    /\ since' = IF d.cron # sched[d.sched].cron /\ since[d.sched] < fire
                THEN [since EXCEPT ![d.sched] = fire] ELSE since

\* Mutant of AdvanceNextFire: the next fire is computed from the clock.
AdvanceFromNow(p) ==
    /\ pc[p] \in {"advance", "advanceOnly"}
    /\ \E d \in cur[p] : WriteNextFire(d, NextFire(d.cron, now))
    /\ IF pc[p] = "advanceOnly"
       THEN Return(p)
       ELSE pc' = [pc EXCEPT ![p] = "policy"] /\ UNCHANGED <<cur, job>>
    /\ UNCHANGED <<now, run, nextId, due, pend, runners,
                   faults, edits, via, starts, fired>>

\* processOne: UpdateScheduleNextFireAt with the value computed from the
\* listed row; the schedule row is not read again.
AdvanceNextFire(p) ==
    /\ pc[p] \in {"advance", "advanceOnly"}
    /\ \E d \in cur[p] : WriteNextFire(d, NextFire(d.cron, d.fire))
    /\ IF pc[p] = "advanceOnly"
       THEN Return(p)
       ELSE pc' = [pc EXCEPT ![p] = "policy"] /\ UNCHANGED <<cur, job>>
    /\ UNCHANGED <<now, run, nextId, due, pend, runners,
                   faults, edits, via, starts, fired>>

\* processOne: ListActiveRunsForSchedule without the new row, then Decide.
ApplyPolicy(p) ==
    /\ pc[p] = "policy"
    /\ \E d \in cur[p], j \in job[p] :
        LET others == ActiveRuns(d.sched) \ {j.run}
            decision == Decide(d.policy, Cardinality(others))
        IN  /\ \/ decision = "queue" /\ Return(p)
               \/ /\ decision # "queue"
                  /\ pc' = [pc EXCEPT ![p] = IF decision = "skip" THEN "delete" ELSE "sign"]
                  /\ UNCHANGED <<cur, job>>
            /\ via' = [via EXCEPT ![j.run] = IF decision = "dispatch"
                                             THEN d.policy ELSE @]
    /\ UNCHANGED <<now, sched, run, nextId, due, pend, runners,
                   faults, edits, starts, fired, since>>

\* processOne, decision skip: DeleteRun, which looks only at the id.
DeleteSkipped(p) ==
    /\ pc[p] = "delete"
    /\ \E j \in job[p] : run' = [run EXCEPT ![j.run] = [@ EXCEPT !.status = "deleted", !.age = 0]]
    /\ Return(p)
    /\ UNCHANGED <<now, sched, nextId, due, pend, runners,
                   faults, edits, via, starts, fired, since>>

\* Mutant of Dispatchable: rows already running are listed again.
DispatchableAnyActive(r) ==
    /\ IsActive(r)
    /\ sched[run[r].sched].enabled
    /\ \/ run[r].fire = Null
       \/ sched[run[r].sched].policy = "queue" /\ OlderActive(r) = {}

\* Mutant of Dispatchable: the NOT EXISTS over older rows is missing.
DispatchableAnyOrder(r) ==
    /\ run[r].status = "pending"
    /\ sched[run[r].sched].enabled
    /\ run[r].fire = Null \/ sched[run[r].sched].policy = "queue"

\* dispatchPending's query: manual rows, and scheduled rows of queue
\* schedules with no older active row; only of enabled schedules.
Dispatchable(r) ==
    /\ run[r].status = "pending"
    /\ sched[run[r].sched].enabled
    /\ \/ run[r].fire = Null
       \/ sched[run[r].sched].policy = "queue" /\ OlderActive(r) = {}

ListPending(p) ==
    /\ pc[p] = "schedules" /\ due[p] = {}
    /\ LET rows == {r \in RunIds : Dispatchable(r)}
       IN  /\ pend' = [pend EXCEPT ![p] =
                  {[run |-> r, timeout |-> sched[run[r].sched].timeout,
                    token |-> 0, left |-> 0] : r \in rows}]
           /\ via' = [r \in RunIds |->
                  IF r \notin rows THEN via[r]
                  ELSE IF run[r].fire = Null THEN "manual" ELSE "queue"]
    /\ pc' = [pc EXCEPT ![p] = "drain"]
    /\ UNCHANGED <<now, sched, run, nextId, due, cur, job, runners,
                   faults, edits, starts, fired, since>>

\* dispatchPending: the loop takes the oldest row of its list; whatever has
\* happened to the row since is not looked at.
TakePending(p) ==
    /\ pc[p] = "drain"
    /\ \E j \in pend[p] :
        /\ \A k \in pend[p] : j.run <= k.run
        /\ job' = [job EXCEPT ![p] = {j}]
        /\ pend' = [pend EXCEPT ![p] = @ \ {j}]
    /\ pc' = [pc EXCEPT ![p] = "sign"]
    /\ UNCHANGED <<now, sched, run, nextId, due, cur, runners,
                   faults, edits, via, starts, fired, since>>

\* dispatchRun: sign a fresh token and store its hash, whatever the status.
SignToken(p) ==
    /\ pc[p] = "sign"
    /\ \E j \in job[p] :
        /\ run' = [run EXCEPT ![j.run].hash = @ + 1]
        /\ job' = [job EXCEPT ![p] = {[j EXCEPT !.token = run[j.run].hash + 1,
                                                !.left = j.timeout + TokenSlack]}]
    /\ pc' = [pc EXCEPT ![p] = "start"]
    /\ UNCHANGED <<now, sched, nextId, due, cur, pend, runners,
                   faults, edits, via, starts, fired, since>>

\* dispatchRun: Dispatcher.Dispatch launches the runner with the token.
StartRunner(p) ==
    /\ pc[p] = "start"
    /\ \E j \in job[p] :
        /\ runners' = runners \cup {[run |-> j.run, pid |-> starts[j.run],
                           timeout |-> j.timeout, token |-> j.token, left |-> j.left,
                           phase |-> "working"]}
        /\ starts' = [starts EXCEPT ![j.run] = @ + 1]
    /\ pc' = [pc EXCEPT ![p] = "mark"]
    /\ UNCHANGED <<now, sched, run, nextId, due, cur, job, pend,
                   faults, edits, via, fired, since>>

\* Mutant of MarkRunning: started_at is not set.
MarkRunningNoStart(p) ==
    /\ pc[p] = "mark"
    /\ \E j \in job[p] :
        run' = IF run[j.run].status = "pending"
               THEN [run EXCEPT ![j.run].status = "running"] ELSE run
    /\ Return(p)
    /\ UNCHANGED <<now, sched, nextId, due, pend, runners,
                   faults, edits, via, starts, fired, since>>

\* dispatchRun: SetRunRunning, WHERE status = 'pending'.
MarkRunning(p) ==
    /\ pc[p] = "mark"
    /\ \E j \in job[p] :
        run' = IF run[j.run].status = "pending"
               THEN [run EXCEPT ![j.run] = [@ EXCEPT !.status = "running", !.age = 0]]
               ELSE run
    /\ Return(p)
    /\ UNCHANGED <<now, sched, nextId, due, pend, runners,
                   faults, edits, via, starts, fired, since>>

\* The end of Tick: OrphanSweep, then wait for the ticker.
Sweep(p) ==
    /\ pc[p] = "drain" /\ pend[p] = {}
    /\ SweepRows
    /\ pc' = [pc EXCEPT ![p] = "idle"]
    /\ UNCHANGED <<now, sched, nextId, due, cur, job, pend, runners,
                   faults, edits, via, starts, fired, since>>

Step(p) ==
    \/ ListDue(p) \/ InsertRun(p) \/ AdvanceNextFire(p) \/ ApplyPolicy(p)
    \/ DeleteSkipped(p) \/ ListPending(p) \/ TakePending(p) \/ SignToken(p)
    \/ StartRunner(p) \/ MarkRunning(p) \/ Sweep(p)

\* A statement of the tick returns an error (or a runner cannot be launched):
\* logged, and the loop it occurs in goes on with its next row.
StepFails(p) ==
    /\ faults < MaxFaults
    /\ \/ /\ pc[p] = "schedules" /\ due[p] # {}
          /\ \E d \in due[p] : IsNextDue(p, d) /\ due' = [due EXCEPT ![p] = @ \ {d}]
          /\ UNCHANGED <<pc, cur, job>>
       \/ /\ pc[p] = "schedules" /\ due[p] = {}
          /\ pc' = [pc EXCEPT ![p] = "drain"]
          /\ UNCHANGED <<due, cur, job>>
       \/ /\ pc[p] \in {"advance", "advanceOnly", "policy", "delete",
                        "sign", "start", "mark"}
          /\ Return(p)
          /\ due' = due
       \/ /\ pc[p] = "drain" /\ pend[p] = {}
          /\ pc' = [pc EXCEPT ![p] = "idle"]
          /\ UNCHANGED <<due, cur, job>>
    /\ faults' = faults + 1
    /\ UNCHANGED <<now, sched, run, nextId, pend, runners, edits, via, starts,
                   fired, since>>

\* The process dies between two statements; everything it held is gone.
Crash(p) ==
    /\ pc[p] # "down" /\ faults < MaxFaults
    /\ pc' = [pc EXCEPT ![p] = "down"]
    /\ due' = [due EXCEPT ![p] = {}]
    /\ cur' = [cur EXCEPT ![p] = {}]
    /\ job' = [job EXCEPT ![p] = {}]
    /\ pend' = [pend EXCEPT ![p] = {}]
    /\ faults' = faults + 1
    /\ UNCHANGED <<now, sched, run, nextId, runners, edits, via, starts,
                   fired, since>>

-----------------------------------------------------------------------------
(* The statements of other components on the same tables.                   *)

\* POST run-now: a manual row, whatever the schedule's state or policy.
RunNow(s) ==
    /\ Up /\ edits < MaxEdits /\ nextId \in RunIds
    /\ run' = [run EXCEPT ![nextId] = InsertedRow(s, Null)]
    /\ nextId' = nextId + 1
    /\ edits' = edits + 1
    /\ UNCHANGED <<now, sched, server, runners, faults, via, starts, fired, since>>

\* enabled := false, by the pause endpoint, by auto-pause or by a sync whose
\* manifest no longer names the schedule.
Pause(s) ==
    /\ sched[s].enabled /\ edits < MaxEdits
    /\ sched' = [sched EXCEPT ![s].enabled = FALSE]
    /\ edits' = edits + 1
    /\ UNCHANGED <<now, run, nextId, server, runners, faults, via, starts,
                   fired, since>>

\* SetScheduleEnabled(true): next_fire_at keeps its old value.
Resume(s) ==
    /\ Up /\ ~sched[s].enabled /\ edits < MaxEdits
    /\ sched' = [sched EXCEPT ![s].enabled = TRUE]
    /\ edits' = edits + 1
    /\ UNCHANGED <<now, run, nextId, server, runners, faults, via, starts,
                   fired, since>>

\* UpsertSchedule: next_fire_at is computed anew only when the schedule was
\* disabled or its cron expression changed.
UpsertSchedule(s, cron, policy, timeout) ==
    /\ edits < MaxEdits
    /\ LET fresh == ~sched[s].enabled \/ sched[s].cron # cron
       IN  /\ sched' = [sched EXCEPT ![s] =
                  [enabled |-> TRUE, policy |-> policy, cron |-> cron,
                   timeout |-> timeout,
                   nextFire |-> IF fresh THEN NextFire(cron, now) ELSE @.nextFire]]
           /\ since' = IF fresh THEN [since EXCEPT ![s] = now] ELSE since
    /\ edits' = edits + 1
    /\ UNCHANGED <<now, run, nextId, server, runners, faults, via, starts, fired>>

-----------------------------------------------------------------------------
(* Runners, as far as the run table sees them.                              *)

\* requireBearer: the token is unexpired and its hash is the stored one.
Admitted(w) == w.left > 0 /\ w.token = run[w.run].hash
               /\ run[w.run].status # "deleted"

Authenticate(w) ==
    /\ Up /\ w.phase = "working" /\ Admitted(w)
    /\ runners' = (runners \ {w}) \cup {[w EXCEPT !.phase = "admitted"]}
    /\ UNCHANGED <<now, sched, run, nextId, server, faults, edits, via, starts,
                   fired, since>>

\* FinalizeRun, WHERE status NOT IN the terminal ones (else 409 and no change).
FinalizeRun(w, outcome) ==
    /\ Up /\ w.phase = "admitted"
    /\ run' = IF IsActive(w.run)
              THEN [run EXCEPT ![w.run] = [@ EXCEPT !.status = outcome, !.age = 0]]
              ELSE run
    /\ runners' = runners \ {w}
    /\ UNCHANGED <<now, sched, nextId, server, faults, edits, via, starts,
                   fired, since>>

\* The runner ends without a finalize that counts: killed, or refused.
RunnerExits(w) ==
    /\ runners' = runners \ {w}
    /\ UNCHANGED <<now, sched, run, nextId, server, faults, edits, via, starts,
                   fired, since>>

\* Mutant of Count: the time left runs past zero.
CountDown(t) == [t EXCEPT !.left = @ - 1]

\* One unit of time passes for the clock, for every row and every token.
Count(t) == [t EXCEPT !.left = IF @ = 0 THEN 0 ELSE @ - 1]

Clock ==
    /\ now' = IF now < Horizon THEN now + 1 ELSE now
    /\ run' = [r \in RunIds |-> IF IsActive(r) /\ run[r].age < AgeCap
                                THEN [run[r] EXCEPT !.age = @ + 1] ELSE run[r]]
    /\ job' = [p \in Servers |-> {Count(j) : j \in job[p]}]
    /\ runners' = {Count(w) : w \in runners}
    /\ UNCHANGED <<sched, nextId, pc, due, cur, pend, faults, edits, via,
                   starts, fired, since>>

RunnerStep ==
    \E w \in runners : \/ Authenticate(w) \/ RunnerExits(w)
                       \/ \E outcome \in Outcomes : FinalizeRun(w, outcome)

Requests ==
    \E s \in Schedules :
        \/ RunNow(s) \/ Pause(s) \/ Resume(s)
        \/ \E c \in Crons, pol \in Policies, t \in Timeouts :
               UpsertSchedule(s, c, pol, t)

Next ==
    \/ \E p \in Servers : Start(p) \/ Step(p) \/ StepFails(p) \/ Crash(p)
    \/ Requests
    \/ RunnerStep
    \/ Clock

Spec == Init /\ [][Next]_vars

-----------------------------------------------------------------------------
(* Fairness: the loop of a live process keeps going (tick.C, and no step    *)
(* blocks for ever), a dead process is restarted by its platform, and time  *)
(* passes.  Runners owe nothing: they may hang or die silently.             *)
Fairness ==
    /\ \A p \in Servers : WF_vars(Step(p)) /\ WF_vars(Start(p))
    /\ WF_vars(Clock)

FairSpec == Spec /\ Fairness

-----------------------------------------------------------------------------
(* Properties.                                                              *)

PCs == {"down", "idle", "schedules", "advance", "advanceOnly", "policy",
        "delete", "sign", "start", "mark", "drain"}
Decisions == {"none", "manual"} \cup Policies \cup {"queue"}

\* Every variable has its type: rows, snapshots and tokens are well formed.
TypeOK ==
    /\ now \in 1..Horizon
    /\ sched \in [Schedules -> ScheduleRow]
    /\ run \in [RunIds -> RunRow]
    /\ nextId \in 1..(MaxRuns + 1)
    /\ pc \in [Servers -> PCs]
    /\ due \in [Servers -> SUBSET Due]
    /\ cur \in [Servers -> SUBSET Due]
    /\ job \in [Servers -> SUBSET Job]
    /\ pend \in [Servers -> SUBSET Job]
    /\ runners \subseteq Runner
    /\ faults \in 0..MaxFaults
    /\ edits \in 0..MaxEdits
    /\ via \in [RunIds -> Decisions]
    /\ starts \in [RunIds -> Nat]
    /\ fired \in [Schedules -> SUBSET Fires]
    /\ since \in [Schedules -> 0..Never]

\* Unless it was started by run-now or under the concurrent policy, a running
\* run has no older run of its schedule pending or running beside it: the
\* insert comes before the count, so whatever the interleaving of any number
\* of ticks, edits and crashes, later fires wait and queues drain in order.
NoOverlap ==
    \A r \in RunIds : run[r].status = "running"
                      => via[r] \in {"manual", "concurrent"} \/ OlderActive(r) = {}

(* Why NoOverlap holds: rows are handed out in order (Allocated), a process *)
(* works on the row it inserted (Locals), every dispatch rests on a         *)
(* decision (Sent), and a decision made under skip or queue stays right,    *)
(* since rows that are older and inactive never become active (Exclusive).  *)
Allocated ==
    /\ \A r \in RunIds : r >= nextId => run[r].status = "none" /\ via[r] = "none"
    /\ \A p \in Servers : \A j \in job[p] \cup pend[p] : j.run < nextId
Locals ==
    \A p \in Servers :
        /\ pc[p] \in {"down", "idle", "schedules", "drain"} => cur[p] = {} /\ job[p] = {}
        /\ \A j, k \in job[p] : j = k
        /\ \A d \in cur[p], j \in job[p] : run[j.run].sched = d.sched
Sent ==
    /\ \A p \in Servers : \A j \in job[p] :
           pc[p] \in {"sign", "start", "mark"} => via[j.run] # "none"
    /\ \A p \in Servers : \A j \in pend[p] : via[j.run] # "none"
    /\ \A r \in RunIds : run[r].status = "running" => via[r] # "none"
Exclusive ==
    \A q, r \in RunIds :
        via[r] \in {"skip", "queue"} /\ q < r /\ run[q].sched = run[r].sched
        => ~IsActive(q)

\* The inductive invariant behind NoOverlap.
OverlapInv == Allocated /\ Locals /\ Sent /\ Exclusive

\* Each fire of a schedule is executed as one run, and each run by one runner,
\* beyond those a failed statement or a crash accounts for.
StartedOnce ==
    /\ \A r \in RunIds : starts[r] <= 1 + faults
    /\ \A q, r \in RunIds :
         /\ run[q].sched = run[r].sched /\ run[q].fire = run[r].fire
         /\ run[q].fire # Null /\ starts[q] > 0 /\ starts[r] > 0
         => q = r

\* Every instant of a schedule's expression between the moment next_fire_at
\* was computed from the clock and its present value has had its row inserted:
\* no crash, failed statement, pause, edit or late tick makes the loop step
\* over a fire, other than those of a new expression whose next_fire_at a tick
\* that began under the old one overwrites (see WriteNextFire).
NoFireLost ==
    \A s \in Schedules : \A t \in sched[s].cron :
        since[s] < t /\ t < sched[s].nextFire => t \in fired[s]

\* The sweep never fails a running run while a runner still holds a token the
\* API would accept for it, unless a sync has lowered the schedule's timeout
\* below the one the runner was given.
SweepSparesLive ==
    [][\A r \in RunIds :
         run[r].status = "running" /\ run'[r].err = "shutdown"
         => \A w \in runners : w.run = r /\ Admitted(w)
                               => w.timeout > sched[run[r].sched].timeout]_vars

\* Every run ends: whatever crashes, hangs or is dropped, no row stays
\* pending or running for ever.
EveryRunEnds == \A r \in RunIds : IsActive(r) ~> ~IsActive(r)

\* A schedule whose expression matches some instant does not stay due for
\* ever: the loop catches up with all the fires it missed, or the schedule is
\* paused.  One whose expression parses but never matches (30 February) does:
\* NextFire gives the zero time, which every tick finds due again.  upsert.go's
\* comment says that bad expressions are rejected; that one is not.
CatchesUp ==
    \A s \in Schedules :
        (sched[s].enabled /\ sched[s].cron # {} /\ sched[s].nextFire <= now)
        ~> (~sched[s].enabled \/ sched[s].cron = {} \/ sched[s].nextFire > now)
=============================================================================
