--------------------------- MODULE SchedulerProofs ---------------------------
(***************************************************************************)
(* Theorems about Scheduler, for every set of schedules and serve          *)
(* processes and every value of the bounds: types and overlap policies; no *)
(* fire is stepped over; and what one serve process does with the rows it  *)
(* inserts: every run is executed once, the sweep spares live runs, and    *)
(* the loop implements RunLifecycle.  Only these last need OneServer.      *)
(***************************************************************************)
EXTENDS SchedulerLifecycle, FiniteSetTheorems, TLAPS

-----------------------------------------------------------------------------
(* A set of naturals has a least element; so NextFire is well defined.      *)

Below(T, x) == {y \in T : y < x}

\* The elements of a set of naturals below one of them are finitely many.
LEMMA BelowFinite ==
    ASSUME NEW T, \A t \in T : t \in Nat, NEW x \in T
    PROVE  Below(T, x) \in FiniteSubsetsOf(Nat)
<1>1. IsFiniteSet(0..x)
  BY FS_Interval
<1>2. Below(T, x) \subseteq 0..x /\ Below(T, x) \subseteq Nat
  BY DEF Below
<1>3. IsFiniteSet(Below(T, x))
  BY <1>1, <1>2, FS_Subset, Zenon
<1> QED
  BY <1>2, <1>3 DEF FiniteSubsetsOf

\* Every nonempty set of naturals has a least element.
LEMMA LeastElement ==
    ASSUME NEW T, \A t \in T : t \in Nat, T # {}
    PROVE  \E x \in T : \A y \in T : x <= y
<1> DEFINE Family == {Below(T, x) : x \in T}
<1>1. Family \subseteq FiniteSubsetsOf(Nat) /\ Family # {}
  BY BelowFinite, Zenon
<1>2. PICK m \in Family : \A n \in Family : ~(<<n, m>> \in StrictSubsetOrdering(Nat))
  BY <1>1, WFMin, FS_StrictSubsetOrderingWellFounded, Zenon
<1>3. PICK x \in T : m = Below(T, x)
  BY <1>2, Zenon
<1>4. SUFFICES ASSUME NEW y \in T, y < x PROVE FALSE
  BY <1>3
<1>5. /\ Below(T, y) \subseteq Below(T, x) /\ Below(T, y) # Below(T, x)
      /\ Below(T, y) \subseteq Nat /\ Below(T, x) \subseteq Nat
  BY <1>4 DEF Below
<1>6. <<Below(T, y), m>> \in StrictSubsetOrdering(Nat)
  BY <1>3, <1>5 DEF StrictSubsetOrdering
<1> QED
  BY <1>2, <1>6, Zenon

\* NextFire returns an instant, Never or the zero time, and no instant of the
\* expression lies between the base and what it returns.
LEMMA NextFireType ==
    ASSUME NEW cron \in Crons, NEW base \in Int
    PROVE  /\ NextFire(cron, base) \in Fires
           /\ NextFire(cron, base) \in 0..Never
           /\ \A t \in cron : t < NextFire(cron, base) => t <= base
<1>0. \A t \in cron : t \in Instants
  BY CronsAssumption
<1> DEFINE later == {t \in cron : t > base}
<1>1. CASE cron = {} \/ later = {}
  BY <1>0, <1>1, BoundsAssumption DEF NextFire, Fires, ZeroTime, Never, Instants
<1>2. CASE cron # {} /\ later # {}
  <2>1. later \subseteq Instants
    BY CronsAssumption
  <2>2. \A t \in later : t \in Nat
    BY <2>1, BoundsAssumption DEF Instants
  <2>3. \E t \in later : \A u \in later : t <= u
    <3> HIDE DEF later
    <3> QED BY <1>2, <2>2, LeastElement
  <2>4. NextFire(cron, base) = CHOOSE t \in later : \A u \in later : t <= u
    BY <1>2 DEF NextFire
  <2>5. (CHOOSE t \in later : \A u \in later : t <= u) \in later
    <3> HIDE DEF later
    <3> QED BY <2>3, Zenon
  <2>6. \A u \in later : NextFire(cron, base) <= u
    <3> HIDE DEF later
    <3> QED BY <2>3, <2>4, Zenon
  <2> QED
    BY <1>0, <2>1, <2>4, <2>5, <2>6, BoundsAssumption DEF Fires, Never, Instants
<1> QED
  BY <1>1, <1>2

-----------------------------------------------------------------------------
(* Type correctness.                                                        *)

USE DEF RunIds, Statuses, Active, Terminal

\* The initial state is well typed.
LEMMA InitTypeOK == Init => TypeOK
<1> SUFFICES ASSUME Init PROVE TypeOK
  OBVIOUS
<1>1. \A x \in ScheduleRow : x.nextFire \in Fires
  BY DEF ScheduleRow
<1>2. NoRow \in RunRow
  BY SchedulesAssumption DEF NoRow, RunRow, Fires
<1>3. sched \in [Schedules -> ScheduleRow]
  BY DEF Init
<1> QED
  BY <1>2, <1>3, BoundsAssumption
  DEF Init, TypeOK, PCs, Decisions, Never

\* Writing a status and an age, or a hash, into a row gives a row.
LEMMA RowUpdate ==
    ASSUME NEW x \in RunRow, NEW st \in Statuses, NEW a \in Nat, NEW h \in Nat
    PROVE  /\ [x EXCEPT !.status = st] \in RunRow
           /\ [x EXCEPT !.status = st, !.age = a] \in RunRow
           /\ [x EXCEPT !.status = st, !.err = "shutdown", !.age = a] \in RunRow
           /\ [x EXCEPT !.hash = h] \in RunRow
BY DEF RunRow

\* Ageing a row gives a row.
LEMMA AgeUpdate ==
    ASSUME NEW x \in RunRow
    PROVE  [x EXCEPT !.age = x.age + 1] \in RunRow
<1>1. x.age + 1 \in Nat
  BY DEF RunRow
<1> QED
  BY <1>1 DEF RunRow

\* A sweep leaves the run table well typed.
LEMMA SweepRowsType ==
    ASSUME TypeOK, SweepRows
    PROVE  run' \in [RunIds -> RunRow]
<1>1. \A r \in RunIds : [run[r] EXCEPT !.status = "failed", !.err = "shutdown",
                                       !.age = 0] \in RunRow
  BY RowUpdate DEF TypeOK
<1> QED
  BY <1>1 DEF TypeOK, SweepRows

\* Steps of a tick keep every variable well typed.
LEMMA StepTypeOK ==
    ASSUME TypeOK, NEW p \in Servers, Start(p) \/ Step(p)
    PROVE  TypeOK'
<1> USE DEF TypeOK, PCs
<1>1. CASE Start(p)
  BY <1>1, SweepRowsType DEF Start
<1>2. CASE ListDue(p)
  <2>1. DueRows \subseteq Due
    BY DEF DueRows, Due, ScheduleRow
  <2> QED
    BY <1>2, <2>1 DEF ListDue
<1>3. CASE InsertRun(p)
  <2>1. PICK d \in due[p] : InsertRun(p)!2!(d)
    BY <1>3 DEF InsertRun
  <2>2. d \in Due
    BY <2>1
  <2>3. InsertedRow(d.sched, d.fire) \in RunRow
    BY <2>2 DEF InsertedRow, NoRow, RunRow, Due
  <2>4. nextId \in RunIds =>
          [run |-> nextId, timeout |-> d.timeout, token |-> 0, left |-> 0] \in Job
    BY <2>2 DEF Due, Job
  <2>5. CASE InsertRun(p)!2!(d)!4!2
    <3>1. /\ due' \in [Servers -> SUBSET Due] /\ cur' \in [Servers -> SUBSET Due]
          /\ pc' \in [Servers -> PCs]
      BY <2>1, <2>2
    <3> QED
      BY <1>3, <2>5, <3>1 DEF InsertRun
  <2>6. CASE InsertRun(p)!2!(d)!4!3
    <3>1. /\ run' \in [RunIds -> RunRow] /\ nextId' \in 1..(MaxRuns + 1)
          /\ job' \in [Servers -> SUBSET Job]
      BY <2>3, <2>4, <2>6, BoundsAssumption
    <3>2. fired' \in [Schedules -> SUBSET Fires]
      BY <2>2, <2>6 DEF Due
    <3>3. /\ due' \in [Servers -> SUBSET Due] /\ cur' \in [Servers -> SUBSET Due]
          /\ pc' \in [Servers -> PCs]
      BY <2>1, <2>2
    <3> QED
      BY <1>3, <3>1, <3>2, <3>3 DEF InsertRun
  <2> QED
    BY <2>1, <2>5, <2>6
<1>4. CASE AdvanceNextFire(p)
  <2>1. PICK d \in cur[p] : WriteNextFire(d, NextFire(d.cron, d.fire))
    BY <1>4 DEF AdvanceNextFire
  <2>2. NextFire(d.cron, d.fire) \in Fires /\ NextFire(d.cron, d.fire) \in 0..Never
    <3>1. d.cron \in Crons /\ d.fire \in Int
      BY <2>1, BoundsAssumption DEF Due, Fires, Instants, Null, ZeroTime, Never
    <3> QED
      BY <3>1, NextFireType
  <2>3. sched' \in [Schedules -> ScheduleRow]
    BY <2>1, <2>2 DEF WriteNextFire, Due, ScheduleRow
  <2>4. since' \in [Schedules -> 0..Never]
    BY <2>1, <2>2 DEF WriteNextFire, Due
  <2> QED
    BY <1>4, <2>3, <2>4 DEF AdvanceNextFire, Return, Loop
<1>5. CASE ApplyPolicy(p)
  <2>1. PICK d \in cur[p], j \in job[p] : ApplyPolicy(p)!2!(d, j)
    BY <1>5 DEF ApplyPolicy
  <2>2. d \in Due /\ j \in Job
    BY <2>1
  <2>3. via' \in [RunIds -> Decisions]
    BY <2>1, <2>2 DEF Due, Job, Decisions
  <2>4. /\ pc' \in [Servers -> PCs] /\ cur' \in [Servers -> SUBSET Due]
        /\ job' \in [Servers -> SUBSET Job]
    BY <1>5, <2>1 DEF Return, Loop
  <2> QED
    BY <1>5, <2>3, <2>4 DEF ApplyPolicy
<1>6. CASE DeleteSkipped(p)
  <2>1. PICK j \in job[p] :
          run' = [run EXCEPT ![j.run] = [@ EXCEPT !.status = "deleted", !.age = 0]]
    BY <1>6 DEF DeleteSkipped
  <2>2. j.run \in RunIds
    BY DEF Job
  <2>3. run' \in [RunIds -> RunRow]
    <3>1. [run[j.run] EXCEPT !.status = "deleted", !.age = 0] \in RunRow
      BY <2>2, RowUpdate
    <3> QED
      BY <2>1, <2>2, <3>1
  <2> QED
    BY <1>6, <2>3 DEF DeleteSkipped, Return, Loop
<1>7. CASE ListPending(p)
  <2>1. \A r \in RunIds : Dispatchable(r) =>
          [run |-> r, timeout |-> sched[run[r].sched].timeout,
           token |-> 0, left |-> 0] \in Job
    BY DEF Dispatchable, Job, RunRow, ScheduleRow
  <2> QED
    BY <1>7, <2>1 DEF ListPending, Decisions
<1>8. CASE TakePending(p)
  BY <1>8 DEF TakePending
<1>9. CASE SignToken(p)
  <2>1. PICK j \in job[p] : SignToken(p)!2!(j)
    BY <1>9 DEF SignToken
  <2>2. j \in Job /\ run[j.run].hash + 1 \in Nat /\ j.timeout + TokenSlack \in Nat
    BY <2>1, TimesAssumption DEF Job, RunRow
  <2>3. run' \in [RunIds -> RunRow]
    <3>1. j.run \in RunIds /\ [run[j.run] EXCEPT !.hash = run[j.run].hash + 1] \in RunRow
      BY <2>2, RowUpdate DEF Job
    <3> QED
      BY <2>1, <3>1
  <2>4. [j EXCEPT !.token = run[j.run].hash + 1, !.left = j.timeout + TokenSlack] \in Job
    BY <2>2 DEF Job
  <2>5. job' \in [Servers -> SUBSET Job]
    BY <2>1, <2>4
  <2> QED
    BY <1>9, <2>3, <2>5 DEF SignToken
<1>10. CASE StartRunner(p)
  <2>1. PICK j \in job[p] : StartRunner(p)!2!(j)
    BY <1>10 DEF StartRunner
  <2>2. j \in Job
    BY <2>1
  <2>3. runners' \subseteq Runner /\ starts' \in [RunIds -> Nat]
    BY <2>1, <2>2 DEF Job, Runner
  <2> QED
    BY <1>10, <2>3 DEF StartRunner
<1>11. CASE MarkRunning(p)
  <2>1. PICK j \in job[p] : MarkRunning(p)!2!(j)
    BY <1>11 DEF MarkRunning
  <2>2. j.run \in RunIds
    BY DEF Job
  <2>3. run' \in [RunIds -> RunRow]
    <3>1. [run[j.run] EXCEPT !.status = "running", !.age = 0] \in RunRow
      BY <2>2, RowUpdate
    <3> QED
      BY <2>1, <2>2, <3>1
  <2> QED
    BY <1>11, <2>3 DEF MarkRunning, Return, Loop
<1>12. CASE Sweep(p)
  BY <1>12, SweepRowsType DEF Sweep
<1> QED
  BY <1>1, <1>2, <1>3, <1>4, <1>5, <1>6, <1>7, <1>8, <1>9, <1>10, <1>11, <1>12
  DEF Step

\* A failed statement or a crash keeps every variable well typed.
LEMMA FaultTypeOK ==
    ASSUME TypeOK, NEW p \in Servers, StepFails(p) \/ Crash(p)
    PROVE  TypeOK'
<1> USE BoundsAssumption DEF TypeOK, PCs
<1>1. CASE StepFails(p)
  <2>1. faults' \in 0..MaxFaults
    BY <1>1 DEF StepFails
  <2>2. /\ due' \in [Servers -> SUBSET Due] /\ cur' \in [Servers -> SUBSET Due]
        /\ pc' \in [Servers -> PCs] /\ job' \in [Servers -> SUBSET Job]
    BY <1>1 DEF StepFails, Return, Loop
  <2> QED
    BY <1>1, <2>1, <2>2 DEF StepFails
<1>2. CASE Crash(p)
  BY <1>2 DEF Crash
<1> QED
  BY <1>1, <1>2

\* Switching a schedule on or off gives a schedule row.
LEMMA EnabledUpdate ==
    ASSUME NEW x \in ScheduleRow, NEW b \in BOOLEAN
    PROVE  [x EXCEPT !.enabled = b] \in ScheduleRow
BY DEF ScheduleRow

\* A request of another component keeps every variable well typed.
LEMMA RequestTypeOK ==
    ASSUME TypeOK, Requests
    PROVE  TypeOK'
<1> USE BoundsAssumption DEF TypeOK
<1>1. CASE \E s \in Schedules : RunNow(s)
  <2>1. PICK s \in Schedules : RunNow(s)
    BY <1>1
  <2>2. InsertedRow(s, Null) \in RunRow
    BY DEF InsertedRow, NoRow, RunRow, Fires
  <2> QED
    BY <2>1, <2>2 DEF RunNow, server
<1>2. CASE \E s \in Schedules : Pause(s)
  <2>1. PICK s \in Schedules : Pause(s)
    BY <1>2
  <2>2. [sched[s] EXCEPT !.enabled = FALSE] \in ScheduleRow
    BY EnabledUpdate, Zenon
  <2>3. sched' \in [Schedules -> ScheduleRow]
    BY <2>1, <2>2 DEF Pause
  <2> QED
    BY <2>1, <2>3 DEF Pause, server
<1>3. CASE \E s \in Schedules : Resume(s)
  <2>1. PICK s \in Schedules : Resume(s)
    BY <1>3
  <2>2. [sched[s] EXCEPT !.enabled = TRUE] \in ScheduleRow
    BY EnabledUpdate, Zenon
  <2>3. sched' \in [Schedules -> ScheduleRow]
    BY <2>1, <2>2 DEF Resume
  <2> QED
    BY <2>1, <2>3 DEF Resume, server
<1>4. CASE \E s \in Schedules, c \in Crons, pol \in Policies, t \in Timeouts :
             UpsertSchedule(s, c, pol, t)
  <2>1. PICK s \in Schedules, c \in Crons, pol \in Policies, t \in Timeouts :
             UpsertSchedule(s, c, pol, t)
    BY <1>4
  <2>2. NextFire(c, now) \in Fires
    BY NextFireType
  <2>3. sched' \in [Schedules -> ScheduleRow]
    BY <2>1, <2>2 DEF UpsertSchedule, ScheduleRow
  <2>4. now \in 0..Never
    BY DEF Never
  <2>5. since' \in [Schedules -> 0..Never]
    BY <2>1, <2>4 DEF UpsertSchedule
  <2> QED
    BY <2>1, <2>3, <2>5 DEF UpsertSchedule, server
<1> QED
  BY <1>1, <1>2, <1>3, <1>4 DEF Requests

\* Runners and the clock keep every variable well typed.
LEMMA EnvironmentTypeOK ==
    ASSUME TypeOK, RunnerStep \/ Clock
    PROVE  TypeOK'
<1> USE BoundsAssumption DEF TypeOK
<1>1. ASSUME NEW w \in runners, Authenticate(w)
      PROVE  TypeOK'
  BY <1>1 DEF Authenticate, server, Runner
<1>2. ASSUME NEW w \in runners, RunnerExits(w)
      PROVE  TypeOK'
  BY <1>2 DEF RunnerExits, server
<1>3. ASSUME NEW w \in runners, NEW outcome \in Outcomes, FinalizeRun(w, outcome)
      PROVE  TypeOK'
  <2>1. w.run \in RunIds
    BY DEF Runner
  <2>2. [run[w.run] EXCEPT !.status = outcome, !.age = 0] \in RunRow
    BY <2>1, RowUpdate, OutcomesAssumption
  <2>3. run' \in [RunIds -> RunRow]
    BY <1>3, <2>1, <2>2 DEF FinalizeRun
  <2> QED
    BY <1>3, <2>3 DEF FinalizeRun, server
<1>4. CASE Clock
  <2>1. \A r \in RunIds : [run[r] EXCEPT !.age = run[r].age + 1] \in RunRow
    BY AgeUpdate
  <2>2. run' \in [RunIds -> RunRow]
    BY <1>4, <2>1 DEF Clock
  <2>3. (\A j \in Job : Count(j) \in Job) /\ (\A w \in Runner : Count(w) \in Runner)
    <3>1. ASSUME NEW n \in Nat PROVE (IF n = 0 THEN 0 ELSE n - 1) \in Nat
      BY <3>1
    <3>2. ASSUME NEW j \in Job PROVE Count(j) \in Job
      <4>1. (IF j.left = 0 THEN 0 ELSE j.left - 1) \in Nat
        BY <3>1 DEF Job
      <4> QED
        BY <4>1 DEF Count, Job
    <3>3. ASSUME NEW w \in Runner PROVE Count(w) \in Runner
      <4>1. (IF w.left = 0 THEN 0 ELSE w.left - 1) \in Nat
        BY <3>1 DEF Runner
      <4> QED
        BY <4>1 DEF Count, Runner
    <3> QED
      BY <3>2, <3>3
  <2>4. job' \in [Servers -> SUBSET Job] /\ runners' \subseteq Runner
    BY <1>4, <2>3 DEF Clock
  <2> QED
    BY <1>4, <2>2, <2>4 DEF Clock
<1> QED
  BY <1>1, <1>2, <1>3, <1>4 DEF RunnerStep

\* Every step keeps every variable well typed.
LEMMA NextTypeOK == TypeOK /\ [Next]_vars => TypeOK'
<1>1. CASE UNCHANGED vars
  BY <1>1 DEF vars, TypeOK
<1> QED
  BY <1>1, StepTypeOK, FaultTypeOK, RequestTypeOK, EnvironmentTypeOK DEF Next

\* Type correctness: in every behaviour of the scheduler, whatever the number
\* of processes, schedules and faults, rows, snapshots and tokens are well
\* formed; in particular next_fire_at is always an instant.
THEOREM TypeCorrect == Spec => []TypeOK
BY InitTypeOK, NextTypeOK, PTL DEF Spec

-----------------------------------------------------------------------------
(* Exclusion.                                                               *)

\* The initial state satisfies the inductive invariant.
LEMMA InitOverlapInv == Init => OverlapInv
BY DEF Init, OverlapInv, Allocated, Locals, Sent, Exclusive, IsActive, NoRow

\* A run table in which no row becomes active, starts running or changes its
\* schedule, and no row that is not in use is used.
Shrinks ==
    \A q \in RunIds :
        /\ run'[q].sched = run[q].sched
        /\ run'[q].status \in Active => run[q].status \in Active
        /\ run'[q].status = "running" => run[q].status = "running"
        /\ q >= nextId => run'[q].status = run[q].status

\* What such a step, with the decisions unchanged, preserves.
LEMMA ShrinksPreserves ==
    ASSUME TypeOK, OverlapInv, Shrinks, UNCHANGED <<via, nextId>>
    PROVE  /\ Exclusive'
           /\ \A r \in RunIds : r >= nextId' => run'[r].status = "none" /\ via'[r] = "none"
           /\ \A r \in RunIds : run'[r].status = "running" => via'[r] # "none"
<1>1. Exclusive'
  BY DEF OverlapInv, Exclusive, Shrinks, IsActive
<1>2. \A r \in RunIds : r >= nextId' => run'[r].status = "none" /\ via'[r] = "none"
  BY DEF OverlapInv, Allocated, Shrinks
<1>3. \A r \in RunIds : run'[r].status = "running" => via'[r] # "none"
  BY DEF OverlapInv, Sent, Shrinks
<1> QED
  BY <1>1, <1>2, <1>3

\* A sweep only takes rows out of the active ones.
LEMMA SweepShrinks ==
    ASSUME TypeOK, OverlapInv, SweepRows
    PROVE  Shrinks
<1>1. \A r \in RunIds : r >= nextId => ~Overdue(r)
  BY DEF OverlapInv, Allocated, Overdue, IsActive
<1> QED
  BY <1>1 DEF TypeOK, SweepRows, Shrinks, RunRow, IsActive, Overdue

\* Steps that change neither the run table nor the decisions need only keep
\* the processes' own variables in order.
LEMMA SameTable ==
    ASSUME OverlapInv, UNCHANGED <<run, via, nextId>>
    PROVE  /\ Exclusive'
           /\ \A r \in RunIds : r >= nextId' => run'[r].status = "none" /\ via'[r] = "none"
           /\ \A r \in RunIds : run'[r].status = "running" => via'[r] # "none"
BY DEF OverlapInv, Exclusive, Allocated, Sent, IsActive

\* Steps of a tick preserve the invariant.
LEMMA StepOverlapInv ==
    ASSUME TypeOK, OverlapInv, NEW p \in Servers, Start(p) \/ Step(p)
    PROVE  OverlapInv'
<1> USE DEF PCs
<1>0. /\ pc \in [Servers -> PCs] /\ cur \in [Servers -> SUBSET Due]
      /\ job \in [Servers -> SUBSET Job] /\ pend \in [Servers -> SUBSET Job]
      /\ run \in [RunIds -> RunRow] /\ via \in [RunIds -> Decisions]
      /\ nextId \in Nat /\ due \in [Servers -> SUBSET Due]
      /\ \A o \in Servers : \A j \in job[o] \cup pend[o] : j.run \in RunIds
  BY BoundsAssumption DEF TypeOK, Job
<1>1. CASE Start(p)
  <2>1. Shrinks
    BY <1>0, <1>1, SweepShrinks DEF Start
  <2>2. Allocated' /\ Locals' /\ Sent'
    <3>1. Allocated'
      BY <1>0, <1>1, <2>1, ShrinksPreserves
      DEF Start, OverlapInv, Allocated, Shrinks, Job
    <3>2. Locals'
      BY <1>0, <1>1, <2>1, ShrinksPreserves
      DEF Start, OverlapInv, Locals, Shrinks, Job
    <3>3. Sent'
      BY <1>0, <1>1, <2>1, ShrinksPreserves
      DEF Start, OverlapInv, Sent, Shrinks, Job
    <3> QED
      BY <1>0, <3>1, <3>2, <3>3
  <2> QED
    BY <1>0, <1>1, <2>1, <2>2, ShrinksPreserves DEF Start, OverlapInv
<1>2. CASE ListDue(p)
  <2>1. Allocated' /\ Locals' /\ Sent'
    <3>1. Allocated'
      BY <1>0, <1>2, SameTable
      DEF ListDue, OverlapInv, Allocated
    <3>2. Locals'
      BY <1>0, <1>2, SameTable
      DEF ListDue, OverlapInv, Locals
    <3>3. Sent'
      BY <1>0, <1>2, SameTable
      DEF ListDue, OverlapInv, Sent
    <3> QED
      BY <1>0, <3>1, <3>2, <3>3
  <2> QED
    BY <1>0, <1>2, <2>1, SameTable DEF ListDue, OverlapInv
<1>3. CASE InsertRun(p)
  <2>1. PICK d \in due[p] : InsertRun(p)!2!(d)
    BY <1>0, <1>3 DEF InsertRun
  <2>2. cur[p] = {} /\ job[p] = {}
    BY <1>0, <1>3 DEF InsertRun, OverlapInv, Locals
  <2>3. CASE InsertRun(p)!2!(d)!4!2
    <3>1. Allocated' /\ Locals' /\ Sent'
      <4>1. Allocated'
        BY <1>0, <1>3, <2>1, <2>2, <2>3, SameTable
        DEF InsertRun, OverlapInv, Allocated
      <4>2. Locals'
        BY <1>0, <1>3, <2>1, <2>2, <2>3, SameTable
        DEF InsertRun, OverlapInv, Locals
      <4>3. Sent'
        BY <1>0, <1>3, <2>1, <2>2, <2>3, SameTable
        DEF InsertRun, OverlapInv, Sent
      <4> QED
        BY <1>0, <4>1, <4>2, <4>3
    <3> QED
      BY <1>0, <1>3, <2>3, <3>1, SameTable DEF InsertRun, OverlapInv
  <2>4. CASE InsertRun(p)!2!(d)!4!3
    <3>1. /\ InsertedRow(d.sched, d.fire).sched = d.sched
          /\ InsertedRow(d.sched, d.fire).status = "pending"
      BY <1>0 DEF InsertedRow, NoRow
    <3>2. \A q \in RunIds : q # nextId => run'[q] = run[q]
      BY <1>0, <2>4
    <3>3. run'[nextId].sched = d.sched /\ run'[nextId].status = "pending"
      BY <1>0, <2>4, <3>1
    <3>4. \A o \in Servers : \A j \in job[o] \cup pend[o] :
            j.run \in RunIds /\ j.run < nextId /\ run'[j.run] = run[j.run]
      BY <1>0, <3>2 DEF OverlapInv, Allocated, Job
    <3>5. Allocated'
      BY <1>0, <1>3, <2>1, <2>4, <3>2, <3>4, BoundsAssumption
      DEF InsertRun, OverlapInv, Allocated
    <3>6. Locals'
      BY <1>0, <1>3, <2>1, <2>2, <2>4, <3>3, <3>4 DEF InsertRun, OverlapInv, Locals
    <3>7. Sent'
      BY <1>0, <1>3, <2>1, <2>4, <3>2, <3>3 DEF InsertRun, OverlapInv, Sent
    <3>8. Exclusive'
      BY <1>0, <1>3, <2>4, <3>2 DEF InsertRun, OverlapInv, Exclusive, Allocated, IsActive
    <3> QED
      BY <1>0, <3>5, <3>6, <3>7, <3>8 DEF OverlapInv
  <2> QED
    BY <1>0, <2>1, <2>3, <2>4
<1>4. CASE AdvanceNextFire(p)
  <2>1. Allocated' /\ Locals' /\ Sent'
    <3>1. Allocated'
      BY <1>0, <1>4, SameTable
      DEF AdvanceNextFire, Return, Loop, OverlapInv, Allocated
    <3>2. Locals'
      BY <1>0, <1>4, SameTable
      DEF AdvanceNextFire, Return, Loop, OverlapInv, Locals
    <3>3. Sent'
      BY <1>0, <1>4, SameTable
      DEF AdvanceNextFire, Return, Loop, OverlapInv, Sent
    <3> QED
      BY <1>0, <3>1, <3>2, <3>3
  <2> QED
    BY <1>0, <1>4, <2>1, SameTable DEF AdvanceNextFire, OverlapInv
<1>5. CASE DeleteSkipped(p)
  <2>1. PICK j \in job[p] :
          run' = [run EXCEPT ![j.run] = [@ EXCEPT !.status = "deleted", !.age = 0]]
    BY <1>0, <1>5 DEF DeleteSkipped
  <2>2. j.run \in RunIds /\ j.run < nextId
    BY <1>0 DEF Job, OverlapInv, Allocated
  <2>3. Shrinks
    BY <1>0, <2>1, <2>2 DEF Shrinks, RunRow
  <2>4. Allocated' /\ Locals' /\ Sent'
    <3>1. Allocated'
      BY <1>0, <1>5, <2>3, ShrinksPreserves
      DEF DeleteSkipped, Return, Loop, OverlapInv, Allocated, Shrinks, Job
    <3>2. Locals'
      BY <1>0, <1>5, <2>3, ShrinksPreserves
      DEF DeleteSkipped, Return, Loop, OverlapInv, Locals, Shrinks, Job
    <3>3. Sent'
      BY <1>0, <1>5, <2>3, ShrinksPreserves
      DEF DeleteSkipped, Return, Loop, OverlapInv, Sent, Shrinks, Job
    <3> QED
      BY <1>0, <3>1, <3>2, <3>3
  <2> QED
    BY <1>0, <1>5, <2>3, <2>4, ShrinksPreserves DEF DeleteSkipped, OverlapInv
<1>6. CASE TakePending(p)
  <2>1. Allocated' /\ Locals' /\ Sent'
    <3>1. Allocated'
      BY <1>0, <1>6, SameTable
      DEF TakePending, OverlapInv, Allocated
    <3>2. Locals'
      BY <1>0, <1>6, SameTable
      DEF TakePending, OverlapInv, Locals
    <3>3. Sent'
      BY <1>0, <1>6, SameTable
      DEF TakePending, OverlapInv, Sent
    <3> QED
      BY <1>0, <3>1, <3>2, <3>3
  <2> QED
    BY <1>0, <1>6, <2>1, SameTable DEF TakePending, OverlapInv
<1>7. CASE SignToken(p)
  <2>1. PICK j \in job[p] : SignToken(p)!2!(j)
    BY <1>0, <1>7 DEF SignToken
  <2>2. j.run \in RunIds
    BY <1>0 DEF Job
  <2>3. Shrinks
    BY <1>0, <2>1, <2>2 DEF Shrinks, RunRow
  <2> DEFINE k == [j EXCEPT !.token = run[j.run].hash + 1, !.left = j.timeout + TokenSlack]
  <2>4. job' = [job EXCEPT ![p] = {k}] /\ k.run = j.run
    BY <1>0, <2>1 DEF Job
  <2>5. UNCHANGED <<via, nextId, cur, pend>> /\ pc' = [pc EXCEPT ![p] = "start"]
    BY <1>7 DEF SignToken
  <2>6. Allocated' /\ Locals' /\ Sent'
    <3> HIDE DEF k
    <3>1. Allocated'
      BY <1>0, <2>3, <2>4, <2>5, ShrinksPreserves DEF OverlapInv, Allocated
    <3>2. Locals'
      BY <1>0, <2>2, <2>3, <2>4, <2>5 DEF OverlapInv, Locals, Shrinks
    <3>3. via[j.run] # "none"
      BY <1>7 DEF SignToken, OverlapInv, Sent
    <3>4. \A r \in RunIds : run'[r].status = "running" => via'[r] # "none"
      BY <2>3, <2>5, ShrinksPreserves
    <3>5. Sent'
      BY <1>0, <2>4, <2>5, <3>3, <3>4 DEF OverlapInv, Sent
    <3> QED
      BY <3>1, <3>2, <3>5
  <2> QED
    BY <2>3, <2>5, <2>6, ShrinksPreserves DEF OverlapInv
<1>8. CASE StartRunner(p)
  <2>1. Allocated' /\ Locals' /\ Sent'
    <3>1. Allocated'
      BY <1>0, <1>8, SameTable
      DEF StartRunner, OverlapInv, Allocated
    <3>2. Locals'
      BY <1>0, <1>8, SameTable
      DEF StartRunner, OverlapInv, Locals
    <3>3. Sent'
      BY <1>0, <1>8, SameTable
      DEF StartRunner, OverlapInv, Sent
    <3> QED
      BY <1>0, <3>1, <3>2, <3>3
  <2> QED
    BY <1>0, <1>8, <2>1, SameTable DEF StartRunner, OverlapInv
<1>9. CASE MarkRunning(p)
  <2>1. PICK j \in job[p] : MarkRunning(p)!2!(j)
    BY <1>0, <1>9 DEF MarkRunning
  <2>2. j.run \in RunIds /\ j.run < nextId /\ via[j.run] # "none"
    BY <1>0, <1>9 DEF Job, OverlapInv, Allocated, Sent, MarkRunning
  <2>3. \A q \in RunIds : /\ run'[q].sched = run[q].sched
                          /\ q # j.run => run'[q] = run[q]
                          /\ run'[q].status \in Active => run[q].status \in Active
    BY <1>0, <2>1, <2>2 DEF RunRow
  <2>4. Allocated'
    BY <1>0, <1>9, <2>2, <2>3 DEF MarkRunning, Return, OverlapInv, Allocated
  <2>5. Locals'
    BY <1>0, <1>9, <2>3 DEF MarkRunning, Return, Loop, OverlapInv, Locals, Job
  <2>6. Sent'
    BY <1>0, <1>9, <2>2, <2>3 DEF MarkRunning, Return, Loop, OverlapInv, Sent
  <2>7. Exclusive'
    BY <1>0, <1>9, <2>3 DEF MarkRunning, OverlapInv, Exclusive, IsActive
  <2> QED
    BY <1>0, <2>4, <2>5, <2>6, <2>7 DEF OverlapInv
<1>10. CASE Sweep(p)
  <2>1. Shrinks
    BY <1>0, <1>10, SweepShrinks DEF Sweep
  <2>2. Allocated' /\ Locals' /\ Sent'
    <3>1. Allocated'
      BY <1>0, <1>10, <2>1, ShrinksPreserves
      DEF Sweep, OverlapInv, Allocated, Shrinks, Job
    <3>2. Locals'
      BY <1>0, <1>10, <2>1, ShrinksPreserves
      DEF Sweep, OverlapInv, Locals, Shrinks, Job
    <3>3. Sent'
      BY <1>0, <1>10, <2>1, ShrinksPreserves
      DEF Sweep, OverlapInv, Sent, Shrinks, Job
    <3> QED
      BY <1>0, <3>1, <3>2, <3>3
  <2> QED
    BY <1>0, <1>10, <2>1, <2>2, ShrinksPreserves DEF Sweep, OverlapInv
<1>11. CASE ApplyPolicy(p)
  <2>1. PICK d \in cur[p], j \in job[p] : ApplyPolicy(p)!2!(d, j)
    BY <1>0, <1>11 DEF ApplyPolicy
  <2> DEFINE others == ActiveRuns(d.sched) \ {j.run}
  <2>2. j.run \in RunIds /\ j.run < nextId /\ run[j.run].sched = d.sched /\ d \in Due
    BY <1>0 DEF Job, OverlapInv, Allocated, Locals
  <2>3. Decide(d.policy, Cardinality(others)) = "dispatch" /\ d.policy # "concurrent"
        => others = {}
    <3>1. IsFiniteSet(RunIds)
      BY <1>0, BoundsAssumption, FS_Interval
    <3>2. others \subseteq RunIds
      BY <1>0 DEF ActiveRuns
    <3>3. IsFiniteSet(others)
      BY <1>0, <3>1, <3>2, FS_Subset, Zenon
    <3>4. Cardinality(others) = 0 => others = {}
      BY <1>0, <3>3, FS_EmptySet, Zenon
    <3> HIDE DEF others
    <3> QED
      BY <1>0, <3>4 DEF Decide
  <2>4. \A r \in RunIds : r # j.run => via'[r] = via[r]
    BY <1>0, <2>1
  <2>5. \/ via'[j.run] = via[j.run]
        \/ via'[j.run] = "concurrent"
        \/ others = {} /\ via'[j.run] \in Policies
    BY <1>0, <2>1, <2>2, <2>3 DEF Due
  <2>6. via'[j.run] = "none" => via[j.run] = "none"
    BY <1>0, <2>2, <2>5, PoliciesAssumption
  <2>7. Exclusive'
    <3> SUFFICES ASSUME NEW q \in RunIds, NEW r \in RunIds,
                        via'[r] \in {"skip", "queue"}, q < r, run[q].sched = run[r].sched
                 PROVE  ~IsActive(q)
      BY <1>0, <1>11 DEF ApplyPolicy, Exclusive, IsActive
    <3>1. CASE via'[r] = via[r]
      BY <1>0, <3>1 DEF OverlapInv, Exclusive
    <3>2. CASE r = j.run /\ others = {}
      BY <1>0, <2>2, <3>2 DEF ActiveRuns, IsActive
    <3> QED
      BY <1>0, <2>4, <2>5, <3>1, <3>2
  <2>8. Allocated'
    BY <1>0, <1>11, <2>1, <2>2, <2>4 DEF ApplyPolicy, Return, OverlapInv, Allocated
  <2>9. Locals'
    BY <1>0, <1>11, <2>1 DEF ApplyPolicy, Return, Loop, OverlapInv, Locals
  <2>10. pc'[p] = "sign" => via'[j.run] # "none"
    BY <1>0, <1>11, <2>1, <2>2, PoliciesAssumption
    DEF ApplyPolicy, Return, Loop, Decide, Due
  <2>11. Sent'
    <3>1. \A r \in RunIds : via'[r] = "none" => via[r] = "none"
      BY <2>4, <2>6
    <3>2. /\ UNCHANGED <<run, pend>>
          /\ \A o \in Servers : o # p => job'[o] = job[o] /\ pc'[o] = pc[o]
          /\ job'[p] \subseteq {j}
          /\ pc'[p] \in {"start", "mark"} => FALSE
      BY <1>0, <1>11, <2>1 DEF ApplyPolicy, Return, Loop, OverlapInv, Locals
    <3> QED
      BY <1>0, <2>10, <3>1, <3>2 DEF OverlapInv, Sent
  <2> QED
    BY <2>7, <2>8, <2>9, <2>11 DEF OverlapInv
<1>12. CASE ListPending(p)
  <2> DEFINE rows == {r \in RunIds : Dispatchable(r)}
  <2>1. \A r \in RunIds :
          /\ r \notin rows => via'[r] = via[r]
          /\ r \in rows => via'[r] \in {"manual", "queue"}
          /\ r \in rows /\ via'[r] = "queue" => OlderActive(r) = {}
    BY <1>12 DEF ListPending, Dispatchable
  <2>2. \A r \in rows : r < nextId
    BY <1>0 DEF Dispatchable, OverlapInv, Allocated
  <2>3. /\ \A o \in Servers : o # p => pend'[o] = pend[o]
        /\ \A j \in pend'[p] : j.run \in rows
    BY <1>0, <1>12 DEF ListPending
  <2>4. UNCHANGED <<run, nextId, cur, job>> /\ pc' = [pc EXCEPT ![p] = "drain"]
    BY <1>12 DEF ListPending
  <2> HIDE DEF rows
  <2>5. Allocated'
    BY <1>0, <2>1, <2>2, <2>3, <2>4 DEF OverlapInv, Allocated
  <2>6. Locals'
    BY <1>0, <1>12, <2>4 DEF ListPending, OverlapInv, Locals
  <2>7. \A r \in RunIds : via'[r] = "none" => via[r] = "none"
    BY <2>1
  <2>8. \A j \in pend'[p] : via'[j.run] # "none"
    BY <2>1, <2>3 DEF rows
  <2>9. Sent'
    BY <1>0, <1>12, <2>3, <2>4, <2>7, <2>8 DEF ListPending, OverlapInv, Sent
  <2>10. Exclusive'
    <3> SUFFICES ASSUME NEW q \in RunIds, NEW r \in RunIds,
                        via'[r] \in {"skip", "queue"}, q < r, run[q].sched = run[r].sched
                 PROVE  ~IsActive(q)
      BY <2>4 DEF Exclusive, IsActive
    <3>1. CASE r \notin rows
      BY <2>1, <3>1 DEF OverlapInv, Exclusive
    <3>2. CASE r \in rows
      BY <2>1, <3>2 DEF OlderActive, ActiveRuns
    <3> QED
      BY <3>1, <3>2
  <2> QED
    BY <2>5, <2>6, <2>9, <2>10 DEF OverlapInv
<1> QED
  BY <1>1, <1>2, <1>3, <1>4, <1>5, <1>6, <1>7, <1>8, <1>9, <1>10, <1>11, <1>12
  DEF Step

\* Faults, requests, runners and the clock preserve the invariant.
LEMMA OtherOverlapInv ==
    ASSUME TypeOK, OverlapInv,
           \/ \E p \in Servers : StepFails(p) \/ Crash(p)
           \/ Requests
           \/ RunnerStep
           \/ Clock
    PROVE  OverlapInv'
<1>0. /\ pc \in [Servers -> PCs] /\ cur \in [Servers -> SUBSET Due]
      /\ job \in [Servers -> SUBSET Job] /\ pend \in [Servers -> SUBSET Job]
      /\ run \in [RunIds -> RunRow] /\ via \in [RunIds -> Decisions]
      /\ nextId \in Nat /\ due \in [Servers -> SUBSET Due]
      /\ \A o \in Servers : \A j \in job[o] \cup pend[o] : j.run \in RunIds
  BY BoundsAssumption DEF TypeOK, Job
<1>1. ASSUME NEW p \in Servers, StepFails(p)
      PROVE  OverlapInv'
  <2>1. UNCHANGED <<run, via, nextId, pend>>
    BY <1>1 DEF StepFails
  <2>2. /\ \A o \in Servers : o # p => cur'[o] = cur[o] /\ job'[o] = job[o] /\ pc'[o] = pc[o]
        /\ \/ pc'[p] \in {"schedules", "drain", "idle"} /\ UNCHANGED <<cur, job>>
              /\ pc[p] \in {"schedules", "drain"}
           \/ pc'[p] \in {"schedules", "drain"} /\ cur'[p] = {} /\ job'[p] = {}
    BY <1>0, <1>1 DEF StepFails, Return, Loop, PCs
  <2>3. Allocated' /\ Locals' /\ Sent'
    BY <1>0, <2>1, <2>2, SameTable DEF OverlapInv, Allocated, Locals, Sent
  <2> QED
    BY <2>1, <2>3, SameTable DEF OverlapInv
<1>2. ASSUME NEW p \in Servers, Crash(p)
      PROVE  OverlapInv'
  <2>1. Allocated' /\ Locals' /\ Sent'
    BY <1>0, <1>2, SameTable DEF Crash, OverlapInv, Allocated, Locals, Sent
  <2> QED
    BY <1>2, <2>1, SameTable DEF Crash, OverlapInv
<1>3. ASSUME NEW s \in Schedules, RunNow(s)
      PROVE  OverlapInv'
  <2>1. InsertedRow(s, Null).status = "pending"
    BY DEF InsertedRow, NoRow
  <2>2. /\ UNCHANGED <<pc, cur, job, pend, via>> /\ nextId' = nextId + 1
        /\ nextId \in RunIds
        /\ \A q \in RunIds : q # nextId => run'[q] = run[q]
        /\ run'[nextId].status = "pending"
    BY <1>0, <1>3, <2>1 DEF RunNow, server
  <2>3. Allocated'
    BY <1>0, <2>2 DEF OverlapInv, Allocated
  <2>4. Locals'
    BY <1>0, <2>2 DEF OverlapInv, Allocated, Locals
  <2>5. Sent'
    BY <1>0, <2>2 DEF OverlapInv, Sent
  <2>6. Exclusive'
    BY <1>0, <2>2 DEF OverlapInv, Allocated, Exclusive, IsActive
  <2> QED
    BY <2>3, <2>4, <2>5, <2>6 DEF OverlapInv
<1>4. CASE UNCHANGED <<run, via, nextId, pc, cur, job, pend>>
  <2>1. Allocated' /\ Locals' /\ Sent'
    BY <1>4, SameTable DEF OverlapInv, Allocated, Locals, Sent
  <2> QED
    BY <1>4, <2>1, SameTable DEF OverlapInv
<1>5. ASSUME NEW w \in runners, NEW outcome \in Outcomes, FinalizeRun(w, outcome)
      PROVE  OverlapInv'
  <2>1. w.run \in RunIds
    BY DEF TypeOK, Runner
  <2>2. UNCHANGED <<pc, cur, job, pend, via, nextId>>
    BY <1>5 DEF FinalizeRun, server
  <2>3. Shrinks
    BY <1>0, <1>5, <2>1, OutcomesAssumption
    DEF FinalizeRun, Shrinks, RunRow, IsActive, OverlapInv, Allocated
  <2>4. Allocated' /\ Locals' /\ Sent'
    BY <1>0, <2>2, <2>3, ShrinksPreserves DEF OverlapInv, Allocated, Locals, Sent, Shrinks
  <2> QED
    BY <2>2, <2>3, <2>4, ShrinksPreserves DEF OverlapInv
<1>6. CASE Clock
  <2>1. UNCHANGED <<pc, cur, pend, via, nextId>>
    BY <1>6 DEF Clock
  <2>2. Shrinks
    BY <1>0, <1>6 DEF Clock, Shrinks, RunRow
  <2>3. \A o \in Servers : /\ \A k \in job'[o] : \E j \in job[o] : k.run = j.run
                           /\ job[o] = {} => job'[o] = {}
                           /\ (\A j, k \in job[o] : j = k) => \A j, k \in job'[o] : j = k
    BY <1>0, <1>6 DEF Clock, Count, Job
  <2>4. Allocated'
    BY <1>0, <2>1, <2>2, <2>3, ShrinksPreserves DEF OverlapInv, Allocated
  <2>5. Locals'
    BY <1>0, <2>1, <2>2, <2>3 DEF OverlapInv, Locals, Shrinks
  <2>6. Sent'
    BY <1>0, <2>1, <2>2, <2>3, ShrinksPreserves DEF OverlapInv, Sent
  <2> QED
    BY <2>1, <2>2, <2>4, <2>5, <2>6, ShrinksPreserves DEF OverlapInv
<1>7. ASSUME RunnerStep, ~\E w \in runners, outcome \in Outcomes : FinalizeRun(w, outcome)
      PROVE  UNCHANGED <<run, via, nextId, pc, cur, job, pend>>
  BY <1>7 DEF RunnerStep, Authenticate, RunnerExits, server
<1>8. ASSUME Requests, ~\E s \in Schedules : RunNow(s)
      PROVE  UNCHANGED <<run, via, nextId, pc, cur, job, pend>>
  BY <1>8 DEF Requests, Pause, Resume, UpsertSchedule, server
<1> QED
  BY <1>1, <1>2, <1>3, <1>4, <1>5, <1>6, <1>7, <1>8

\* The invariant holds in every reachable state.
LEMMA OverlapInvariant == Spec => [](TypeOK /\ OverlapInv)
<1>1. Init => TypeOK /\ OverlapInv
  BY InitTypeOK, InitOverlapInv
<1>2. TypeOK /\ OverlapInv /\ [Next]_vars => (TypeOK /\ OverlapInv)'
  <2> SUFFICES ASSUME TypeOK, OverlapInv, [Next]_vars
               PROVE  (TypeOK /\ OverlapInv)'
    OBVIOUS
  <2>1. CASE UNCHANGED vars
    <3>1. Allocated' /\ Locals' /\ Sent'
      BY <2>1 DEF vars, OverlapInv, Allocated, Locals, Sent
    <3>2. Exclusive'
      BY <2>1, SameTable DEF vars
    <3> QED
      BY <2>1, <3>1, <3>2, NextTypeOK DEF OverlapInv
  <2> QED
    BY <2>1, NextTypeOK, StepOverlapInv, OtherOverlapInv DEF Next
<1> QED
  BY <1>1, <1>2, PTL DEF Spec

\* Exclusion: for any number of serve processes, schedules, crashes, failed
\* statements and edits, a run started under the skip or queue policy never
\* runs beside an older run of its schedule that is still pending or running.
THEOREM Exclusion == Spec => []NoOverlap
<1>1. TypeOK /\ OverlapInv => NoOverlap
  <2> SUFFICES ASSUME TypeOK, OverlapInv, NEW r \in RunIds, run[r].status = "running",
                      via[r] \notin {"manual", "concurrent"}
               PROVE  OlderActive(r) = {}
    BY DEF NoOverlap
  <2>1. via[r] \in {"skip", "queue"}
    BY PoliciesAssumption DEF TypeOK, Decisions, OverlapInv, Sent
  <2> QED
    BY <2>1 DEF OverlapInv, Exclusive, OlderActive, ActiveRuns
<1> QED
  BY <1>1, OverlapInvariant, PTL

-----------------------------------------------------------------------------
(* The loop of one serve process.                                           *)

HIDE DEF RunIds

\* At most one serve process works on the tables, as deployed.
OneServer == \A p, q \in Servers : p = q

-----------------------------------------------------------------------------
(* The invariants.                                                          *)

\* What the process has listed and not yet dispatched: only the drain loop
\* holds a list, each row is on it once, and not the one being dispatched.
PendInv ==
    \A p \in Servers :
        /\ pend[p] # {} => pc[p] \in {"drain", "sign", "start", "mark"} /\ cur[p] = {}
        /\ \A j, k \in pend[p] : j.run = k.run => j = k
        /\ \A j \in job[p], k \in pend[p] : j.run # k.run

\* What the process is about to dispatch: a row that exists and was not begun;
\* until the policy has decided it is as inserted, and at the end it has been
\* launched.
ClaimInv ==
    \A p \in Servers :
        /\ \A j \in job[p] \cup pend[p] :
              /\ run[j.run].status \notin {"none", "running", "deleted"}
              /\ j.left <= j.timeout + TokenSlack
        /\ pc[p] \in {"advance", "policy", "delete"}
           => \A j \in job[p] : run[j.run].status = "pending" /\ starts[j.run] = 0
        /\ pc[p] = "mark" => \A j \in job[p] : starts[j.run] > 0

\* Rows are handed out in order, launched rows are kept, and only the sweep
\* writes an error.
RowInv ==
    \A r \in RunIds :
        /\ r < nextId => run[r].status # "none"
        /\ r >= nextId => starts[r] = 0
        /\ starts[r] > 0 => run[r].status \notin {"none", "deleted"}
        /\ IsActive(r) => run[r].err = "none"

\* The unique index on (schedule_id, fire_time).
IndexInv ==
    \A q, r \in RunIds :
        /\ run[q].status \notin {"none", "deleted"} /\ run[r].status \notin {"none", "deleted"}
        /\ run[q].sched = run[r].sched /\ run[q].fire = run[r].fire /\ run[q].fire # Null
        => q = r

\* A row is launched once more than there were faults only while, and after,
\* the launch is recorded in its status.
LaunchInv ==
    /\ \A r \in RunIds : starts[r] <= 1 + faults
    /\ \A r \in RunIds :
          run[r].status = "pending"
          /\ (\A p \in Servers : pc[p] = "mark" => \A j \in job[p] : j.run # r)
          => starts[r] <= faults
    /\ \A p \in Servers : \A j \in pend[p] : starts[j.run] <= faults
    /\ \A p \in Servers : pc[p] \in {"sign", "start"} =>
          \A j \in job[p] : starts[j.run] <= faults

\* Runners were launched, and the time left to one whose run is running has
\* been running down at least since the run was marked.
TokenInv ==
    \A w \in runners :
        /\ starts[w.run] > 0
        /\ w.left <= w.timeout + TokenSlack
        /\ run[w.run].status = "running" /\ w.left > 0
           => w.left + run[w.run].age <= w.timeout + TokenSlack

\* The inductive invariant of one serve process.
LoopInv == PendInv /\ ClaimInv /\ RowInv /\ IndexInv /\ LaunchInv /\ TokenInv

\* A row in the table has its fire among those accounted for, and so has a
\* schedule row whose insert is over.
FiredRows ==
    /\ \A r \in RunIds : r < nextId /\ run[r].fire # Null
                         => run[r].fire \in fired[run[r].sched]
    /\ \A p \in Servers : pc[p] \in {"advance", "advanceOnly"} =>
           \A d \in cur[p] : d.fire = Null \/ d.fire \in fired[d.sched]

\* A listed schedule row is due, and if its expression is still the schedule's,
\* no fire before its own is missing.
ListedRows ==
    \A p \in Servers : \A d \in due[p] \cup cur[p] :
        /\ d.fire <= now
        /\ d.cron = sched[d.sched].cron
           => \A t \in d.cron : since[d.sched] < t /\ t < d.fire => t \in fired[d.sched]

\* The inductive invariant behind NoFireLost.
FireInv == FiredRows /\ ListedRows /\ NoFireLost

-----------------------------------------------------------------------------
(* What each statement writes into the run table.                           *)

\* Identifiers of rows are numbers.
LEMMA RowNumbers ==
    ASSUME TypeOK
    PROVE  nextId \in Int /\ \A r \in RunIds : r \in Int
BY BoundsAssumption DEF TypeOK, RunIds

\* A statement that writes a status into one row, and restarts its age.
LEMMA StatusWrite ==
    ASSUME TypeOK, NEW x \in RunIds, NEW st,
           run' = [run EXCEPT ![x] = [@ EXCEPT !.status = st, !.age = 0]]
    PROVE  /\ \A r \in RunIds : r # x => run'[r] = run[r]
           /\ run'[x].status = st /\ run'[x].age = 0 /\ run'[x].sched = run[x].sched
           /\ run'[x].fire = run[x].fire /\ run'[x].err = run[x].err
<1>1. run[x] \in RunRow
  BY DEF TypeOK
<1>2. run'[x] = [run[x] EXCEPT !.status = st, !.age = 0]
  BY DEF TypeOK
<1>3. \A r \in RunIds : r # x => run'[r] = run[r]
  BY DEF TypeOK
<1>4. run'[x].status = st /\ run'[x].age = 0
  BY <1>1, <1>2 DEF RunRow
<1>5. run'[x].sched = run[x].sched /\ run'[x].fire = run[x].fire /\ run'[x].err = run[x].err
  BY <1>1, <1>2 DEF RunRow
<1> QED
  BY <1>3, <1>4, <1>5

\* A statement that stores a token's hash.
LEMMA HashWrite ==
    ASSUME TypeOK, NEW x \in RunIds, run' = [run EXCEPT ![x].hash = @ + 1]
    PROVE  \A r \in RunIds :
             /\ run'[r].status = run[r].status /\ run'[r].age = run[r].age
             /\ run'[r].sched = run[r].sched /\ run'[r].fire = run[r].fire
             /\ run'[r].err = run[r].err
<1>1. \A r \in RunIds : run[r] \in RunRow
  BY DEF TypeOK
<1>2. run'[x] = [run[x] EXCEPT !.hash = run[x].hash + 1]
  BY DEF TypeOK
<1>3. \A r \in RunIds : r # x => run'[r] = run[r]
  BY DEF TypeOK
<1> QED
  BY <1>1, <1>2, <1>3 DEF RunRow

\* The sweep fails the overdue rows and leaves the others alone.
LEMMA SweepWrite ==
    ASSUME TypeOK, SweepRows, NEW r \in RunIds
    PROVE  /\ run'[r].sched = run[r].sched /\ run'[r].fire = run[r].fire
           /\ \/ run'[r] = run[r] /\ ~Overdue(r)
              \/ Overdue(r) /\ run'[r].status = "failed" /\ run'[r].err = "shutdown"
<1>1. run[r] \in RunRow
  BY DEF TypeOK
<1>2. CASE Overdue(r)
  <2>1. run'[r] = [run[r] EXCEPT !.status = "failed", !.err = "shutdown", !.age = 0]
    BY <1>2 DEF SweepRows
  <2> QED
    BY <1>1, <1>2, <2>1 DEF RunRow
<1>3. CASE ~Overdue(r)
  BY <1>3 DEF SweepRows
<1> QED
  BY <1>2, <1>3

\* A row is inserted: it is pending and carries no error.
LEMMA InsertWrite ==
    ASSUME TypeOK, nextId \in RunIds, NEW s, NEW fire,
           run' = [run EXCEPT ![nextId] = InsertedRow(s, fire)]
    PROVE  /\ \A r \in RunIds : r # nextId => run'[r] = run[r]
           /\ run'[nextId].status = "pending" /\ run'[nextId].err = "none"
           /\ run'[nextId].sched = s /\ run'[nextId].fire = fire
<1>1. run'[nextId] = InsertedRow(s, fire)
  BY DEF TypeOK
<1>2. \A r \in RunIds : r # nextId => run'[r] = run[r]
  BY DEF TypeOK
<1>3. /\ InsertedRow(s, fire).status = "pending" /\ InsertedRow(s, fire).err = "none"
      /\ InsertedRow(s, fire).sched = s /\ InsertedRow(s, fire).fire = fire
  BY DEF InsertedRow, NoRow
<1> QED
  BY <1>1, <1>2, <1>3

\* Time passes: active rows grow older by at most one.
LEMMA ClockWrite ==
    ASSUME TypeOK, Clock, NEW r \in RunIds
    PROVE  /\ run'[r].status = run[r].status /\ run'[r].err = run[r].err
           /\ run'[r].sched = run[r].sched /\ run'[r].fire = run[r].fire
           /\ run'[r].age <= run[r].age + 1
<1>1. run[r] \in RunRow /\ run[r].age \in Nat
  BY DEF TypeOK, RunRow
<1>2. CASE IsActive(r) /\ run[r].age < AgeCap
  <2>1. run'[r] = [run[r] EXCEPT !.age = run[r].age + 1]
    BY <1>2 DEF Clock
  <2> QED
    BY <1>1, <2>1 DEF RunRow
<1>3. CASE ~(IsActive(r) /\ run[r].age < AgeCap)
  <2>1. run'[r] = run[r]
    BY <1>3 DEF Clock
  <2> QED
    BY <1>1, <2>1
<1> QED
  BY <1>2, <1>3

-----------------------------------------------------------------------------
(* No fire is lost.                                                         *)

\* Instants and the other values of next_fire_at are integers.
LEMMA FiresAreIntegers == \A f \in Fires : f \in Int
BY BoundsAssumption DEF Fires, Instants, Null, ZeroTime, Never

\* The initial state satisfies the invariant: next_fire_at is the first instant.
LEMMA InitFireInv == Init => FireInv
<1> SUFFICES ASSUME Init PROVE FireInv
  OBVIOUS
<1>1. FiredRows /\ ListedRows
  BY DEF Init, FiredRows, ListedRows, NoRow
<1>2. ASSUME NEW s \in Schedules, NEW t \in sched[s].cron, since[s] < t,
             t < sched[s].nextFire
      PROVE  FALSE
  <2>1. sched[s] \in ScheduleRow /\ sched[s].nextFire = NextFire(sched[s].cron, 0)
        /\ since[s] = 0
    BY DEF Init
  <2>2. sched[s].cron \in Crons /\ t \in Instants
    BY <2>1, CronsAssumption DEF ScheduleRow
  <2>3. t <= 0
    BY <1>2, <2>1, <2>2, NextFireType
  <2> QED
    BY <2>2, <2>3, BoundsAssumption DEF Instants
<1> QED
  BY <1>1, <1>2 DEF FireInv, NoFireLost

\* A step that leaves expressions, next fires and their history alone, inserts
\* no row and takes no schedule row up.
FireFrame ==
    /\ now <= now'
    /\ UNCHANGED <<nextId, since, fired>>
    /\ \A s \in Schedules : /\ sched'[s].cron = sched[s].cron
                            /\ sched'[s].nextFire = sched[s].nextFire
    /\ \A r \in RunIds : /\ run'[r].fire = run[r].fire
                         /\ run'[r].sched = run[r].sched
    /\ \A p \in Servers : /\ due'[p] \subseteq due[p] /\ cur'[p] \subseteq cur[p]
                          /\ pc'[p] \in {"advance", "advanceOnly"}
                             => pc[p] \in {"advance", "advanceOnly"}

\* Such a step preserves the invariant.
LEMMA FrameFireInv ==
    ASSUME TypeOK, TypeOK', FireInv, FireFrame
    PROVE  FireInv'
<1>1. FiredRows'
  BY DEF FireInv, FiredRows, FireFrame
<1>2. ListedRows'
  <2> SUFFICES ASSUME NEW p \in Servers, NEW d \in due'[p] \cup cur'[p]
               PROVE  /\ d.fire <= now'
                      /\ d.cron = sched'[d.sched].cron
                         => \A t \in d.cron : since'[d.sched] < t /\ t < d.fire
                                              => t \in fired'[d.sched]
    BY DEF ListedRows
  <2>1. d \in due[p] \cup cur[p] /\ d \in Due
    BY DEF FireFrame, TypeOK
  <2>2. d.fire \in Int /\ now \in Int /\ now' \in Int /\ d.sched \in Schedules
    BY <2>1, FiresAreIntegers, BoundsAssumption DEF Due, TypeOK
  <2> QED
    BY <2>1, <2>2 DEF FireInv, ListedRows, FireFrame
<1>3. NoFireLost'
  BY DEF FireInv, NoFireLost, FireFrame
<1> QED
  BY <1>1, <1>2, <1>3 DEF FireInv

\* The next due row is taken up: its fire is in the table when its insert is over.
LEMMA InsertFireInv ==
    ASSUME TypeOK, OverlapInv, FireInv, NEW p \in Servers, InsertRun(p)
    PROVE  FireInv'
<1>1. PICK d \in due[p] : InsertRun(p)!2!(d)
  BY DEF InsertRun
<1>2. /\ UNCHANGED <<now, sched, since>>
      /\ \A o \in Servers : due'[o] \cup cur'[o] \subseteq due[o] \cup cur[o]
      /\ \A o \in Servers : o # p => pc'[o] = pc[o] /\ cur'[o] = cur[o]
      /\ cur'[p] = {d}
  BY <1>1 DEF TypeOK, InsertRun
<1>3. d \in Due /\ d.sched \in Schedules
  BY DEF TypeOK, Due
<1>4. CASE InsertRun(p)!2!(d)!4!1
  <2>1. UNCHANGED <<run, nextId, fired>>
    BY <1>1, <1>4
  <2>2. d.fire = Null \/ d.fire \in fired[d.sched]
    <3>1. PICK r \in RunIds : /\ run[r].sched = d.sched /\ run[r].fire = d.fire
                             /\ run[r].status \notin {"none", "deleted"}
      BY <1>4
    <3>2. r < nextId
      BY <3>1, RowNumbers DEF OverlapInv, Allocated
    <3> QED
      BY <3>1, <3>2 DEF FireInv, FiredRows
  <2>3. FiredRows'
    BY <1>2, <2>1, <2>2 DEF FireInv, FiredRows
  <2>4. ListedRows' /\ NoFireLost'
    BY <1>2, <2>1 DEF FireInv, ListedRows, NoFireLost
  <2> QED
    BY <2>3, <2>4 DEF FireInv
<1>5. CASE ~InsertRun(p)!2!(d)!4!1
  <2>1. /\ \A s \in Schedules : fired[s] \subseteq fired'[s]
        /\ d.fire \in fired'[d.sched]
    BY <1>1, <1>3, <1>5 DEF TypeOK
  <2>2. /\ \A r \in RunIds : r # nextId => run'[r] = run[r]
        /\ run'[nextId].fire = d.fire /\ run'[nextId].sched = d.sched
    BY <1>1, <1>5, InsertWrite
  <2>3. \A r \in RunIds : run[r].sched \in Schedules
    BY DEF TypeOK, RunRow
  <2>4. FiredRows'
    <3>1. \A r \in RunIds : r < nextId' /\ run'[r].fire # Null
                            => run'[r].fire \in fired'[run'[r].sched]
      <4>1. nextId' = nextId + 1
        BY <1>1, <1>5
      <4> QED
        BY <1>3, <2>1, <2>2, <2>3, <4>1, RowNumbers DEF FireInv, FiredRows
    <3>2. \A o \in Servers : pc'[o] \in {"advance", "advanceOnly"} =>
            \A e \in cur'[o] : e.fire = Null \/ e.fire \in fired'[e.sched]
      <4>1. \A o \in Servers : \A e \in cur[o] : e.sched \in Schedules
        BY DEF TypeOK, Due
      <4> QED
        BY <1>2, <1>3, <2>1, <4>1 DEF FireInv, FiredRows
    <3> QED
      BY <3>1, <3>2 DEF FiredRows
  <2>5. ListedRows'
    <3>1. \A o \in Servers : \A e \in due[o] \cup cur[o] : e.sched \in Schedules
      BY DEF TypeOK, Due
    <3> QED
      BY <1>2, <2>1, <3>1 DEF FireInv, ListedRows
  <2>6. NoFireLost'
    BY <1>2, <2>1 DEF FireInv, NoFireLost
  <2> QED
    BY <2>4, <2>5, <2>6 DEF FireInv
<1> QED
  BY <1>4, <1>5

\* The advance steps over no instant: what lies before the new value is the
\* fire just inserted, or was accounted for when the row was listed.
LEMMA AdvanceFireInv ==
    ASSUME TypeOK, TypeOK', FireInv, NEW p \in Servers, AdvanceNextFire(p)
    PROVE  FireInv'
<1>1. PICK d \in cur[p] : WriteNextFire(d, NextFire(d.cron, d.fire))
  BY DEF AdvanceNextFire
<1>2. /\ UNCHANGED <<now, run, nextId, fired, due>>
      /\ \A o \in Servers : cur'[o] \subseteq cur[o]
      /\ \A o \in Servers : pc'[o] \in {"advance", "advanceOnly"}
                            => pc[o] \in {"advance", "advanceOnly"}
  BY DEF AdvanceNextFire, Return, Loop, TypeOK
<1>3. /\ d \in Due /\ d.sched \in Schedules /\ d.cron \in Crons /\ d.fire \in Int
      /\ \A t \in d.cron : t \in Instants
  BY FiresAreIntegers, CronsAssumption DEF TypeOK, Due
<1>4. PICK f : f = NextFire(d.cron, d.fire)
  OBVIOUS
<1>5. /\ f \in 0..Never
      /\ \A t \in d.cron : t < f => t <= d.fire
  BY <1>3, <1>4, NextFireType
<1>6. /\ \A s \in Schedules : s # d.sched => sched'[s] = sched[s] /\ since'[s] = since[s]
      /\ sched'[d.sched].cron = sched[d.sched].cron /\ sched'[d.sched].nextFire = f
      /\ \/ d.cron = sched[d.sched].cron /\ since'[d.sched] = since[d.sched]
         \/ d.cron # sched[d.sched].cron /\ since'[d.sched] >= f
  BY <1>1, <1>3, <1>4, <1>5, BoundsAssumption DEF WriteNextFire, TypeOK, ScheduleRow, Never
<1>7. \A s \in Schedules : since[s] <= since'[s] /\ since[s] \in Int /\ since'[s] \in Int
  BY <1>1, <1>3, <1>4, <1>5, BoundsAssumption DEF WriteNextFire, TypeOK, Never
<1>8. \A s \in Schedules : \A t \in sched[s].cron : t \in Int
  BY CronsAssumption, BoundsAssumption DEF TypeOK, ScheduleRow, Instants
<1>9. FiredRows'
  BY <1>2 DEF FireInv, FiredRows
<1>10. ListedRows'
  <2> SUFFICES ASSUME NEW o \in Servers, NEW e \in due'[o] \cup cur'[o]
               PROVE  /\ e.fire <= now'
                      /\ e.cron = sched'[e.sched].cron
                         => \A t \in e.cron : since'[e.sched] < t /\ t < e.fire
                                              => t \in fired'[e.sched]
    BY DEF ListedRows
  <2>1. e \in due[o] \cup cur[o] /\ e \in Due
    BY <1>2 DEF TypeOK
  <2>2. e.sched \in Schedules /\ sched'[e.sched].cron = sched[e.sched].cron
    BY <1>6, <2>1 DEF Due
  <2>3. /\ e.fire <= now
        /\ e.cron = sched[e.sched].cron
           => \A t \in e.cron : since[e.sched] < t /\ t < e.fire => t \in fired[e.sched]
    BY <2>1 DEF FireInv, ListedRows
  <2> QED
    BY <1>2, <1>7, <1>8, <2>2, <2>3
<1>11. NoFireLost'
  <2> SUFFICES ASSUME NEW s \in Schedules, NEW t \in sched'[s].cron, since'[s] < t,
                      t < sched'[s].nextFire
               PROVE  t \in fired'[s]
    BY DEF NoFireLost
  <2>1. CASE s # d.sched
    BY <1>2, <1>6, <2>1 DEF FireInv, NoFireLost
  <2>2. CASE s = d.sched /\ d.cron # sched[d.sched].cron
    BY <1>5, <1>6, <1>7, <1>8, <2>2, BoundsAssumption DEF Never
  <2>3. CASE s = d.sched /\ d.cron = sched[d.sched].cron
    <3>1. t \in d.cron /\ t \in Instants /\ t <= d.fire /\ since[s] < t
      BY <1>3, <1>5, <1>6, <2>3
    <3>2. CASE t = d.fire
      <4>1. t # Null
        BY <3>1, BoundsAssumption DEF Instants, Null
      <4>2. pc[p] \in {"advance", "advanceOnly"}
        BY DEF AdvanceNextFire
      <4> QED
        BY <1>1, <1>2, <2>3, <3>2, <4>1, <4>2 DEF FireInv, FiredRows
    <3>3. CASE t < d.fire
      BY <1>1, <1>2, <2>3, <3>1, <3>3 DEF FireInv, ListedRows
    <3> QED
      BY <1>3, <3>1, <3>2, <3>3, BoundsAssumption DEF Instants
  <2> QED
    BY <2>1, <2>2, <2>3
<1> QED
  BY <1>9, <1>10, <1>11 DEF FireInv

\* A sync that computes next_fire_at anew starts the account at the present,
\* which is not before any listed fire.
LEMMA UpsertFireInv ==
    ASSUME TypeOK, TypeOK', FireInv, NEW s \in Schedules, NEW c \in Crons,
           NEW pol \in Policies, NEW m \in Timeouts, UpsertSchedule(s, c, pol, m)
    PROVE  FireInv'
<1>1. /\ UNCHANGED <<now, run, nextId, pc, due, cur, fired>>
      /\ \A x \in Schedules : x # s => sched'[x] = sched[x] /\ since'[x] = since[x]
      /\ sched'[s].cron = c
      /\ \/ c = sched[s].cron /\ since'[s] = since[s]
            /\ sched'[s].nextFire = sched[s].nextFire
         \/ since'[s] = now /\ sched'[s].nextFire = NextFire(c, now)
  BY DEF UpsertSchedule, server, TypeOK
<1>2. now \in Int /\ \A t \in c : t \in Int
  BY CronsAssumption, BoundsAssumption DEF TypeOK, Instants
<1>3. FiredRows'
  BY <1>1 DEF FireInv, FiredRows
<1>4. ListedRows'
  <2> SUFFICES ASSUME NEW o \in Servers, NEW e \in due[o] \cup cur[o]
               PROVE  /\ e.fire <= now
                      /\ e.cron = sched'[e.sched].cron
                         => \A t \in e.cron : since'[e.sched] < t /\ t < e.fire
                                              => t \in fired[e.sched]
    BY <1>1 DEF ListedRows
  <2>1. e.fire \in Int /\ e.sched \in Schedules
    BY FiresAreIntegers DEF TypeOK, Due
  <2>2. /\ e.fire <= now
        /\ e.cron = sched[e.sched].cron
           => \A t \in e.cron : since[e.sched] < t /\ t < e.fire => t \in fired[e.sched]
    BY DEF FireInv, ListedRows
  <2> QED
    BY <1>1, <1>2, <2>1, <2>2
<1>5. NoFireLost'
  <2>1. \A t \in c : t < NextFire(c, now) => t <= now
    BY <1>2, NextFireType
  <2> QED
    BY <1>1, <1>2, <2>1 DEF FireInv, NoFireLost
<1> QED
  BY <1>3, <1>4, <1>5 DEF FireInv

\* Listing due rows copies what the table says of them.
LEMMA ListFireInv ==
    ASSUME TypeOK, FireInv, NEW p \in Servers, ListDue(p)
    PROVE  FireInv'
<1>1. /\ UNCHANGED <<now, sched, run, nextId, cur, fired, since>>
      /\ \A o \in Servers : o # p => due'[o] = due[o] /\ pc'[o] = pc[o]
      /\ due'[p] = DueRows /\ pc'[p] = "schedules"
  BY DEF ListDue, TypeOK
<1>2. \A d \in DueRows : /\ d.fire <= now /\ d.sched \in Schedules
                         /\ d.fire = sched[d.sched].nextFire
                         /\ d.cron = sched[d.sched].cron
  BY DEF DueRows
<1>3. FiredRows' /\ NoFireLost'
  BY <1>1 DEF FireInv, FiredRows, NoFireLost
<1>4. ListedRows'
  BY <1>1, <1>2 DEF FireInv, ListedRows, NoFireLost
<1> QED
  BY <1>3, <1>4 DEF FireInv

\* A row is inserted by run-now: it has no fire.
LEMMA RunNowFireInv ==
    ASSUME TypeOK, FireInv, NEW s \in Schedules, RunNow(s)
    PROVE  FireInv'
<1>1. /\ UNCHANGED <<now, sched, pc, due, cur, fired, since>>
      /\ \A r \in RunIds : r # nextId => run'[r] = run[r]
      /\ run'[nextId].fire = Null /\ nextId' = nextId + 1
  BY InsertWrite DEF RunNow, server
<1>2. FiredRows'
  BY <1>1, RowNumbers DEF FireInv, FiredRows
<1>3. ListedRows' /\ NoFireLost'
  BY <1>1 DEF FireInv, ListedRows, NoFireLost
<1> QED
  BY <1>2, <1>3 DEF FireInv

\* Every other step of a tick, fault, request, runner or of the clock is a frame.
LEMMA OtherFireInv ==
    ASSUME TypeOK, TypeOK', OverlapInv, FireInv, Next,
           ~\E p \in Servers : ListDue(p) \/ InsertRun(p) \/ AdvanceNextFire(p),
           ~Requests
    PROVE  FireInv'
<1>0. /\ run \in [RunIds -> RunRow] /\ now \in Int /\ now <= now
      /\ pc \in [Servers -> PCs] /\ cur \in [Servers -> SUBSET Due]
      /\ due \in [Servers -> SUBSET Due]
  BY BoundsAssumption DEF TypeOK
<1>2. ASSUME NEW p \in Servers, Start(p) \/ Sweep(p) PROVE FireFrame
  BY <1>0, <1>2, SweepWrite DEF Start, Sweep, FireFrame
<1>3. ASSUME NEW p \in Servers, ApplyPolicy(p) \/ ListPending(p) \/ TakePending(p)
                                \/ StartRunner(p)
      PROVE  FireFrame
  BY <1>0, <1>3 DEF ApplyPolicy, Return, Loop, ListPending, TakePending, StartRunner, FireFrame
<1>4. ASSUME NEW p \in Servers, DeleteSkipped(p) \/ SignToken(p) \/ MarkRunning(p)
      PROVE  FireFrame
  <2>1. \A j \in job[p] : j.run \in RunIds
    BY DEF TypeOK, Job
  <2>2. \A r \in RunIds : run'[r].fire = run[r].fire /\ run'[r].sched = run[r].sched
    <3>1. CASE DeleteSkipped(p)
      BY <2>1, <3>1, StatusWrite DEF DeleteSkipped
    <3>2. CASE SignToken(p)
      BY <2>1, <3>2, HashWrite DEF SignToken
    <3>3. CASE MarkRunning(p)
      BY <2>1, <3>3, StatusWrite DEF MarkRunning
    <3> QED
      BY <1>4, <3>1, <3>2, <3>3
  <2> QED
    BY <1>0, <1>4, <2>2 DEF DeleteSkipped, SignToken, MarkRunning, Return, Loop, FireFrame
<1>5. ASSUME NEW p \in Servers, StepFails(p) PROVE FireFrame
  BY <1>0, <1>5 DEF StepFails, Return, Loop, FireFrame
<1>6. ASSUME NEW p \in Servers, Crash(p) PROVE FireFrame
  BY <1>0, <1>6 DEF Crash, FireFrame
<1>7. ASSUME RunnerStep PROVE FireFrame
  <2>1. \A w \in runners : w.run \in RunIds
    BY DEF TypeOK, Runner
  <2>2. \A r \in RunIds : run'[r].fire = run[r].fire /\ run'[r].sched = run[r].sched
    BY <1>7, <2>1, StatusWrite DEF RunnerStep, Authenticate, RunnerExits, FinalizeRun
  <2> QED
    BY <1>0, <1>7, <2>2 DEF RunnerStep, Authenticate, RunnerExits, FinalizeRun, server, FireFrame
<1>8. ASSUME Clock PROVE FireFrame
  BY <1>0, <1>8, ClockWrite DEF Clock, FireFrame
<1> QED
  BY <1>2, <1>3, <1>4, <1>5, <1>6, <1>7, <1>8, FrameFireInv DEF Next, Step

\* Pausing or resuming a schedule touches neither its expression nor its fire.
LEMMA EnabledFireInv ==
    ASSUME TypeOK, TypeOK', FireInv, NEW s \in Schedules, Pause(s) \/ Resume(s)
    PROVE  FireInv'
<1>1. \A x \in Schedules : /\ sched'[x].cron = sched[x].cron
                           /\ sched'[x].nextFire = sched[x].nextFire
  BY DEF TypeOK, ScheduleRow, Pause, Resume
<1>2. FireFrame
  BY <1>1, BoundsAssumption DEF Pause, Resume, server, TypeOK, FireFrame
<1> QED
  BY <1>2, FrameFireInv

\* No fire is lost: for any number of serve processes, schedules, crashes,
\* failed statements and edits, every instant of a schedule's expression before
\* next_fire_at has had its row inserted, back to the moment next_fire_at was
\* computed from the clock (or overwritten from a replaced expression).
THEOREM NoFireIsLost == Spec => []NoFireLost
<1>1. TypeOK /\ OverlapInv /\ TypeOK' /\ FireInv /\ [Next]_vars => FireInv'
  <2> SUFFICES ASSUME TypeOK, OverlapInv, TypeOK', FireInv, [Next]_vars PROVE FireInv'
    OBVIOUS
  <2>1. CASE UNCHANGED vars
    <3>1. FireFrame
      BY <2>1, BoundsAssumption DEF vars, FireFrame, TypeOK
    <3> QED
      BY <3>1, FrameFireInv
  <2>2. CASE Requests
    BY <2>2, RunNowFireInv, EnabledFireInv, UpsertFireInv DEF Requests
  <2>3. ASSUME NEW p \in Servers, ListDue(p) \/ InsertRun(p) \/ AdvanceNextFire(p)
        PROVE  FireInv'
    BY <2>3, ListFireInv, InsertFireInv, AdvanceFireInv
  <2> QED
    BY <2>1, <2>2, <2>3, OtherFireInv
<1>2. FireInv => NoFireLost
  BY DEF FireInv
<1> QED
  BY <1>1, <1>2, InitFireInv, OverlapInvariant, PTL DEF Spec

-----------------------------------------------------------------------------
(* One serve process: what a step preserves.                                *)

\* The initial state satisfies the invariant.
LEMMA InitLoopInv == Init => LoopInv
<1> SUFFICES ASSUME Init PROVE LoopInv
  OBVIOUS
<1>1. PendInv /\ ClaimInv /\ IndexInv /\ LaunchInv /\ TokenInv
  BY DEF Init, PendInv, ClaimInv, IndexInv, LaunchInv, TokenInv, NoRow
<1>2. RowInv
  BY BoundsAssumption DEF Init, RowInv, NoRow, IsActive, Active, RunIds
<1> QED
  BY <1>1, <1>2 DEF LoopInv

\* A step after which every row is as it was, or over; runners are as they
\* were, or gone.
RowsStay ==
    /\ UNCHANGED <<starts, nextId>>
    /\ faults' = faults \/ faults' = faults + 1
    /\ \A r \in RunIds :
          /\ run'[r].sched = run[r].sched /\ run'[r].fire = run[r].fire
          /\ \/ /\ run'[r].status = run[r].status
                /\ run'[r].err = run[r].err /\ run'[r].age = run[r].age
             \/ IsActive(r) /\ run'[r].status \in Terminal
    /\ \A w \in runners' : \E v \in runners :
          w.run = v.run /\ w.timeout = v.timeout /\ w.left = v.left

\* What such a step leaves true of the rows and of the runners.
LEMMA RowsStayInv ==
    ASSUME TypeOK, TypeOK', LoopInv, RowsStay
    PROVE  /\ RowInv' /\ IndexInv' /\ TokenInv'
           /\ \A r \in RunIds : starts'[r] <= 1 + faults'
           /\ \A r \in RunIds : run'[r].status = "pending" => run[r].status = "pending"
<1> USE DEF LoopInv, RowsStay, Active, Terminal, IsActive
<1>1. RowInv'
  BY DEF RowInv
<1>2. IndexInv'
  BY DEF IndexInv
<1>3. TokenInv'
  <2> SUFFICES ASSUME NEW w \in runners'
               PROVE  TokenInv!(w)'
    BY DEF TokenInv
  <2>1. PICK v \in runners : w.run = v.run /\ w.timeout = v.timeout /\ w.left = v.left
    OBVIOUS
  <2>2. v.run \in RunIds
    BY DEF TypeOK, Runner
  <2> QED
    BY <2>1, <2>2 DEF TokenInv
<1>4. \A r \in RunIds : starts'[r] <= 1 + faults'
  BY BoundsAssumption DEF LaunchInv, TypeOK
<1>5. \A r \in RunIds : run'[r].status = "pending" => run[r].status = "pending"
  OBVIOUS
<1> QED
  BY <1>1, <1>2, <1>3, <1>4, <1>5

\* A process that holds nothing has nothing to answer for but the rows that
\* are pending.
LEMMA EmptyHands ==
    ASSUME NEW p \in Servers, \A o \in Servers : o = p, job'[p] = {}, pend'[p] = {}
    PROVE  /\ PendInv' /\ ClaimInv'
           /\ (\A r \in RunIds : /\ starts'[r] <= 1 + faults'
                                 /\ run'[r].status = "pending" => starts'[r] <= faults')
              => LaunchInv'
BY DEF PendInv, ClaimInv, LaunchInv

\* A process in the drain loop between two dispatches.
LEMMA BetweenDispatches ==
    ASSUME LoopInv, NEW p \in Servers, \A o \in Servers : o = p,
           job'[p] = {}, UNCHANGED pend, cur'[p] = {},
           pend[p] # {} => pc'[p] = "drain",
           \A j \in pend[p] : /\ run'[j.run].status \notin {"none", "running", "deleted"}
                              /\ starts'[j.run] <= faults'
    PROVE  /\ PendInv' /\ ClaimInv'
           /\ (\A r \in RunIds : /\ starts'[r] <= 1 + faults'
                                 /\ run'[r].status = "pending" => starts'[r] <= faults')
              => LaunchInv'
BY DEF LoopInv, PendInv, ClaimInv, LaunchInv

\* The statements of a tick that leave the rows alone, or end them.
LEMMA StayLoopInv ==
    ASSUME TypeOK, TypeOK', OverlapInv, LoopInv, NEW p \in Servers, \A o \in Servers : o = p,
           \/ Start(p) \/ ListDue(p) \/ AdvanceNextFire(p) \/ ApplyPolicy(p)
           \/ ListPending(p) \/ TakePending(p) \/ SignToken(p) \/ Sweep(p)
    PROVE  LoopInv'
<1>0. /\ pc \in [Servers -> PCs] /\ cur \in [Servers -> SUBSET Due]
      /\ job \in [Servers -> SUBSET Job] /\ pend \in [Servers -> SUBSET Job]
      /\ due \in [Servers -> SUBSET Due] /\ run \in [RunIds -> RunRow]
      /\ faults \in Int /\ starts \in [RunIds -> Nat]
      /\ \A j \in job[p] \cup pend[p] : j.run \in RunIds
  BY BoundsAssumption DEF TypeOK, Job
<1>1. pc[p] # "mark" => \A r \in RunIds : run[r].status = "pending" => starts[r] <= faults
  BY DEF LoopInv, LaunchInv
<1>2. CASE Start(p) \/ Sweep(p)
  <2>1. job'[p] = {} /\ pend'[p] = {} /\ UNCHANGED <<starts, faults>>
    BY <1>0, <1>2 DEF Start, Sweep, OverlapInv, Locals, LoopInv, PendInv
  <2>2. RowsStay
    BY <1>2, SweepWrite DEF Start, Sweep, RowsStay, Overdue, Terminal
  <2> QED
    BY <1>1, <1>2, <2>1, <2>2, RowsStayInv, EmptyHands DEF LoopInv, Start, Sweep
<1>3. CASE ListDue(p)
  <2>1. job'[p] = {} /\ pend'[p] = {} /\ UNCHANGED <<starts, faults>>
    BY <1>0, <1>3 DEF ListDue, OverlapInv, Locals, LoopInv, PendInv
  <2>2. RowsStay
    BY <1>3 DEF ListDue, RowsStay
  <2> QED
    BY <1>1, <1>3, <2>1, <2>2, RowsStayInv, EmptyHands DEF LoopInv, ListDue
<1>4. CASE AdvanceNextFire(p)
  <2>1. RowsStay /\ UNCHANGED <<run, starts, faults, pend>> /\ pend[p] = {}
    BY <1>0, <1>4 DEF AdvanceNextFire, RowsStay, LoopInv, PendInv
  <2>2. CASE job'[p] = {}
    BY <1>1, <1>4, <2>1, <2>2, RowsStayInv, EmptyHands DEF LoopInv, AdvanceNextFire
  <2>3. CASE job'[p] = job[p] /\ pc[p] = "advance" /\ pc'[p] = "policy"
    <3>1. PendInv'
      BY <1>0, <2>1 DEF PendInv
    <3>2. ClaimInv'
      BY <1>0, <2>1, <2>3 DEF LoopInv, ClaimInv
    <3>3. LaunchInv'
      BY <1>0, <1>1, <2>1, <2>3 DEF LoopInv, LaunchInv
    <3> QED
      BY <2>1, <3>1, <3>2, <3>3, RowsStayInv DEF LoopInv
  <2> QED
    BY <1>0, <1>4, <2>2, <2>3 DEF AdvanceNextFire, Return
<1>5. CASE ApplyPolicy(p)
  <2>1. RowsStay /\ UNCHANGED <<run, starts, faults, pend>> /\ pend[p] = {}
    BY <1>0, <1>5 DEF ApplyPolicy, RowsStay, LoopInv, PendInv
  <2>2. CASE job'[p] = {}
    BY <1>1, <1>5, <2>1, <2>2, RowsStayInv, EmptyHands DEF LoopInv, ApplyPolicy
  <2>3. CASE job'[p] = job[p] /\ pc[p] = "policy" /\ pc'[p] \in {"delete", "sign"}
    <3>1. PendInv'
      BY <1>0, <2>1 DEF PendInv
    <3>2. ClaimInv'
      BY <1>0, <2>1, <2>3 DEF LoopInv, ClaimInv
    <3>3. \A j \in job[p] : starts[j.run] <= faults
      BY <1>0, <1>1, <2>3 DEF LoopInv, ClaimInv
    <3>4. LaunchInv'
      BY <1>0, <1>1, <2>1, <2>3, <3>3 DEF LoopInv, LaunchInv
    <3> QED
      BY <2>1, <3>1, <3>2, <3>4, RowsStayInv DEF LoopInv
  <2>4. job' = [job EXCEPT ![p] = {}] \/ (UNCHANGED job /\ pc'[p] \in {"delete", "sign"})
    BY <1>0, <1>5 DEF ApplyPolicy, Return
  <2> QED
    BY <1>0, <1>5, <2>2, <2>3, <2>4 DEF ApplyPolicy
<1>6. CASE ListPending(p)
  <2>1. RowsStay /\ UNCHANGED <<run, starts, faults, job, cur>> /\ pc'[p] = "drain"
        /\ job[p] = {} /\ cur[p] = {}
    BY <1>0, <1>6 DEF ListPending, RowsStay, OverlapInv, Locals
  <2>2. pend'[p] = {[run |-> r, timeout |-> sched[run[r].sched].timeout,
                     token |-> 0, left |-> 0] : r \in {x \in RunIds : Dispatchable(x)}}
    BY <1>0, <1>6 DEF ListPending
  <2>3. \A j \in pend'[p] : /\ j.run \in RunIds /\ run[j.run].status = "pending"
                            /\ j.left <= j.timeout + TokenSlack
    <3>1. \A j \in pend'[p] : /\ j.run \in RunIds /\ run[j.run].status = "pending"
                              /\ j.left = 0 /\ j.timeout = sched[run[j.run].sched].timeout
      BY <2>2 DEF Dispatchable
    <3>2. pend'[p] \subseteq Job
      BY DEF TypeOK
    <3>3. \A j \in pend'[p] : j.timeout \in Nat
      BY <3>2, TimesAssumption DEF Job
    <3> QED
      BY <3>1, <3>3, TimesAssumption
  <2>4. \A j, k \in pend'[p] : j.run = k.run => j = k
    BY <2>2
  <2>5. PendInv'
    BY <2>1, <2>4 DEF PendInv
  <2>6. ClaimInv'
    BY <2>1, <2>3 DEF ClaimInv
  <2>7. LaunchInv'
    BY <1>1, <1>6, <2>1, <2>3 DEF LoopInv, LaunchInv, ListPending
  <2> QED
    BY <2>1, <2>5, <2>6, <2>7, RowsStayInv DEF LoopInv
<1>7. CASE TakePending(p)
  <2>1. RowsStay /\ UNCHANGED <<run, starts, faults, cur>> /\ pc'[p] = "sign" /\ cur[p] = {}
    BY <1>0, <1>7 DEF TakePending, RowsStay, OverlapInv, Locals
  <2>2. PICK j \in pend[p] : job'[p] = {j} /\ pend'[p] = pend[p] \ {j}
    BY <1>0, <1>7 DEF TakePending
  <2>3. PendInv'
    BY <2>1, <2>2 DEF LoopInv, PendInv
  <2>4. ClaimInv'
    BY <2>1, <2>2 DEF LoopInv, ClaimInv
  <2>5. LaunchInv'
    BY <1>1, <1>7, <2>1, <2>2 DEF LoopInv, LaunchInv, TakePending
  <2> QED
    BY <2>1, <2>3, <2>4, <2>5, RowsStayInv DEF LoopInv
<1>8. CASE SignToken(p)
  <2>1. PICK j \in job[p] : SignToken(p)!2!(j)
    BY <1>8 DEF SignToken
  <2>2. RowsStay /\ UNCHANGED <<starts, faults, cur, pend>> /\ pc'[p] = "start"
        /\ \A r \in RunIds : run'[r].status = run[r].status
    BY <1>0, <1>8, <2>1, HashWrite DEF SignToken, RowsStay
  <2>3. PICK k : k = [j EXCEPT !.token = run[j.run].hash + 1, !.left = j.timeout + TokenSlack]
    OBVIOUS
  <2>4. job'[p] = {k} /\ k.run = j.run /\ k.left <= k.timeout + TokenSlack
    <3>1. job'[p] = {k}
      BY <1>0, <2>1, <2>3
    <3>2. k.run = j.run /\ k.left = j.timeout + TokenSlack /\ k.timeout = j.timeout
      BY <1>0, <2>1, <2>3 DEF Job
    <3>3. j \in Job
      BY <1>0
    <3>4. j.timeout \in Nat
      BY <3>3, TimesAssumption DEF Job
    <3> QED
      BY <3>1, <3>2, <3>4, TimesAssumption
  <2>5. pc[p] = "sign"
    BY <1>8 DEF SignToken
  <2>6. PendInv'
    <3>1. \A i \in pend[p] : k.run # i.run
      BY <2>4 DEF LoopInv, PendInv
    <3> QED
      BY <2>2, <2>4, <2>5, <3>1 DEF LoopInv, PendInv
  <2>7. ClaimInv'
    BY <1>0, <2>2, <2>4 DEF LoopInv, ClaimInv
  <2>8. LaunchInv'
    <3>1. starts[k.run] <= faults
      BY <2>4, <2>5 DEF LoopInv, LaunchInv
    <3> QED
      BY <1>1, <2>2, <2>4, <2>5, <3>1 DEF LoopInv, LaunchInv
  <2> QED
    BY <2>2, <2>6, <2>7, <2>8, RowsStayInv DEF LoopInv
<1> QED
  BY <1>2, <1>3, <1>4, <1>5, <1>6, <1>7, <1>8

\* The unique index has an entry for this fire of the schedule.
Taken(s, fire) ==
    \E r \in RunIds : run[r].sched = s /\ run[r].fire = fire
                      /\ run[r].status \notin {"none", "deleted"}

\* A row is inserted after all the others, by a tick that found no row of its
\* fire, or by run-now.
LEMMA InsertedLoopInv ==
    ASSUME TypeOK, TypeOK', OverlapInv, LoopInv, NEW s \in Schedules, NEW fire,
           nextId \in RunIds, nextId' = nextId + 1,
           run' = [run EXCEPT ![nextId] = InsertedRow(s, fire)],
           fire = Null \/ ~Taken(s, fire),
           UNCHANGED <<starts, runners, faults>>
    PROVE  /\ RowInv' /\ IndexInv' /\ TokenInv'
           /\ starts[nextId] = 0
           /\ \A r \in RunIds : r # nextId => run'[r] = run[r]
           /\ run'[nextId].status = "pending"
<1>1. /\ \A r \in RunIds : r # nextId => run'[r] = run[r]
      /\ run'[nextId].status = "pending" /\ run'[nextId].err = "none"
      /\ run'[nextId].sched = s /\ run'[nextId].fire = fire
  BY InsertWrite
<1>2. starts[nextId] = 0
  BY RowNumbers DEF LoopInv, RowInv
<1>3. RowInv'
  BY <1>1, <1>2, RowNumbers DEF LoopInv, RowInv, IsActive, Active
<1>4. IndexInv'
  BY <1>1 DEF LoopInv, IndexInv, Taken
<1>5. TokenInv'
  <2>1. \A w \in runners : w.run \in RunIds /\ w.run # nextId
    BY <1>2 DEF TypeOK, Runner, LoopInv, TokenInv
  <2> QED
    BY <1>1, <2>1 DEF LoopInv, TokenInv
<1> QED
  BY <1>1, <1>2, <1>3, <1>4, <1>5

\* processOne inserts the row of a fire.
LEMMA InsertLoopInv ==
    ASSUME TypeOK, TypeOK', OverlapInv, LoopInv, NEW p \in Servers, \A o \in Servers : o = p,
           InsertRun(p)
    PROVE  LoopInv'
<1>0. /\ pc \in [Servers -> PCs] /\ job \in [Servers -> SUBSET Job]
      /\ pc[p] = "schedules" /\ job[p] = {} /\ pend[p] = {}
      /\ UNCHANGED <<starts, runners, faults, pend>>
  BY DEF TypeOK, InsertRun, OverlapInv, Locals, LoopInv, PendInv
<1>1. PICK d \in due[p] : InsertRun(p)!2!(d)
  BY DEF InsertRun
<1>2. \A r \in RunIds : /\ run[r].status = "pending" => starts[r] <= faults
                        /\ starts[r] <= 1 + faults
  BY <1>0 DEF LoopInv, LaunchInv
<1>3. CASE InsertRun(p)!2!(d)!4!1
  <2>1. UNCHANGED <<run, nextId, job>>
    BY <1>1, <1>3
  <2>2. RowsStay
    BY <1>0, <2>1 DEF RowsStay
  <2> QED
    BY <1>0, <1>2, <2>1, <2>2, RowsStayInv, EmptyHands DEF LoopInv
<1>4. CASE ~InsertRun(p)!2!(d)!4!1
  <2>1. PICK j : j = [run |-> nextId, timeout |-> d.timeout, token |-> 0, left |-> 0]
    OBVIOUS
  <2>2. /\ nextId \in RunIds /\ nextId' = nextId + 1 /\ pc'[p] = "advance"
        /\ run' = [run EXCEPT ![nextId] = InsertedRow(d.sched, d.fire)]
        /\ job'[p] = {j}
    BY <1>0, <1>1, <1>4, <2>1
  <2>3. d.sched \in Schedules /\ d.timeout \in Nat
    <3>1. d \in Due
      BY DEF TypeOK
    <3> QED
      BY <3>1, TimesAssumption DEF Due
  <2>4. j.run = nextId /\ j.left <= j.timeout + TokenSlack
    BY <2>1, <2>3, TimesAssumption
  <2>5. /\ RowInv' /\ IndexInv' /\ TokenInv'
        /\ starts[nextId] = 0
        /\ \A r \in RunIds : r # nextId => run'[r] = run[r]
        /\ run'[nextId].status = "pending"
    <3>1. ~Taken(d.sched, d.fire)
      BY <1>4 DEF Taken
    <3> QED
      BY <1>0, <2>2, <2>3, <3>1, InsertedLoopInv
  <2>6. PendInv'
    BY <1>0 DEF PendInv
  <2>7. ClaimInv'
    BY <1>0, <2>2, <2>4, <2>5 DEF ClaimInv
  <2>8. LaunchInv'
    BY <1>0, <1>2, <2>2, <2>5, BoundsAssumption DEF LaunchInv, TypeOK
  <2> QED
    BY <2>5, <2>6, <2>7, <2>8 DEF LoopInv
<1> QED
  BY <1>3, <1>4

\* The row the policy dropped is deleted: nothing was launched for it.
LEMMA DeleteLoopInv ==
    ASSUME TypeOK, TypeOK', OverlapInv, LoopInv, NEW p \in Servers, \A o \in Servers : o = p,
           DeleteSkipped(p)
    PROVE  LoopInv'
<1>0. /\ pc \in [Servers -> PCs] /\ job \in [Servers -> SUBSET Job]
      /\ pc[p] = "delete" /\ job'[p] = {} /\ pend[p] = {}
      /\ UNCHANGED <<starts, runners, faults, pend, nextId>>
  BY DEF TypeOK, DeleteSkipped, Return, LoopInv, PendInv
<1>1. PICK j \in job[p] :
        run' = [run EXCEPT ![j.run] = [@ EXCEPT !.status = "deleted", !.age = 0]]
  BY DEF DeleteSkipped
<1>2. j.run \in RunIds /\ run[j.run].status = "pending" /\ starts[j.run] = 0
  BY <1>0 DEF LoopInv, ClaimInv, TypeOK, Job
<1>3. /\ \A r \in RunIds : r # j.run => run'[r] = run[r]
      /\ run'[j.run].status = "deleted"
  BY <1>1, <1>2, StatusWrite
<1>4. RowInv'
  BY <1>0, <1>2, <1>3 DEF LoopInv, RowInv, IsActive, Active
<1>5. IndexInv'
  BY <1>3 DEF LoopInv, IndexInv
<1>6. TokenInv'
  <2>1. \A w \in runners : w.run \in RunIds /\ w.run # j.run
    BY <1>2 DEF TypeOK, Runner, LoopInv, TokenInv
  <2> QED
    BY <1>0, <1>3, <2>1 DEF LoopInv, TokenInv
<1>7. PendInv' /\ ClaimInv' /\ LaunchInv'
  <2>1. \A r \in RunIds : /\ starts[r] <= 1 + faults
                          /\ run'[r].status = "pending" => starts[r] <= faults
    BY <1>0, <1>3 DEF LoopInv, LaunchInv
  <2> QED
    BY <1>0, <2>1, EmptyHands
<1> QED
  BY <1>4, <1>5, <1>6, <1>7 DEF LoopInv

\* A runner is launched: for a row that was not begun, with the token just signed.
LEMMA LaunchLoopInv ==
    ASSUME TypeOK, TypeOK', OverlapInv, LoopInv, NEW p \in Servers, \A o \in Servers : o = p,
           StartRunner(p)
    PROVE  LoopInv'
<1>0. /\ pc[p] = "start" /\ pc'[p] = "mark"
      /\ UNCHANGED <<run, nextId, faults, cur, job, pend>>
      /\ starts \in [RunIds -> Nat] /\ faults \in Int
  BY BoundsAssumption DEF TypeOK, StartRunner
<1>1. PICK j \in job[p] : StartRunner(p)!2!(j)
  BY DEF StartRunner
<1>2. /\ j.run \in RunIds /\ job[p] = {j}
      /\ run[j.run].status \notin {"none", "running", "deleted"}
      /\ j.left <= j.timeout + TokenSlack /\ starts[j.run] <= faults
      /\ \A k \in pend[p] : k.run # j.run
  BY <1>0 DEF TypeOK, Job, OverlapInv, Locals, LoopInv, PendInv, ClaimInv, LaunchInv
<1>3. /\ \A r \in RunIds : r # j.run => starts'[r] = starts[r]
      /\ starts'[j.run] = starts[j.run] + 1 /\ starts'[j.run] > 0
      /\ \A r \in RunIds : starts[r] > 0 => starts'[r] > 0
  BY <1>0, <1>1, <1>2
<1>4. PendInv'
  BY <1>0 DEF LoopInv, PendInv
<1>5. ClaimInv'
  BY <1>0, <1>2, <1>3 DEF LoopInv, ClaimInv
<1>6. RowInv'
  BY <1>0, <1>2, <1>3 DEF LoopInv, RowInv, OverlapInv, Allocated, IsActive
<1>7. IndexInv'
  BY <1>0 DEF LoopInv, IndexInv
<1>8. LaunchInv'
  <2>1. \A r \in RunIds : starts'[r] <= 1 + faults
    BY <1>0, <1>2, <1>3 DEF LoopInv, LaunchInv
  <2>2. \A r \in RunIds : r # j.run /\ run[r].status = "pending" => starts'[r] <= faults
    BY <1>0, <1>3 DEF LoopInv, LaunchInv
  <2>3. \A k \in pend[p] : starts'[k.run] <= faults
    <3>1. \A k \in pend[p] : k.run \in RunIds
      BY DEF TypeOK, Job
    <3> QED
      BY <1>2, <1>3, <3>1 DEF LoopInv, LaunchInv
  <2> QED
    BY <1>0, <1>2, <2>1, <2>2, <2>3 DEF LaunchInv
<1>9. TokenInv'
  <2>1. PICK v : v = [run |-> j.run, pid |-> starts[j.run], timeout |-> j.timeout,
                      token |-> j.token, left |-> j.left, phase |-> "working"]
    OBVIOUS
  <2>2. runners' = runners \cup {v}
    BY <1>1, <2>1
  <2>3. v.run = j.run /\ v.timeout = j.timeout /\ v.left = j.left
    BY <2>1
  <2>4. \A w \in runners : w.run \in RunIds
    BY DEF TypeOK, Runner
  <2> QED
    BY <1>0, <1>2, <1>3, <2>2, <2>3, <2>4 DEF LoopInv, TokenInv
<1> QED
  BY <1>4, <1>5, <1>6, <1>7, <1>8, <1>9 DEF LoopInv

\* SetRunRunning: the row is running from now on, or is over already.
LEMMA MarkLoopInv ==
    ASSUME TypeOK, TypeOK', OverlapInv, LoopInv, NEW p \in Servers, \A o \in Servers : o = p,
           MarkRunning(p)
    PROVE  LoopInv'
<1>0. /\ pc[p] = "mark" /\ job'[p] = {} /\ cur'[p] = {}
      /\ UNCHANGED <<nextId, faults, starts, runners, pend>>
      /\ pend[p] # {} => pc'[p] = "drain"
      /\ starts \in [RunIds -> Nat] /\ faults \in Int
  BY BoundsAssumption DEF TypeOK, MarkRunning, Return, Loop, LoopInv, PendInv
<1>1. PICK j \in job[p] : MarkRunning(p)!2!(j)
  BY DEF MarkRunning
<1>2. /\ j.run \in RunIds /\ job[p] = {j} /\ starts[j.run] > 0
      /\ run[j.run].status \notin {"none", "running", "deleted"}
      /\ \A k \in pend[p] : k.run # j.run /\ k.run \in RunIds
  BY <1>0 DEF TypeOK, Job, OverlapInv, Locals, LoopInv, PendInv, ClaimInv
<1>3. /\ \A r \in RunIds : r # j.run => run'[r] = run[r]
      /\ run'[j.run].status \notin {"none", "pending", "deleted"}
      /\ run'[j.run].sched = run[j.run].sched /\ run'[j.run].fire = run[j.run].fire
      /\ run'[j.run].err = run[j.run].err
      /\ run'[j.run].status = "running" => /\ run[j.run].status = "pending"
                                           /\ run'[j.run].age = 0
  <2>1. CASE run[j.run].status = "pending"
    <3>1. run' = [run EXCEPT ![j.run] = [@ EXCEPT !.status = "running", !.age = 0]]
      BY <1>1, <2>1
    <3>2. /\ \A r \in RunIds : r # j.run => run'[r] = run[r]
          /\ run'[j.run].status = "running" /\ run'[j.run].age = 0
          /\ run'[j.run].sched = run[j.run].sched
          /\ run'[j.run].fire = run[j.run].fire /\ run'[j.run].err = run[j.run].err
      BY <1>2, <3>1, StatusWrite
    <3> QED
      BY <2>1, <3>2
  <2>2. CASE run[j.run].status # "pending"
    BY <1>1, <1>2, <2>2
  <2> QED
    BY <2>1, <2>2
<1>4. RowInv'
  BY <1>0, <1>2, <1>3 DEF LoopInv, RowInv, IsActive, Active
<1>5. IndexInv'
  BY <1>2, <1>3 DEF LoopInv, IndexInv
<1>6. TokenInv'
  <2>1. \A w \in runners : w.run \in RunIds /\ w.left \in Int
    BY DEF TypeOK, Runner
  <2> QED
    BY <1>0, <1>2, <1>3, <2>1 DEF LoopInv, TokenInv
<1>7. PendInv' /\ ClaimInv' /\ LaunchInv'
  <2>1. \A r \in RunIds : /\ starts[r] <= 1 + faults
                          /\ run'[r].status = "pending" => starts[r] <= faults
    BY <1>0, <1>2, <1>3 DEF LoopInv, LaunchInv
  <2>2. \A k \in pend[p] : /\ run'[k.run].status \notin {"none", "running", "deleted"}
                           /\ starts[k.run] <= faults
    BY <1>2, <1>3 DEF LoopInv, ClaimInv, LaunchInv
  <2> QED
    BY <1>0, <2>1, <2>2, BetweenDispatches
<1> QED
  BY <1>4, <1>5, <1>6, <1>7 DEF LoopInv

\* A failed statement or a crash: what was held is dropped, and the fault pays
\* for a launch that was not recorded.
LEMMA FaultLoopInv ==
    ASSUME TypeOK, TypeOK', OverlapInv, LoopInv, NEW p \in Servers, \A o \in Servers : o = p,
           StepFails(p) \/ Crash(p)
    PROVE  LoopInv'
<1>0. /\ pc \in [Servers -> PCs] /\ job \in [Servers -> SUBSET Job]
      /\ cur \in [Servers -> SUBSET Due] /\ pend \in [Servers -> SUBSET Job]
      /\ UNCHANGED <<run, nextId, starts, runners>> /\ faults' = faults + 1
      /\ starts \in [RunIds -> Nat] /\ faults \in Int
  BY BoundsAssumption DEF TypeOK, StepFails, Crash
<1>1. job'[p] = {}
  BY <1>0 DEF StepFails, Crash, Return, OverlapInv, Locals
<1>2. RowsStay
  BY <1>0 DEF RowsStay
<1>3. \A r \in RunIds : /\ starts[r] <= 1 + faults' /\ starts[r] <= faults'
  BY <1>0 DEF LoopInv, LaunchInv
<1>4. CASE pend'[p] = {}
  BY <1>0, <1>1, <1>2, <1>3, <1>4, RowsStayInv, EmptyHands DEF LoopInv
<1>5. CASE pend'[p] # {}
  <2>1. UNCHANGED pend /\ pc'[p] = "drain" /\ cur'[p] = {}
    BY <1>0, <1>5 DEF StepFails, Crash, Return, Loop, LoopInv, PendInv, OverlapInv, Locals
  <2>2. \A j \in pend[p] : /\ run[j.run].status \notin {"none", "running", "deleted"}
                           /\ starts[j.run] <= faults'
    BY <1>0, <1>3 DEF LoopInv, ClaimInv, LaunchInv, Job
  <2> QED
    BY <1>0, <1>1, <1>2, <1>3, <2>1, <2>2, RowsStayInv, BetweenDispatches DEF LoopInv
<1> QED
  BY <1>4, <1>5

\* Requests: run-now inserts a row that no process holds; the rest leave the
\* run table alone.
LEMMA RequestLoopInv ==
    ASSUME TypeOK, TypeOK', OverlapInv, LoopInv, Requests
    PROVE  LoopInv'
<1>1. ASSUME NEW s \in Schedules, RunNow(s)
      PROVE  LoopInv'
  <2>0. UNCHANGED <<pc, cur, job, pend, starts, runners, faults>> /\ nextId' = nextId + 1
        /\ nextId \in RunIds
        /\ run' = [run EXCEPT ![nextId] = InsertedRow(s, Null)]
    BY <1>1 DEF RunNow, server
  <2>1. /\ RowInv' /\ IndexInv' /\ TokenInv'
        /\ starts[nextId] = 0
        /\ \A r \in RunIds : r # nextId => run'[r] = run[r]
        /\ run'[nextId].status = "pending"
    BY <2>0, InsertedLoopInv
  <2>2. \A o \in Servers : \A j \in job[o] \cup pend[o] : j.run \in RunIds /\ j.run # nextId
    <3>1. \A o \in Servers : \A j \in job[o] \cup pend[o] : j.run \in RunIds /\ j.run < nextId
      BY DEF TypeOK, Job, OverlapInv, Allocated
    <3> QED
      BY <3>1, RowNumbers
  <2>3. PendInv'
    BY <2>0 DEF LoopInv, PendInv
  <2>4. ClaimInv'
    BY <2>0, <2>1, <2>2 DEF LoopInv, ClaimInv
  <2>5. LaunchInv'
    BY <2>0, <2>1, BoundsAssumption DEF LoopInv, LaunchInv, TypeOK
  <2> QED
    BY <2>1, <2>3, <2>4, <2>5 DEF LoopInv
<1>2. CASE UNCHANGED <<run, nextId, pc, cur, job, pend, starts, runners, faults>>
  BY <1>2 DEF LoopInv, PendInv, ClaimInv, RowInv, IndexInv, LaunchInv, TokenInv, IsActive
<1> QED
  BY <1>1, <1>2 DEF Requests, Pause, Resume, UpsertSchedule, server

\* A runner authenticates, exits or reports: no row becomes active.
LEMMA RunnerLoopInv ==
    ASSUME TypeOK, TypeOK', OverlapInv, LoopInv, RunnerStep
    PROVE  LoopInv'
<1>0. UNCHANGED <<nextId, pc, cur, job, pend, starts, faults>>
  BY DEF RunnerStep, Authenticate, RunnerExits, FinalizeRun, server
<1>1. \A w \in runners' : \E v \in runners :
        w.run = v.run /\ w.timeout = v.timeout /\ w.left = v.left
  <2>1. ASSUME NEW u \in runners, Authenticate(u)
        PROVE  \A w \in runners' : \E v \in runners :
                 w.run = v.run /\ w.timeout = v.timeout /\ w.left = v.left
    <3>1. u \in Runner
      BY DEF TypeOK
    <3>2. PICK x : x = [u EXCEPT !.phase = "admitted"]
      OBVIOUS
    <3>3. x.run = u.run /\ x.timeout = u.timeout /\ x.left = u.left
      BY <3>1, <3>2 DEF Runner
    <3>4. runners' = (runners \ {u}) \cup {x}
      BY <2>1, <3>2 DEF Authenticate
    <3> QED
      BY <3>3, <3>4
  <2> QED
    BY <2>1 DEF RunnerStep, RunnerExits, FinalizeRun
<1>2. \A r \in RunIds :
        /\ run'[r].sched = run[r].sched /\ run'[r].fire = run[r].fire
        /\ \/ run'[r].status = run[r].status
              /\ run'[r].err = run[r].err /\ run'[r].age = run[r].age
           \/ IsActive(r) /\ run'[r].status \in Terminal
  <2>1. ASSUME NEW w \in runners, NEW outcome \in Outcomes, FinalizeRun(w, outcome),
               IsActive(w.run), NEW r \in RunIds
        PROVE  /\ run'[r].sched = run[r].sched /\ run'[r].fire = run[r].fire
               /\ run'[r] = run[r] \/ (IsActive(r) /\ run'[r].status \in Terminal)
    <3>1. w.run \in RunIds
      BY DEF TypeOK, Runner
    <3>2. run' = [run EXCEPT ![w.run] = [@ EXCEPT !.status = outcome, !.age = 0]]
      BY <2>1 DEF FinalizeRun
    <3>3. /\ \A q \in RunIds : q # w.run => run'[q] = run[q]
          /\ run'[w.run].status = outcome /\ run'[w.run].sched = run[w.run].sched
          /\ run'[w.run].fire = run[w.run].fire
      BY <3>1, <3>2, StatusWrite
    <3> QED
      BY <2>1, <3>3, OutcomesAssumption DEF Terminal
  <2> QED
    BY <2>1 DEF RunnerStep, Authenticate, RunnerExits, FinalizeRun
<1>3. RowsStay
  BY <1>0, <1>1, <1>2 DEF RowsStay
<1>4. /\ RowInv' /\ IndexInv' /\ TokenInv'
      /\ \A r \in RunIds : starts'[r] <= 1 + faults'
      /\ \A r \in RunIds : run'[r].status = "pending" => run[r].status = "pending"
  BY <1>3, RowsStayInv
<1>5. PendInv'
  BY <1>0 DEF LoopInv, PendInv
<1>6. ClaimInv'
  <2>1. \A r \in RunIds : starts[r] = 0 => run'[r].status = run[r].status
    <3>1. \A w \in runners : starts[w.run] > 0 /\ w.run \in RunIds
      BY DEF LoopInv, TokenInv, TypeOK, Runner
    <3>2. ASSUME NEW w \in runners, NEW outcome \in Outcomes, FinalizeRun(w, outcome)
          PROVE  \A q \in RunIds : q # w.run => run'[q] = run[q]
      BY <3>1, <3>2, StatusWrite DEF FinalizeRun
    <3> QED
      BY <3>1, <3>2 DEF RunnerStep, Authenticate, RunnerExits, TypeOK
  <2>2. \A o \in Servers : \A j \in job[o] \cup pend[o] : j.run \in RunIds
    BY DEF TypeOK, Job
  <2> QED
    BY <1>0, <1>2, <2>1, <2>2 DEF LoopInv, ClaimInv, Terminal
<1>7. LaunchInv'
  BY <1>0, <1>4 DEF LoopInv, LaunchInv
<1> QED
  BY <1>4, <1>5, <1>6, <1>7 DEF LoopInv

\* Time passes: a token loses what its run gains in age.
LEMMA ClockLoopInv ==
    ASSUME TypeOK, TypeOK', OverlapInv, LoopInv, Clock
    PROVE  LoopInv'
<1>0. UNCHANGED <<nextId, pc, cur, pend, starts, faults>>
  BY DEF Clock
<1>1. ASSUME NEW n \in Nat
      PROVE  (IF n = 0 THEN 0 ELSE n - 1) \in Nat
             /\ (IF n = 0 THEN 0 ELSE n - 1) <= n
             /\ ((IF n = 0 THEN 0 ELSE n - 1) > 0 => (IF n = 0 THEN 0 ELSE n - 1) = n - 1)
  OBVIOUS
<1>2. \A o \in Servers : \A k \in job'[o] : \E j \in job[o] :
        k.run = j.run /\ k.timeout = j.timeout /\ k.left <= j.left
        /\ j.left \in Nat /\ k.left \in Nat /\ j.timeout \in Nat
  <2> SUFFICES ASSUME NEW o \in Servers, NEW k \in job'[o]
               PROVE  \E j \in job[o] :
                        k.run = j.run /\ k.timeout = j.timeout /\ k.left <= j.left
                        /\ j.left \in Nat /\ k.left \in Nat /\ j.timeout \in Nat
    OBVIOUS
  <2>1. PICK j \in job[o] : k = Count(j)
    BY DEF Clock
  <2>2. j \in Job
    BY DEF TypeOK
  <2>3. j.left \in Nat /\ j.timeout \in Nat
    BY <2>2, TimesAssumption DEF Job
  <2>4. k.run = j.run /\ k.timeout = j.timeout /\ k.left = (IF j.left = 0 THEN 0 ELSE j.left - 1)
    BY <2>1, <2>2 DEF Count, Job
  <2> QED
    BY <1>1, <2>3, <2>4
<1>3. \A w \in runners' : \E v \in runners :
        /\ w.run = v.run /\ w.timeout = v.timeout /\ w.left <= v.left
        /\ w.left > 0 => w.left = v.left - 1
        /\ v.left \in Nat /\ w.left \in Nat /\ v.timeout \in Nat /\ v.run \in RunIds
  <2> SUFFICES ASSUME NEW w \in runners'
               PROVE  \E v \in runners :
                        /\ w.run = v.run /\ w.timeout = v.timeout /\ w.left <= v.left
                        /\ w.left > 0 => w.left = v.left - 1
                        /\ v.left \in Nat /\ w.left \in Nat /\ v.timeout \in Nat
                        /\ v.run \in RunIds
    OBVIOUS
  <2>1. PICK v \in runners : w = Count(v)
    BY DEF Clock
  <2>2. v \in Runner
    BY DEF TypeOK
  <2>3. v.left \in Nat /\ v.timeout \in Nat /\ v.run \in RunIds
    BY <2>2, TimesAssumption DEF Runner
  <2>4. w.run = v.run /\ w.timeout = v.timeout /\ w.left = (IF v.left = 0 THEN 0 ELSE v.left - 1)
    BY <2>1, <2>2 DEF Count, Runner
  <2> QED
    BY <1>1, <2>3, <2>4
<1>4. \A r \in RunIds :
        /\ run'[r].status = run[r].status /\ run'[r].err = run[r].err
        /\ run'[r].sched = run[r].sched /\ run'[r].fire = run[r].fire
        /\ run'[r].age <= run[r].age + 1 /\ run[r].age \in Nat /\ run'[r].age \in Nat
  BY ClockWrite DEF TypeOK, RunRow
<1>5. PendInv'
  <2>1. \A o \in Servers : job[o] = {} => job'[o] = {}
    BY <1>2
  <2> QED
    BY <1>0, <1>2 DEF LoopInv, PendInv
<1>6. ClaimInv'
  <2>1. \A o \in Servers : \A j \in job[o] \cup pend[o] : j.run \in RunIds
    BY DEF TypeOK, Job
  <2> QED
    BY <1>0, <1>2, <1>4, <2>1, TimesAssumption DEF LoopInv, ClaimInv
<1>7. RowInv' /\ IndexInv'
  BY <1>0, <1>4 DEF LoopInv, RowInv, IndexInv, IsActive
<1>8. LaunchInv'
  <2>1. \A o \in Servers : \A j \in job[o] : \E k \in job'[o] : k.run = j.run
    <3> SUFFICES ASSUME NEW o \in Servers, NEW j \in job[o]
                 PROVE  \E k \in job'[o] : k.run = j.run
      OBVIOUS
    <3>1. Count(j) \in job'[o] /\ j \in Job
      BY DEF Clock, TypeOK
    <3>2. Count(j).run = j.run
      BY <3>1 DEF Count, Job
    <3> QED
      BY <3>1, <3>2
  <2> QED
    BY <1>0, <1>2, <1>4, <2>1 DEF LoopInv, LaunchInv
<1>9. TokenInv'
  <2> SUFFICES ASSUME NEW w \in runners' PROVE TokenInv!(w)'
    BY DEF TokenInv
  <2>1. PICK v \in runners :
          /\ w.run = v.run /\ w.timeout = v.timeout /\ w.left <= v.left
          /\ w.left > 0 => w.left = v.left - 1
          /\ v.left \in Nat /\ w.left \in Nat /\ v.timeout \in Nat /\ v.run \in RunIds
    BY <1>3
  <2> QED
    BY <1>0, <1>4, <2>1, TimesAssumption DEF LoopInv, TokenInv
<1> QED
  BY <1>5, <1>6, <1>7, <1>8, <1>9 DEF LoopInv

\* The invariant of one serve process holds in every reachable state.
LEMMA LoopInvariant ==
    ASSUME OneServer
    PROVE  Spec => [](TypeOK /\ OverlapInv /\ LoopInv)
<1>1. TypeOK /\ OverlapInv /\ TypeOK' /\ LoopInv /\ [Next]_vars => LoopInv'
  <2> SUFFICES ASSUME TypeOK, OverlapInv, TypeOK', LoopInv, [Next]_vars PROVE LoopInv'
    OBVIOUS
  <2>1. CASE UNCHANGED vars
    BY <2>1 DEF vars, LoopInv, PendInv, ClaimInv, RowInv, IndexInv, LaunchInv, TokenInv, IsActive
  <2>2. ASSUME NEW p \in Servers, Start(p) \/ Step(p) \/ StepFails(p) \/ Crash(p)
        PROVE  LoopInv'
    <3>1. \A o \in Servers : o = p
      BY DEF OneServer
    <3> QED
      BY <2>2, <3>1, StayLoopInv, InsertLoopInv, DeleteLoopInv, LaunchLoopInv, MarkLoopInv,
         FaultLoopInv DEF Step
  <2> QED
    BY <2>1, <2>2, RequestLoopInv, RunnerLoopInv, ClockLoopInv DEF Next
<1> QED
  BY <1>1, InitLoopInv, OverlapInvariant, PTL DEF Spec

-----------------------------------------------------------------------------
(* What follows.                                                            *)

\* Executed once: with one serve process, each run has at most one runner more
\* than there were crashes and failed statements, and each fire of a schedule
\* at most one run that was launched at all.
THEOREM ExecutedOnce ==
    ASSUME OneServer
    PROVE  Spec => []StartedOnce
<1>1. TypeOK /\ LoopInv => StartedOnce
  <2> SUFFICES ASSUME TypeOK, LoopInv PROVE StartedOnce
    OBVIOUS
  <2>1. \A r \in RunIds : starts[r] <= 1 + faults
    BY DEF LoopInv, LaunchInv
  <2>2. ASSUME NEW q \in RunIds, NEW r \in RunIds,
               run[q].sched = run[r].sched, run[q].fire = run[r].fire,
               run[q].fire # Null, starts[q] > 0, starts[r] > 0
        PROVE  q = r
    BY <2>2 DEF LoopInv, RowInv, IndexInv
  <2> QED
    BY <2>1, <2>2 DEF StartedOnce
<1> QED
  BY <1>1, LoopInvariant, PTL

\* Live runs are spared: with one serve process, whatever crashes, edits and
\* delays there are, the sweep fails no running run whose runner still holds a
\* token the API accepts, unless the schedule's timeout was lowered meanwhile.
THEOREM LiveRunsAreSpared ==
    ASSUME OneServer
    PROVE  Spec => SweepSparesLive
<1> DEFINE Spares == \A r \in RunIds :
             run[r].status = "running" /\ run'[r].err = "shutdown"
             => \A w \in runners : w.run = r /\ Admitted(w)
                                   => w.timeout > sched[run[r].sched].timeout
<1>1. TypeOK /\ OverlapInv /\ LoopInv /\ [Next]_vars => [Spares]_vars
  <2> SUFFICES ASSUME TypeOK, OverlapInv, LoopInv, [Next]_vars, NEW r \in RunIds,
                      run[r].status = "running", run'[r].err = "shutdown",
                      NEW w \in runners, w.run = r, Admitted(w)
               PROVE  w.timeout > sched[run[r].sched].timeout
    OBVIOUS
  <2>1. run[r].err = "none"
    BY DEF LoopInv, RowInv, IsActive, Active
  <2>2. SUFFICES Overdue(r)
    <3>1. /\ w.left > 0 /\ w.left + run[r].age <= w.timeout + TokenSlack
          /\ run[r].age > sched[run[r].sched].timeout + SweepGrace
      BY <2>2 DEF Overdue, Admitted, LoopInv, TokenInv
    <3>2. run[r] \in RunRow /\ w \in Runner
      BY DEF TypeOK
    <3>3. run[r].sched \in Schedules /\ run[r].age \in Nat
          /\ w.left \in Nat /\ w.timeout \in Nat
      BY <3>2, TimesAssumption DEF RunRow, Runner
    <3>4. sched[run[r].sched] \in ScheduleRow
      BY <3>3 DEF TypeOK
    <3>5. sched[run[r].sched].timeout \in Nat
      BY <3>4, TimesAssumption DEF ScheduleRow
    <3> QED
      BY <3>1, <3>3, <3>5, TimesAssumption, SlackAssumption
  <2>3. CASE SweepRows
    BY <2>1, <2>3, SweepWrite
  <2>4. CASE UNCHANGED run
    BY <2>1, <2>4
  <2>5. ASSUME NEW p \in Servers, DeleteSkipped(p) \/ SignToken(p) \/ MarkRunning(p)
        PROVE  FALSE
    <3>1. \A j \in job[p] : j.run \in RunIds
      BY DEF TypeOK, Job
    <3>2. CASE DeleteSkipped(p)
      BY <2>1, <3>1, <3>2, StatusWrite DEF DeleteSkipped
    <3>3. CASE SignToken(p)
      BY <2>1, <3>1, <3>3, HashWrite DEF SignToken
    <3>4. CASE MarkRunning(p)
      BY <2>1, <3>1, <3>4, StatusWrite DEF MarkRunning
    <3> QED
      BY <2>5, <3>2, <3>3, <3>4
  <2>6. ASSUME nextId \in RunIds, NEW s, NEW fire,
               run' = [run EXCEPT ![nextId] = InsertedRow(s, fire)]
        PROVE  FALSE
    BY <2>1, <2>6, InsertWrite
  <2>7. ASSUME NEW v \in runners, NEW outcome \in Outcomes, FinalizeRun(v, outcome)
        PROVE  FALSE
    <3>1. v.run \in RunIds
      BY DEF TypeOK, Runner
    <3> QED
      BY <2>1, <2>7, <3>1, StatusWrite DEF FinalizeRun
  <2>8. CASE Clock
    BY <2>1, <2>8, ClockWrite
  <2>9. CASE UNCHANGED vars
    BY <2>4, <2>9 DEF vars
  <2>10. ASSUME NEW p \in Servers, Start(p) \/ Step(p) \/ StepFails(p) \/ Crash(p)
         PROVE  Overdue(r)
    <3>1. CASE InsertRun(p)
      <4>1. PICK d \in due[p] : InsertRun(p)!2!(d)
        BY <3>1 DEF InsertRun
      <4>2. CASE UNCHANGED run
        BY <2>4, <4>2
      <4>3. CASE nextId \in RunIds /\ run' = [run EXCEPT ![nextId] = InsertedRow(d.sched, d.fire)]
        BY <2>6, <4>3
      <4> QED
        BY <4>1, <4>2, <4>3
    <3>2. CASE Start(p) \/ Sweep(p)
      BY <2>3, <3>2 DEF Start, Sweep
    <3>3. CASE ListDue(p) \/ AdvanceNextFire(p) \/ ApplyPolicy(p) \/ ListPending(p)
               \/ TakePending(p) \/ StartRunner(p) \/ StepFails(p) \/ Crash(p)
      <4>1. UNCHANGED run
        BY <3>3 DEF ListDue, AdvanceNextFire, ApplyPolicy, ListPending, TakePending,
                    StartRunner, StepFails, Crash
      <4> QED
        BY <2>4, <4>1
    <3> QED
      BY <2>5, <2>10, <3>1, <3>2, <3>3 DEF Step
  <2>11. CASE Requests
    BY <2>4, <2>6, <2>11 DEF Requests, RunNow, Pause, Resume, UpsertSchedule
  <2>12. CASE RunnerStep
    BY <2>4, <2>7, <2>12 DEF RunnerStep, Authenticate, RunnerExits
  <2> QED
    BY <2>8, <2>9, <2>10, <2>11, <2>12 DEF Next
<1>2. [][Spares]_vars => SweepSparesLive
  BY PTL DEF SweepSparesLive
<1> QED
  BY <1>1, <1>2, LoopInvariant, PTL DEF Spec

-----------------------------------------------------------------------------
(* The refinement: every step is a step of the life of a run, or none.      *)

\* Two functions that differ in one place.
LEMMA DifferInOne ==
    ASSUME NEW S, NEW f, NEW g, NEW x \in S, NEW v,
           f = [y \in S |-> f[y]], g = [y \in S |-> g[y]],
           g[x] = v, \A y \in S : y # x => g[y] = f[y]
    PROVE  g = [f EXCEPT ![x] = v]
OBVIOUS

\* A step that touches no column RunLifecycle sees.
LEMMA LifeStutters ==
    ASSUME \A r \in RunIds : /\ run'[r].sched = run[r].sched /\ run'[r].status = run[r].status
                             /\ via'[r] = via[r]
                             /\ (starts'[r] > 0) <=> (starts[r] > 0)
    PROVE  UNCHANGED Lifecycle!vars
BY DEF Lifecycle!vars, Admission

\* A sweep expires the overdue rows together.
LEMMA LifeExpires ==
    ASSUME TypeOK, SweepRows, UNCHANGED <<via, starts>>
    PROVE  Lifecycle!Next
<1>1. PICK rows \in SUBSET RunIds : rows = {r \in RunIds : Overdue(r)}
  OBVIOUS
<1>2. Lifecycle!Expire(rows)
  <2>1. \A r \in RunIds : /\ run'[r].sched = run[r].sched
                          /\ run'[r].status = IF r \in rows THEN "failed" ELSE run[r].status
    BY <1>1, SweepWrite
  <2>2. \A r \in rows : run[r].status \in Active
    BY <1>1 DEF Overdue, IsActive
  <2> QED
    BY <2>1, <2>2 DEF Lifecycle!Expire, Lifecycle!Active, Active, Admission
<1> QED
  BY <1>2, Zenon DEF Lifecycle!Next

\* A row is inserted after every row there is.
LEMMA LifeInserts ==
    ASSUME TypeOK, OverlapInv, nextId \in RunIds, NEW s \in Schedules, NEW fire,
           run' = [run EXCEPT ![nextId] = InsertedRow(s, fire)], UNCHANGED <<via, starts>>
    PROVE  Lifecycle!Next
<1>1. /\ \A r \in RunIds : r # nextId => run'[r] = run[r]
      /\ run'[nextId].status = "pending" /\ run'[nextId].sched = s
  BY InsertWrite
<1>2. \A q \in RunIds : q >= nextId => run[q].status = "none"
  BY DEF OverlapInv, Allocated
<1>3. PICK x \in RunIds : x = nextId
  OBVIOUS
<1>4. Lifecycle!Insert(x, s)
  <2>1. PICK f, g : /\ f = [r \in RunIds |-> run[r].sched] /\ g = [r \in RunIds |-> run'[r].sched]
    OBVIOUS
  <2>2. g = [f EXCEPT ![x] = s]
    BY <1>1, <1>3, <2>1, DifferInOne
  <2>3. PICK h, k : /\ h = [r \in RunIds |-> run[r].status] /\ k = [r \in RunIds |-> run'[r].status]
    OBVIOUS
  <2>4. k = [h EXCEPT ![x] = "pending"]
    BY <1>1, <1>3, <2>3, DifferInOne
  <2>5. [r \in RunIds |-> Admission(r)'] = [r \in RunIds |-> Admission(r)]
    BY DEF Admission
  <2>6. \A q \in RunIds : q >= x => ~Lifecycle!Exists(q)
    BY <1>2, <1>3 DEF Lifecycle!Exists
  <2> QED
    BY <2>1, <2>2, <2>3, <2>4, <2>5, <2>6 DEF Lifecycle!Insert
<1> QED
  BY <1>4, Zenon DEF Lifecycle!Next

\* A status is written into one row.
LEMMA LifeWrites ==
    ASSUME TypeOK, NEW x \in RunIds, NEW st, UNCHANGED <<via, starts>>,
           run' = [run EXCEPT ![x] = [@ EXCEPT !.status = st, !.age = 0]]
    PROVE  /\ run[x].status = "pending" /\ starts[x] > 0 /\ st = "running"
              => Lifecycle!Begin(x)
           /\ run[x].status = "pending" /\ ~(starts[x] > 0) /\ st = "deleted"
              => Lifecycle!Discard(x)
           /\ IsActive(x) /\ starts[x] > 0 => Lifecycle!Report(x, st)
<1>1. /\ \A r \in RunIds : r # x => run'[r] = run[r]
      /\ run'[x].status = st /\ run'[x].sched = run[x].sched
  BY StatusWrite
<1>2. /\ [r \in RunIds |-> run'[r].sched] = [r \in RunIds |-> run[r].sched]
      /\ [r \in RunIds |-> Admission(r)'] = [r \in RunIds |-> Admission(r)]
  BY <1>1 DEF Admission
<1>3. [r \in RunIds |-> run'[r].status] = [[r \in RunIds |-> run[r].status] EXCEPT ![x] = st]
  <2>1. PICK f, g : /\ f = [r \in RunIds |-> run[r].status] /\ g = [r \in RunIds |-> run'[r].status]
    OBVIOUS
  <2>2. g = [f EXCEPT ![x] = st]
    BY <1>1, <2>1, DifferInOne
  <2> QED
    BY <2>1, <2>2
<1>4. {r \in RunIds : starts'[r] > 0} = {r \in RunIds : starts[r] > 0}
  OBVIOUS
<1>5. ASSUME run[x].status = "pending", starts[x] > 0, st = "running"
      PROVE  Lifecycle!Begin(x)
  BY <1>2, <1>3, <1>4, <1>5 DEF Lifecycle!Begin
<1>6. ASSUME run[x].status = "pending", ~(starts[x] > 0), st = "deleted"
      PROVE  Lifecycle!Discard(x)
  BY <1>2, <1>3, <1>4, <1>6 DEF Lifecycle!Discard
<1>7. ASSUME IsActive(x), starts[x] > 0
      PROVE  Lifecycle!Report(x, st)
  BY <1>2, <1>3, <1>4, <1>7 DEF Lifecycle!Report, Lifecycle!Active, IsActive, Active
<1> QED
  BY <1>5, <1>6, <1>7

\* Rows are admitted by a decision that is right when it is made.
LEMMA LifeAdmits ==
    ASSUME TypeOK, TypeOK', NEW rows \in SUBSET RunIds, UNCHANGED <<run, starts>>,
           \A r \in rows : /\ run[r].status # "none"
                           /\ via'[r] \in {"manual", "concurrent", "skip", "queue"}
                           /\ via'[r] \in {"skip", "queue"} => OlderActive(r) = {},
           \A r \in RunIds : r \notin rows => via'[r] = via[r]
    PROVE  Lifecycle!Next
<1>1. PICK how : how = [r \in rows |-> Admission(r)']
  OBVIOUS
<1>2. /\ how \in [rows -> {"alone", "beside"}]
      /\ \A r \in rows : how[r] = "alone" => via'[r] \in {"skip", "queue"}
  BY <1>1 DEF Admission
<1>3. \A r \in rows : Lifecycle!Exists(r) /\ (how[r] = "alone" => Lifecycle!Older(r) = {})
  BY <1>2 DEF Lifecycle!Exists, Lifecycle!Older, Lifecycle!Active, OlderActive, ActiveRuns,
              IsActive, Active
<1>4. [r \in RunIds |-> Admission(r)']
      = [r \in RunIds |-> IF r \in rows THEN how[r] ELSE [q \in RunIds |-> Admission(q)][r]]
  <2>1. \A r \in RunIds : r \notin rows => Admission(r)' = Admission(r)
    BY DEF Admission
  <2>2. \A r \in rows : how[r] = Admission(r)'
    BY <1>1
  <2> QED
    BY <2>1, <2>2
<1>5. Lifecycle!Admit(rows, how)
  BY <1>3, <1>4 DEF Lifecycle!Admit
<1> QED
  BY <1>2, <1>5, Zenon DEF Lifecycle!Next

\* A runner is launched for an admitted row that was not discarded.
LEMMA LifeLaunches ==
    ASSUME TypeOK, OverlapInv, LoopInv, NEW p \in Servers, StartRunner(p)
    PROVE  Lifecycle!Next
<1>1. PICK j \in job[p] : StartRunner(p)!2!(j)
  BY DEF StartRunner
<1>2. PICK x \in RunIds : x = j.run
  BY DEF TypeOK, Job
<1>3. UNCHANGED <<run, via>> /\ pc[p] = "start"
  BY DEF StartRunner
<1>4. run[x].status # "deleted" /\ via[x] # "none"
  BY <1>2, <1>3 DEF LoopInv, ClaimInv, OverlapInv, Sent
<1>5. /\ \A r \in RunIds : r # x => starts'[r] = starts[r]
      /\ starts'[x] > 0
  BY <1>1, <1>2 DEF TypeOK
<1>6. {r \in RunIds : starts'[r] > 0} = {r \in RunIds : starts[r] > 0} \cup {x}
  BY <1>5
<1>7. [r \in RunIds |-> Admission(r)'] = [r \in RunIds |-> Admission(r)]
  BY <1>3 DEF Admission
<1>8. Admission(x) # "none"
  BY <1>4 DEF Admission
<1>9. Lifecycle!Launch(x)
  BY <1>3, <1>4, <1>6, <1>7, <1>8 DEF Lifecycle!Launch
<1> QED
  BY <1>9, Zenon DEF Lifecycle!Next

\* The policy's decision admits the row just inserted, or leaves it.
LEMMA LifeDecides ==
    ASSUME TypeOK, TypeOK', OverlapInv, LoopInv, NEW p \in Servers, ApplyPolicy(p)
    PROVE  Lifecycle!Next \/ UNCHANGED Lifecycle!vars
<1>1. PICK d \in cur[p], j \in job[p] : ApplyPolicy(p)!2!(d, j)
  BY DEF ApplyPolicy
<1> DEFINE others == ActiveRuns(d.sched) \ {j.run}
<1>2. PICK x \in RunIds : x = j.run
  BY DEF TypeOK, Job
<1>3. d \in Due /\ run[x].sched = d.sched /\ run[x].status # "none"
  BY <1>2 DEF TypeOK, OverlapInv, Locals, LoopInv, ClaimInv
<1>4. UNCHANGED <<run, starts>> /\ \A r \in RunIds : r # x => via'[r] = via[r]
  BY <1>1, <1>2 DEF ApplyPolicy, TypeOK
<1>5. CASE Decide(d.policy, Cardinality(others)) = "dispatch"
  <2>1. via'[x] = d.policy /\ d.policy \in {"concurrent", "skip", "queue"}
    BY <1>1, <1>2, <1>3, <1>5, PoliciesAssumption DEF TypeOK, Due
  <2>2. d.policy # "concurrent" => others = {}
    <3>1. IsFiniteSet(others)
      <4>1. IsFiniteSet(RunIds)
        BY BoundsAssumption, FS_Interval DEF RunIds
      <4>2. others \subseteq RunIds
        BY DEF ActiveRuns
      <4> QED
        BY <4>1, <4>2, FS_Subset, Zenon
    <3>2. Cardinality(others) = 0 => others = {}
      BY <3>1, FS_EmptySet, Zenon
    <3> HIDE DEF others
    <3> QED
      BY <1>5, <3>2 DEF Decide
  <2>3. via'[x] \in {"skip", "queue"} => OlderActive(x) = {}
    <3>1. others = {} => OlderActive(x) = {}
      BY <1>2, <1>3, RowNumbers DEF OlderActive, ActiveRuns
    <3> QED
      BY <2>1, <2>2, <3>1
  <2>4. {x} \in SUBSET RunIds
    OBVIOUS
  <2> HIDE DEF others
  <2> QED
    BY <1>3, <1>4, <2>1, <2>3, <2>4, LifeAdmits
<1>6. CASE Decide(d.policy, Cardinality(others)) # "dispatch"
  <2>1. \A r \in RunIds : via'[r] = via[r]
    BY <1>1, <1>2, <1>6 DEF TypeOK
  <2> QED
    BY <1>4, <2>1, LifeStutters
<1> QED
  BY <1>5, <1>6

\* The drain loop's query admits the rows it lists.
LEMMA LifeLists ==
    ASSUME TypeOK, TypeOK', NEW p \in Servers, ListPending(p)
    PROVE  Lifecycle!Next
<1>1. PICK rows \in SUBSET RunIds : rows = {r \in RunIds : Dispatchable(r)}
  OBVIOUS
<1>2. UNCHANGED <<run, starts>>
      /\ via' = [r \in RunIds |-> IF r \notin rows THEN via[r]
                                  ELSE IF run[r].fire = Null THEN "manual" ELSE "queue"]
  BY <1>1 DEF ListPending
<1>3. \A r \in rows : /\ run[r].status # "none"
                      /\ via'[r] \in {"manual", "concurrent", "skip", "queue"}
                      /\ via'[r] \in {"skip", "queue"} => OlderActive(r) = {}
  BY <1>1, <1>2 DEF Dispatchable
<1>4. \A r \in RunIds : r \notin rows => via'[r] = via[r]
  BY <1>2
<1> QED
  BY <1>2, <1>3, <1>4, LifeAdmits

\* Every statement of a tick is a step of the life of a run, or none.
LEMMA LifeOfTick ==
    ASSUME TypeOK, TypeOK', OverlapInv, LoopInv, NEW p \in Servers,
           Start(p) \/ Step(p) \/ StepFails(p) \/ Crash(p)
    PROVE  Lifecycle!Next \/ UNCHANGED Lifecycle!vars
<1>0. \A j \in job[p] : j.run \in RunIds
  BY DEF TypeOK, Job
<1>1. CASE Start(p) \/ Sweep(p)
  BY <1>1, LifeExpires DEF Start, Sweep
<1>2. CASE InsertRun(p)
  <2>1. PICK d \in due[p] : InsertRun(p)!2!(d)
    BY <1>2 DEF InsertRun
  <2>2. UNCHANGED <<via, starts>>
    BY <1>2 DEF InsertRun
  <2>3. CASE InsertRun(p)!2!(d)!4!1
    <3>1. UNCHANGED run
      BY <2>1, <2>3
    <3> QED
      BY <2>2, <3>1, LifeStutters
  <2>4. CASE ~InsertRun(p)!2!(d)!4!1
    <3>1. nextId \in RunIds /\ run' = [run EXCEPT ![nextId] = InsertedRow(d.sched, d.fire)]
      BY <2>1, <2>4
    <3>2. d.sched \in Schedules
      BY DEF TypeOK, Due
    <3> QED
      BY <2>2, <3>1, <3>2, LifeInserts
  <2> QED
    BY <2>3, <2>4
<1>3. CASE DeleteSkipped(p)
  <2>1. PICK j \in job[p] :
          run' = [run EXCEPT ![j.run] = [@ EXCEPT !.status = "deleted", !.age = 0]]
    BY <1>3 DEF DeleteSkipped
  <2>2. PICK x \in RunIds : x = j.run
    BY <1>0
  <2>3. run[x].status = "pending" /\ starts[x] = 0
    BY <1>3, <2>2 DEF DeleteSkipped, LoopInv, ClaimInv
  <2>4. run' = [run EXCEPT ![x] = [@ EXCEPT !.status = "deleted", !.age = 0]]
    BY <2>1, <2>2
  <2>5. UNCHANGED <<via, starts>> /\ ~(starts[x] > 0)
    BY <1>3, <2>3 DEF DeleteSkipped
  <2>6. Lifecycle!Discard(x)
    BY <2>3, <2>4, <2>5, LifeWrites
  <2> QED
    BY <2>6, Zenon DEF Lifecycle!Next
<1>4. CASE SignToken(p)
  <2>1. \A r \in RunIds : run'[r].sched = run[r].sched /\ run'[r].status = run[r].status
    BY <1>0, <1>4, HashWrite DEF SignToken
  <2> QED
    BY <1>4, <2>1, LifeStutters DEF SignToken
<1>5. CASE MarkRunning(p)
  <2>1. PICK j \in job[p] : MarkRunning(p)!2!(j)
    BY <1>5 DEF MarkRunning
  <2>2. PICK x \in RunIds : x = j.run
    BY <1>0
  <2>3. CASE run[x].status = "pending"
    <3>1. starts[x] > 0
      BY <1>5, <2>2 DEF MarkRunning, LoopInv, ClaimInv
    <3>2. run' = [run EXCEPT ![x] = [@ EXCEPT !.status = "running", !.age = 0]]
      BY <2>1, <2>2, <2>3
    <3>3. Lifecycle!Begin(x)
      BY <1>5, <2>3, <3>1, <3>2, LifeWrites DEF MarkRunning
    <3> QED
      BY <3>3, Zenon DEF Lifecycle!Next
  <2>4. CASE run[x].status # "pending"
    BY <1>5, <2>1, <2>2, <2>4, LifeStutters DEF MarkRunning
  <2> QED
    BY <2>3, <2>4
<1>6. CASE ListDue(p) \/ AdvanceNextFire(p) \/ TakePending(p) \/ StepFails(p) \/ Crash(p)
  <2>1. UNCHANGED <<run, via, starts>>
    BY <1>6 DEF ListDue, AdvanceNextFire, TakePending, StepFails, Crash
  <2> QED
    BY <2>1, LifeStutters
<1> QED
  BY <1>1, <1>2, <1>3, <1>4, <1>5, <1>6, LifeDecides, LifeLists, LifeLaunches DEF Step

\* So is every step of the requests, the runners and the clock.
LEMMA LifeOfOthers ==
    ASSUME TypeOK, OverlapInv, LoopInv, Requests \/ RunnerStep \/ Clock
    PROVE  Lifecycle!Next \/ UNCHANGED Lifecycle!vars
<1>1. ASSUME NEW s \in Schedules, RunNow(s)
      PROVE  Lifecycle!Next
  BY <1>1, LifeInserts DEF RunNow
<1>2. ASSUME NEW w \in runners, NEW outcome \in Outcomes, FinalizeRun(w, outcome)
      PROVE  Lifecycle!Next \/ UNCHANGED Lifecycle!vars
  <2>1. PICK x \in RunIds : x = w.run
    BY DEF TypeOK, Runner
  <2>2. CASE IsActive(x)
    <3>1. starts[x] > 0
      BY <2>1 DEF LoopInv, TokenInv
    <3>2. run' = [run EXCEPT ![x] = [@ EXCEPT !.status = outcome, !.age = 0]]
      BY <1>2, <2>1, <2>2 DEF FinalizeRun
    <3>3. Lifecycle!Report(x, outcome)
      BY <1>2, <2>2, <3>1, <3>2, LifeWrites DEF FinalizeRun
    <3> QED
      BY <3>3, Zenon DEF Lifecycle!Next
  <2>3. CASE ~IsActive(x)
    BY <1>2, <2>1, <2>3, LifeStutters DEF FinalizeRun
  <2> QED
    BY <2>2, <2>3
<1>3. CASE Clock
  <2>1. \A r \in RunIds : run'[r].sched = run[r].sched /\ run'[r].status = run[r].status
    BY <1>3, ClockWrite
  <2> QED
    BY <1>3, <2>1, LifeStutters DEF Clock
<1>4. CASE UNCHANGED <<run, via, starts>>
  BY <1>4, LifeStutters
<1> QED
  BY <1>1, <1>2, <1>3, <1>4
  DEF Requests, Pause, Resume, UpsertSchedule, RunnerStep, Authenticate, RunnerExits

\* The refinement, step by step: a step of the scheduler is one of RunLifecycle
\* under the mapping, or changes nothing in it.
LEMMA LifecycleStep ==
    TypeOK /\ TypeOK' /\ OverlapInv /\ LoopInv /\ [Next]_vars => [Lifecycle!Next]_(Lifecycle!vars)
<1> SUFFICES ASSUME TypeOK, TypeOK', OverlapInv, LoopInv, [Next]_vars
             PROVE  Lifecycle!Next \/ UNCHANGED Lifecycle!vars
  OBVIOUS
<1>1. CASE UNCHANGED vars
  BY <1>1, LifeStutters DEF vars
<1> QED
  BY <1>1, LifeOfTick, LifeOfOthers DEF Next

\* The refinement: with one serve process, every behaviour of the scheduler,
\* its requests and its runners, with any crashes and failed statements, is a
\* behaviour of RunLifecycle under the mapping of SchedulerLifecycle.
THEOREM LifecycleImplemented ==
    ASSUME OneServer
    PROVE  Spec => ImplementsLifecycle
<1>1. Init => Lifecycle!Init
  <2> SUFFICES ASSUME Init PROVE Lifecycle!Init
    OBVIOUS
  <2>1. NoRow.sched \in Schedules /\ NoRow.status = "none"
    BY SchedulesAssumption DEF NoRow
  <2> QED
    BY <2>1 DEF Init, Lifecycle!Init, Admission
<1> QED
  BY <1>1, LifecycleStep, LoopInvariant, PTL DEF Spec, ImplementsLifecycle, Lifecycle!Spec

\* What RunLifecycle promises of outcomes holds of the table: with one serve
\* process, a row of table run that has ended (finalize, sweep, skip) keeps its
\* status through every later statement, request, runner's report and fault.
THEOREM OutcomesStay ==
    ASSUME OneServer
    PROVE  Spec => Lifecycle!OutcomesAreFinal
<1>1. ASSUME Lifecycle!Next PROVE Lifecycle!OutcomeIsFinal
  <2> DEFINE status == [r \in RunIds |-> run[r].status]
             Kept == \A r \in RunIds : status[r] \notin Lifecycle!Active \cup {"none"} => status'[r] = status[r]
  <2>0. \A r \in RunIds : r \in Int
    BY BoundsAssumption DEF RunIds
  <2>1. Kept => Lifecycle!OutcomeIsFinal
    BY DEF Lifecycle!OutcomeIsFinal
  <2>2. ASSUME NEW r \in RunIds, NEW s \in Schedules, Lifecycle!Insert(r, s) PROVE Kept
    <3>1. r >= r
      BY <2>0
    <3>2. status[r] = "none" /\ status' = [status EXCEPT ![r] = "pending"]
      BY <2>2, <3>1 DEF Lifecycle!Insert, Lifecycle!Exists
    <3> HIDE DEF status
    <3> QED
      BY <3>2
  <2>3. ASSUME NEW r \in RunIds, Lifecycle!Launch(r) PROVE Kept
    <3>1. status' = status
      BY <2>3 DEF Lifecycle!Launch
    <3> QED
      BY <3>1
  <2>4. ASSUME NEW r \in RunIds, NEW st, Lifecycle!Begin(r) \/ Lifecycle!Discard(r) \/ Lifecycle!Report(r, st) PROVE Kept
    <3>1. status[r] \in Lifecycle!Active /\ \E x : status' = [status EXCEPT ![r] = x]
      BY <2>4 DEF Lifecycle!Begin, Lifecycle!Discard, Lifecycle!Report, Lifecycle!Active
    <3> HIDE DEF status
    <3> QED
      BY <3>1
  <2>5. ASSUME NEW rows \in SUBSET RunIds, Lifecycle!Expire(rows) PROVE Kept
    BY <2>5 DEF Lifecycle!Expire
  <2>6. ASSUME NEW rows \in SUBSET RunIds, NEW how, Lifecycle!Admit(rows, how) PROVE Kept
    <3>1. status' = status
      BY <2>6 DEF Lifecycle!Admit
    <3> QED
      BY <3>1
  <2> HIDE DEF Kept
  <2> QED
    BY <1>1, <2>1, <2>2, <2>3, <2>4, <2>5, <2>6 DEF Lifecycle!Next
<1>2. [Lifecycle!Next]_(Lifecycle!vars) => [Lifecycle!OutcomeIsFinal]_(Lifecycle!vars)
  BY <1>1
<1> QED
  BY <1>2, LifecycleStep, LoopInvariant, PTL DEF Spec, Lifecycle!OutcomesAreFinal

\* With one serve process no runner was started for a row the skip policy has
\* deleted, and none will be (tick.go, DeleteSkipped).
THEOREM SkippedRowsNeverRan ==
    ASSUME OneServer
    PROVE  Spec => []Lifecycle!DiscardedUnlaunched
<1>1. TypeOK /\ LoopInv => Lifecycle!DiscardedUnlaunched
  BY DEF LoopInv, RowInv, TypeOK, Lifecycle!DiscardedUnlaunched
<1> QED
  BY <1>1, LoopInvariant, PTL
=============================================================================
