--------------------------- MODULE AutoPauseProofs ---------------------------
(***************************************************************************)
(* Theorems about AutoPause, for every number of runs, every threshold and *)
(* every value of the bounds.                                              *)
(***************************************************************************)
EXTENDS AutoPause, FiniteSetTheorems, TLAPS

-----------------------------------------------------------------------------
(* The newest n elements of a set of naturals, which is what the query of   *)
(* recent outcomes (ORDER BY created_at DESC LIMIT n) returns of its rows.  *)

After(S, r) == {q \in S : q > r}
Newest(S, n) == {r \in S : Cardinality(After(S, r)) < n}

\* The query returns the newest terminal scheduled rows.
LEMMA RecentIsNewest ==
    ASSUME NEW since, NEW n
    PROVE  Recent(since, n) = Newest(TerminalScheduled(since), n)
BY DEF Recent, Newest, After

\* A nonempty finite set of naturals has a least element.
LEMMA Least ==
    ASSUME NEW S, \A s \in S : s \in Nat, IsFiniteSet(S), S # {}
    PROVE  \E m \in S : \A r \in S : m <= r
<1> DEFINE Older(x) == {y \in S : y < x}
           Family == {Older(x) : x \in S}
<1>1. Family \subseteq FiniteSubsetsOf(S)
  BY FS_FiniteSubsetsOfFinite
<1>2. Family # {}
  OBVIOUS
<1>3. PICK F \in Family : \A G \in Family : ~(<<G, F>> \in StrictSubsetOrdering(S))
  BY <1>1, <1>2, WFMin, FS_StrictSubsetOrderingWellFounded, Zenon
<1>4. PICK m \in S : F = Older(m)
  BY <1>3, Zenon
<1>5. SUFFICES ASSUME NEW r \in S, r < m PROVE FALSE
  BY <1>4
<1>6. /\ Older(r) \subseteq Older(m) /\ Older(r) # Older(m)
      /\ Older(r) \subseteq S /\ Older(m) \subseteq S
  BY <1>5
<1>7. <<Older(r), F>> \in StrictSubsetOrdering(S)
  BY <1>4, <1>6 DEF StrictSubsetOrdering
<1> QED
  BY <1>3, <1>7, Zenon

\* What is newer than an element is finite and shrinks upwards.
LEMMA AfterShrinks ==
    ASSUME NEW S, \A s \in S : s \in Nat, IsFiniteSet(S), NEW r \in Nat, NEW q \in Nat, r <= q
    PROVE  /\ IsFiniteSet(After(S, r)) /\ IsFiniteSet(After(S, q))
           /\ Cardinality(After(S, r)) \in Nat /\ Cardinality(After(S, q)) \in Nat
           /\ Cardinality(After(S, q)) <= Cardinality(After(S, r))
<1>1. After(S, r) \subseteq S /\ After(S, q) \subseteq After(S, r)
  BY DEF After
<1>2. IsFiniteSet(After(S, r))
  BY <1>1, FS_Subset, Zenon
<1>3. IsFiniteSet(After(S, q)) /\ Cardinality(After(S, q)) <= Cardinality(After(S, r))
  BY <1>1, <1>2, FS_Subset, Zenon
<1> QED
  BY <1>2, <1>3, FS_CardinalityType, Zenon

\* With an element, everything newer is among the newest.
LEMMA NewestIsUpward ==
    ASSUME NEW S, \A s \in S : s \in Nat, IsFiniteSet(S), NEW n \in Nat,
           NEW r \in Newest(S, n), NEW q \in S, r <= q
    PROVE  q \in Newest(S, n)
<1>1. r \in Nat /\ q \in Nat /\ Cardinality(After(S, r)) < n
  BY DEF Newest
<1>2. /\ Cardinality(After(S, q)) \in Nat /\ Cardinality(After(S, r)) \in Nat
      /\ Cardinality(After(S, q)) <= Cardinality(After(S, r))
  BY <1>1, AfterShrinks, Zenon
<1> QED
  BY <1>1, <1>2 DEF Newest

\* LIMIT n returns at most n rows.
LEMMA NewestLimit ==
    ASSUME NEW S, \A s \in S : s \in Nat, IsFiniteSet(S), NEW n \in Nat
    PROVE  /\ IsFiniteSet(Newest(S, n))
           /\ Cardinality(Newest(S, n)) \in Nat
           /\ Cardinality(Newest(S, n)) <= n
<1> DEFINE N == Newest(S, n)
<1>1. N \subseteq S /\ \A s \in N : s \in Nat
  BY DEF Newest
<1>2. IsFiniteSet(N) /\ Cardinality(N) \in Nat
  BY <1>1, FS_Subset, FS_CardinalityType, Zenon
<1>3. CASE N = {}
  BY <1>3, <1>2, FS_EmptySet
<1>4. CASE N # {}
  <2>1. PICK m \in N : \A r \in N : m <= r
    BY <1>1, <1>2, <1>4, Least, Zenon
  <2>2. m \in Nat /\ m \in S /\ Cardinality(After(S, m)) < n
    BY <2>1, <1>1 DEF Newest
  <2>3. /\ N \ {m} \subseteq After(S, m)
    BY <2>1, <1>1 DEF After
  <2>4. IsFiniteSet(After(S, m)) /\ Cardinality(After(S, m)) \in Nat
    <3>1. m <= m
      BY <2>2
    <3> QED
      BY <2>2, <3>1, AfterShrinks, Zenon
  <2>5. Cardinality(N \ {m}) <= Cardinality(After(S, m))
    BY <2>3, <2>4, FS_Subset, Zenon
  <2>6. Cardinality(N \ {m}) = Cardinality(N) - 1
    BY <1>2, <2>1, FS_RemoveElement
  <2> QED
    BY <1>2, <2>2, <2>4, <2>5, <2>6
<1> QED
  BY <1>2, <1>3, <1>4

\* A row that is too old to be among the newest changes nothing.
LEMMA NewestAdd ==
    ASSUME NEW S, \A s \in S : s \in Nat, IsFiniteSet(S), NEW n \in Nat,
           NEW x \in Nat, x \notin Newest(S \cup {x}, n)
    PROVE  Newest(S \cup {x}, n) = Newest(S, n)
<1> DEFINE T == S \cup {x}
<1>1. (\A s \in T : s \in Nat) /\ IsFiniteSet(T)
  BY FS_AddElement
<1>2. After(T, x) = After(S, x)
  BY DEF After
<1>3. ~(Cardinality(After(S, x)) < n)
  BY <1>2 DEF Newest
<1>4. \A r \in S : r >= x => After(T, r) = After(S, r)
  BY DEF After
<1>5. ASSUME NEW r \in S, r < x
      PROVE  ~(Cardinality(After(S, r)) < n) /\ ~(Cardinality(After(T, r)) < n)
  <2>1. Cardinality(After(S, x)) <= Cardinality(After(S, r))
    BY <1>5, AfterShrinks
  <2>2. Cardinality(After(T, x)) <= Cardinality(After(T, r))
    BY <1>5, <1>1, AfterShrinks
  <2>3. /\ Cardinality(After(S, r)) \in Nat /\ Cardinality(After(T, r)) \in Nat
        /\ Cardinality(After(S, x)) \in Nat
    BY <1>1, AfterShrinks
  <2> QED
    BY <1>2, <1>3, <2>1, <2>2, <2>3
<1>6. \A r \in S : Cardinality(After(T, r)) < n <=> Cardinality(After(S, r)) < n
  BY <1>4, <1>5
<1> QED
  BY <1>6 DEF Newest

\* The rows the query looks at are finitely many naturals.
LEMMA TerminalScheduledType ==
    ASSUME NEW since
    PROVE  /\ \A s \in TerminalScheduled(since) : s \in Nat
           /\ IsFiniteSet(TerminalScheduled(since))
<1>1. TerminalScheduled(since) \subseteq 1..MaxRuns
  BY DEF TerminalScheduled, RunIds
<1>2. IsFiniteSet(1..MaxRuns)
  BY AutoPauseAssumption, FS_Interval
<1>3. \A s \in TerminalScheduled(since) : s \in Nat
  BY <1>1
<1> QED
  BY <1>1, <1>2, <1>3, FS_Subset, Zenon

\* The bounds are naturals.
LEMMA BoundsAreNaturals ==
    /\ MaxRuns \in Nat /\ MaxToggles \in Nat /\ MaxSyncs \in Nat
    /\ MaxSweeps \in Nat /\ MaxLost \in Nat
BY AutoPauseAssumption

\* A threshold is positive.
LEMMA ThresholdType ==
    ASSUME NEW a \in Afters
    PROVE  Threshold(a) \in Nat \ {0}
BY AutoPauseAssumption DEF Threshold
-----------------------------------------------------------------------------
(* The invariants.                                                          *)

\* Rows that are not there yet have no outcome, the window never starts after
\* the next row, and only a scheduled run that failed is being evaluated, with
\* a threshold that was configured: the one that still is, if no sync came.
RowsInv ==
    /\ TypeOK
    /\ lastEnabled <= nextId
    /\ \A r \in RunIds : r >= nextId => run[r].status = "none"
    /\ \A r \in RunIds : eval[r].step # "none" =>
           run[r].reason = "schedule" /\ run[r].status = "failed"
    /\ \A r \in RunIds : eval[r].step = "recent" =>
           \E a \in Afters : eval[r].after = Threshold(a) /\ (syncs = 0 => a = after)

\* What an evaluation of run r may pause the schedule on.
Evidence(r, rows) ==
    /\ \A q \in rows : run[q].reason = "schedule" /\ run[q].status = "failed"
    /\ r \in rows \/ \E q \in rows : q > r
    /\ \E a \in Afters : Cardinality(rows) = Threshold(a)

\* Evaluations about to pause, and the pauses recorded, rest on evidence.
EvidenceInv ==
    /\ \A r \in RunIds : eval[r].step = "pause" => Evidence(r, eval[r].seen)
    /\ PausedOnFailures

\* An enabled schedule has not been paused in the current period, and no
\* period has been paused twice.
PeriodInv ==
    /\ \A x \in audit : x.period <= periods
    /\ enabled => \A x \in audit : x.period < periods
    /\ OneAuditPerPeriod

\* A row with a new status.
LEMMA RowUpdate ==
    ASSUME NEW x \in RunRow, NEW status \in Terminal
    PROVE  /\ [x EXCEPT !.status = status] \in RunRow
           /\ [x EXCEPT !.status = status].status = status
           /\ [x EXCEPT !.status = status].reason = x.reason
BY DEF RunRow

\* An evaluation that is over.
LEMMA IdleType == Idle \in Evaluation /\ Idle.step = "none"
BY DEF Idle, Evaluation

\* An evaluation after GetConfig.
LEMMA ConfigUpdate ==
    ASSUME NEW e \in Evaluation, NEW a \in Nat, NEW s \in Nat
    PROVE  /\ [e EXCEPT !.step = "recent", !.after = a, !.since = s] \in Evaluation
           /\ [e EXCEPT !.step = "recent", !.after = a, !.since = s].after = a
           /\ [e EXCEPT !.step = "recent", !.after = a, !.since = s].since = s
           /\ [e EXCEPT !.step = "recent", !.after = a, !.since = s].step = "recent"
BY DEF Evaluation

\* An evaluation that found a streak.
LEMMA SeenUpdate ==
    ASSUME NEW e \in Evaluation, NEW rows \in SUBSET RunIds
    PROVE  /\ [e EXCEPT !.step = "pause", !.seen = rows] \in Evaluation
           /\ [e EXCEPT !.step = "pause", !.seen = rows].step = "pause"
           /\ [e EXCEPT !.step = "pause", !.seen = rows].seen = rows
BY DEF Evaluation

\* What the query of recent outcomes makes of the evaluation that asks.
LEMMA ListRecentStep ==
    ASSUME TypeOK, NEW r \in RunIds, ListRecent(r)
    PROVE  LET rows == Recent(eval[r].since, eval[r].after)
               streak == Cardinality(rows) >= eval[r].after /\ AllFailed(rows)
           IN  /\ rows \in SUBSET RunIds
               /\ eval' \in [RunIds -> Evaluation]
               /\ \A q \in RunIds : q # r => eval'[q] = eval[q]
               /\ streak => eval'[r].step = "pause" /\ eval'[r].seen = rows
               /\ ~streak => eval'[r] = Idle
<1> DEFINE rows == Recent(eval[r].since, eval[r].after)
           streak == Cardinality(rows) >= eval[r].after /\ AllFailed(rows)
           found == [eval[r] EXCEPT !.step = "pause", !.seen = rows]
<1>1. rows \in SUBSET RunIds
  BY DEF Recent, TerminalScheduled
<1>2. eval' = [eval EXCEPT ![r] = IF streak THEN found ELSE Idle]
  BY DEF ListRecent
<1>3. eval \in [RunIds -> Evaluation]
  BY DEF TypeOK
<1> HIDE DEF rows, streak
<1>4. found \in Evaluation /\ found.step = "pause" /\ found.seen = rows
  BY <1>1, <1>3, SeenUpdate
<1> HIDE DEF found
<1>5. /\ eval' \in [RunIds -> Evaluation]
      /\ \A q \in RunIds : q # r => eval'[q] = eval[q]
      /\ eval'[r] = IF streak THEN found ELSE Idle
  BY <1>2, <1>3, <1>4, IdleType
<1>6. /\ streak => eval'[r].step = "pause" /\ eval'[r].seen = rows
      /\ ~streak => eval'[r] = Idle
  BY <1>4, <1>5
<1> QED
  BY <1>1, <1>5, <1>6 DEF rows, streak

\* The four invariants hold initially.
LEMMA InitInv == Init => RowsInv /\ EvidenceInv /\ PeriodInv /\ StreakIsBeingEvaluated
<1> SUFFICES ASSUME Init PROVE RowsInv /\ EvidenceInv /\ PeriodInv /\ StreakIsBeingEvaluated
  OBVIOUS
<1>1. TypeOK
  <2>1. run \in [RunIds -> RunRow] /\ eval \in [RunIds -> Evaluation]
    BY IdleType DEF Init, RunRow
  <2>2. enabled \in BOOLEAN /\ autoPaused \in BOOLEAN /\ after \in Afters
    BY DEF Init
  <2>3. /\ nextId \in 1..(MaxRuns + 1) /\ lastEnabled \in 1..(MaxRuns + 1)
        /\ periods \in Nat
        /\ toggles \in 0..MaxToggles /\ syncs \in 0..MaxSyncs
        /\ sweeps \in 0..MaxSweeps /\ lost \in 0..MaxLost
    BY BoundsAreNaturals DEF Init
  <2>4. audit = {}
    BY DEF Init
  <2> QED
    BY <2>1, <2>2, <2>3, <2>4 DEF TypeOK
<1>2. RowsInv
  BY <1>1 DEF Init, RowsInv, Idle, RunIds
<1>3. EvidenceInv /\ PeriodInv
  BY DEF Init, EvidenceInv, PeriodInv, PausedOnFailures, OneAuditPerPeriod, Idle
<1>4. ~Streak
  <2>1. Recent(lastEnabled, Threshold(after)) = {}
    BY DEF Init, Recent, TerminalScheduled, Terminal
  <2>2. after \in Afters
    BY DEF Init
  <2> QED
    BY <2>1, <2>2, ThresholdType, FS_EmptySet DEF Streak
<1> QED
  BY <1>2, <1>3, <1>4 DEF StreakIsBeingEvaluated

\* Every step leaves the rows and the evaluations well formed.
LEMMA NextRows ==
    ASSUME RowsInv, [Next]_vars
    PROVE  RowsInv'
<1> USE BoundsAreNaturals DEF RowsInv, TypeOK, schedule, bounds
<1>1. CASE UNCHANGED vars
  BY <1>1 DEF vars
<1>2. ASSUME NEW reason \in {"schedule", "manual"}, Create(reason)
      PROVE  RowsInv'
  <2>1. run' \in [RunIds -> RunRow]
    BY <1>2 DEF Create, RunRow
  <2>2. nextId' \in 1..(MaxRuns + 1) /\ lastEnabled' <= nextId'
    BY <1>2 DEF Create, RunIds
  <2>3. \A q \in RunIds : q # nextId => run'[q] = run[q]
    BY <1>2 DEF Create
  <2>4. \A q \in RunIds : q >= nextId' => run'[q].status = "none"
    BY <1>2, <2>3 DEF Create, RunIds
  <2>5. \A q \in RunIds : eval[q].step # "none" => q # nextId
    BY <1>2
  <2> QED
    BY <1>2, <2>1, <2>2, <2>3, <2>4, <2>5 DEF Create
<1>3. ASSUME NEW r \in RunIds, NEW status \in Terminal, Finalize(r, status)
      PROVE  RowsInv'
  <2>1. run' = [run EXCEPT ![r] = [run[r] EXCEPT !.status = status]]
    BY <1>3 DEF Finalize
  <2>2. run' \in [RunIds -> RunRow]
    BY <2>1, RowUpdate
  <2>3. PICK step \in {"config", "none"} :
            /\ eval' = [eval EXCEPT ![r] = [eval[r] EXCEPT !.step = step]]
            /\ step = "config" => run[r].reason = "schedule" /\ status = "failed"
    BY <1>3 DEF Finalize
  <2>4. [eval[r] EXCEPT !.step = step] \in Evaluation
    BY DEF Evaluation
  <2>5. eval' \in [RunIds -> Evaluation] /\ eval'[r].step = step
    BY <2>3, <2>4 DEF Evaluation
  <2>6. \A q \in RunIds : q # r => run'[q] = run[q] /\ eval'[q] = eval[q]
    BY <2>1, <2>3
  <2>7. run'[r].status = status /\ run'[r].reason = run[r].reason
    <3>1. run'[r] = [run[r] EXCEPT !.status = status]
      BY <2>1
    <3> QED
      BY <3>1 DEF RunRow
  <2>8. ~(r >= nextId)
    BY <1>3 DEF Finalize
  <2> QED
    BY <1>3, <2>2, <2>3, <2>5, <2>6, <2>7, <2>8 DEF Finalize
<1>4. ASSUME NEW r \in RunIds, Sweep(r) PROVE RowsInv'
  <2>1. run' = [run EXCEPT ![r] = [run[r] EXCEPT !.status = "failed"]]
    BY <1>4 DEF Sweep
  <2>2. run' \in [RunIds -> RunRow]
    BY <2>1, RowUpdate DEF Terminal
  <2>3. \A q \in RunIds : q # r => run'[q] = run[q]
    BY <2>1
  <2>4. ~(r >= nextId) /\ eval[r].step = "none"
    BY <1>4 DEF Sweep
  <2> QED
    BY <1>4, <2>2, <2>3, <2>4 DEF Sweep
<1>5. ASSUME NEW r \in RunIds, GetConfig(r) PROVE RowsInv'
  <2>1. Threshold(after) \in Nat /\ lastEnabled \in Nat
    BY ThresholdType
  <2>2. [eval[r] EXCEPT !.step = "recent", !.after = Threshold(after),
                        !.since = lastEnabled] \in Evaluation
    BY <2>1, ConfigUpdate
  <2>3. eval' \in [RunIds -> Evaluation]
    BY <1>5, <2>2 DEF GetConfig
  <2>4. eval'[r].after = Threshold(after) /\ \A q \in RunIds : q # r => eval'[q] = eval[q]
    BY <1>5, <2>3 DEF GetConfig, Evaluation
  <2> QED
    BY <1>5, <2>3, <2>4 DEF GetConfig
<1>6. ASSUME NEW r \in RunIds, ListRecent(r) PROVE RowsInv'
  <2>1. /\ eval' \in [RunIds -> Evaluation]
        /\ \A q \in RunIds : q # r => eval'[q] = eval[q]
        /\ eval'[r].step \in {"none", "pause"}
    BY <1>6, ListRecentStep, IdleType
  <2> QED
    BY <1>6, <2>1 DEF ListRecent
<1>7. ASSUME NEW r \in RunIds, AutoPauseSchedule(r) PROVE RowsInv'
  <2>1. [run |-> r, seen |-> eval[r].seen, period |-> periods]
            \in [run : RunIds, seen : SUBSET RunIds, period : Nat]
    BY DEF Evaluation
  <2>2. audit' \subseteq [run : RunIds, seen : SUBSET RunIds, period : Nat]
    BY <1>7, <2>1 DEF AutoPauseSchedule
  <2>3. eval' \in [RunIds -> Evaluation]
    BY <1>7, IdleType DEF AutoPauseSchedule
  <2>4. eval'[r] = Idle /\ \A q \in RunIds : q # r => eval'[q] = eval[q]
    BY <1>7 DEF AutoPauseSchedule
  <2> QED
    BY <1>7, <2>2, <2>3, <2>4 DEF AutoPauseSchedule, Idle
<1>8. ASSUME NEW r \in RunIds, EvaluationLost(r) PROVE RowsInv'
  <2>1. eval' \in [RunIds -> Evaluation]
    BY <1>8, IdleType DEF EvaluationLost
  <2>2. eval'[r] = Idle /\ \A q \in RunIds : q # r => eval'[q] = eval[q]
    BY <1>8 DEF EvaluationLost
  <2> QED
    BY <1>8, <2>1, <2>2 DEF EvaluationLost, Idle
<1>9. ASSUME NEW on \in BOOLEAN, SetScheduleEnabled(on) PROVE RowsInv'
  <2>1. /\ enabled' \in BOOLEAN /\ autoPaused' \in BOOLEAN
        /\ lastEnabled' \in {lastEnabled, nextId} /\ periods' \in {periods, periods + 1}
    BY <1>9, Zenon DEF SetScheduleEnabled
  <2>2. toggles' \in 0..MaxToggles
    BY <1>9 DEF SetScheduleEnabled
  <2>3. lastEnabled' \in 1..(MaxRuns + 1) /\ periods' \in Nat /\ lastEnabled' <= nextId
    BY <2>1
  <2> QED
    BY <1>9, <2>1, <2>2, <2>3 DEF SetScheduleEnabled
<1>10. ASSUME NEW a \in Afters, UpsertSchedule(a) PROVE RowsInv'
  BY <1>10 DEF UpsertSchedule
<1> QED
  BY <1>1, <1>2, <1>3, <1>4, <1>5, <1>6, <1>7, <1>8, <1>9, <1>10 DEF Next, Evaluate


-----------------------------------------------------------------------------
(* A pause rests on evidence.                                               *)

\* The outcome of a run is final: Create writes an unused row, Finalize and
\* the sweep match running rows only.
LEMMA FailedStays ==
    ASSUME RowsInv, [Next]_vars, NEW q \in RunIds,
           run[q].reason = "schedule", run[q].status = "failed"
    PROVE  run'[q] = run[q]
<1> USE DEF RowsInv, TypeOK
<1>1. ASSUME NEW reason \in {"schedule", "manual"}, Create(reason)
      PROVE  run'[q] = run[q]
  BY <1>1 DEF Create
<1>2. ASSUME NEW r \in RunIds, NEW status \in Terminal, Finalize(r, status)
      PROVE  run'[q] = run[q]
  BY <1>2 DEF Finalize
<1>3. ASSUME NEW r \in RunIds, Sweep(r) PROVE run'[q] = run[q]
  BY <1>3 DEF Sweep
<1> QED
  BY <1>1, <1>2, <1>3
  DEF Next, Evaluate, vars, GetConfig, ListRecent, AutoPauseSchedule, EvaluationLost,
      SetScheduleEnabled, UpsertSchedule

\* So evidence stays evidence.
LEMMA EvidenceStays ==
    ASSUME RowsInv, [Next]_vars, NEW r, NEW rows \in SUBSET RunIds, Evidence(r, rows)
    PROVE  Evidence(r, rows)'
<1>1. \A q \in rows : run'[q] = run[q]
  BY FailedStays DEF Evidence
<1> QED
  BY <1>1 DEF Evidence

\* The query returns exactly as many rows as it was asked for when it returns
\* enough, all failed, and the run that asks is one of them or older than one:
\* its own outcome was committed before.
LEMMA RecentIsEvidence ==
    ASSUME RowsInv, NEW r \in RunIds, ListRecent(r), eval'[r].step = "pause"
    PROVE  Evidence(r, eval'[r].seen)
<1> DEFINE T == TerminalScheduled(eval[r].since)
           n == eval[r].after
           rows == Recent(eval[r].since, n)
<1>1. eval[r].step = "recent" /\ TypeOK
  BY DEF ListRecent, RowsInv
<1>2. /\ rows \in SUBSET RunIds /\ eval'[r].seen = rows
      /\ Cardinality(rows) >= n /\ AllFailed(rows)
  BY <1>1, ListRecentStep, IdleType
<1>3. PICK a \in Afters : n = Threshold(a)
  BY <1>1 DEF RowsInv
<1>4. n \in Nat \ {0}
  BY <1>3, ThresholdType
<1>5. rows = Newest(T, n)
  BY RecentIsNewest
<1>6. (\A s \in T : s \in Nat) /\ IsFiniteSet(T)
  BY TerminalScheduledType
<1>7. \A q \in rows : run[q].reason = "schedule" /\ run[q].status = "failed"
  <2>1. \A q \in rows : q \in T
    BY <1>5 DEF Newest
  <2> QED
    BY <1>2, <2>1 DEF TerminalScheduled, AllFailed
<1>8. run[r].reason = "schedule" /\ run[r].status = "failed"
  BY <1>1 DEF RowsInv
<1> HIDE DEF T, n, rows
<1>9. Cardinality(rows) = n
  <2>1. Cardinality(rows) \in Nat /\ Cardinality(rows) <= n
    BY <1>4, <1>5, <1>6, NewestLimit
  <2> QED
    BY <1>2, <1>4, <2>1
<1>10. PICK q \in rows : TRUE
  BY <1>4, <1>9, FS_EmptySet
<1>11. r \in rows \/ \E x \in rows : x > r
  <2>1. q \in T /\ q \in Nat
    BY <1>5, <1>6, <1>10 DEF Newest
  <2>2. CASE q > r
    BY <1>10, <2>2
  <2>3. CASE q <= r
    <3>1. r \in Nat /\ eval[r].since \in Nat
      BY <1>1 DEF RunIds, TypeOK, Evaluation
    <3>2. q >= eval[r].since
      BY <2>1 DEF T, TerminalScheduled
    <3>3. r \in T
      BY <1>8, <2>1, <2>3, <3>1, <3>2 DEF T, TerminalScheduled, Terminal
    <3> QED
      BY <1>4, <1>5, <1>6, <1>10, <2>3, <3>3, NewestIsUpward
  <2> QED
    BY <2>1, <2>2, <2>3 DEF RunIds
<1> QED
  BY <1>2, <1>3, <1>7, <1>9, <1>11 DEF Evidence

\* Every step keeps the evidence of the pauses, made and about to be made.
LEMMA NextEvidence ==
    ASSUME RowsInv, EvidenceInv, [Next]_vars
    PROVE  EvidenceInv'
<1>1. TypeOK /\ TypeOK'
  BY NextRows DEF RowsInv
<1>2. ASSUME NEW x \in audit
      PROVE  Evidence(x.run, x.seen)'
  <2>1. Evidence(x.run, x.seen)
    BY <1>2 DEF EvidenceInv, PausedOnFailures, Evidence
  <2>2. x.seen \in SUBSET RunIds
    BY <1>1 DEF TypeOK
  <2> QED
    BY <2>1, <2>2, EvidenceStays
<1>3. ASSUME NEW r \in RunIds, eval'[r] = eval[r], eval[r].step = "pause"
      PROVE  Evidence(r, eval[r].seen)'
  <2>1. Evidence(r, eval[r].seen)
    BY <1>3 DEF EvidenceInv
  <2>2. eval[r].seen \in SUBSET RunIds
    BY <1>1 DEF TypeOK, Evaluation
  <2> QED
    BY <1>3, <2>1, <2>2, EvidenceStays
<1>4. ASSUME NEW r \in RunIds, eval'[r] # eval[r], eval'[r].step = "pause"
      PROVE  ListRecent(r)
  <2> USE <1>1, <1>4 DEF TypeOK
  <2>1. ASSUME NEW q \in RunIds, NEW status \in Terminal, Finalize(q, status)
        PROVE  FALSE
    BY <2>1 DEF Finalize, Evaluation
  <2>2. ASSUME NEW q \in RunIds, GetConfig(q) PROVE FALSE
    BY <2>2 DEF GetConfig, Evaluation
  <2>3. ASSUME NEW q \in RunIds, ListRecent(q) PROVE q = r
    BY <2>3 DEF ListRecent
  <2>4. ASSUME NEW q \in RunIds, AutoPauseSchedule(q) \/ EvaluationLost(q) PROVE FALSE
    BY <2>4, IdleType DEF AutoPauseSchedule, EvaluationLost
  <2> QED
    BY <2>1, <2>2, <2>3, <2>4
    DEF Next, Evaluate, vars, Create, Sweep, SetScheduleEnabled, UpsertSchedule
<1>5. ASSUME NEW r \in RunIds, eval'[r].step = "pause"
      PROVE  Evidence(r, eval[r].seen)'
  <2>1. CASE eval'[r] = eval[r]
    BY <1>3, <1>5, <2>1
  <2>2. CASE eval'[r] # eval[r]
    <3>1. ListRecent(r)
      BY <1>4, <1>5, <2>2
    <3>2. Evidence(r, eval'[r].seen) /\ run' = run
      BY <1>5, <3>1, RecentIsEvidence DEF ListRecent
    <3> QED
      BY <3>2 DEF Evidence
  <2> QED
    BY <2>1, <2>2
<1>6. ASSUME NEW x \in audit', x \notin audit
      PROVE  Evidence(x.run, x.seen)'
  <2>1. PICK r \in RunIds : AutoPauseSchedule(r)
    BY <1>6 DEF Next, Evaluate, vars, Create, Finalize, Sweep, GetConfig, ListRecent,
                EvaluationLost, SetScheduleEnabled, UpsertSchedule
  <2>2. x = [run |-> r, seen |-> eval[r].seen, period |-> periods] /\ eval[r].step = "pause"
    BY <1>6, <2>1 DEF AutoPauseSchedule
  <2>3. Evidence(r, eval[r].seen) /\ run' = run
    BY <2>1, <2>2 DEF EvidenceInv, AutoPauseSchedule
  <2>4. Evidence(x.run, x.seen)
    BY <2>2, <2>3
  <2> QED
    BY <2>3, <2>4 DEF Evidence
<1>7. PausedOnFailures'
  BY <1>2, <1>6 DEF PausedOnFailures, Evidence
<1> QED
  BY <1>5, <1>7 DEF EvidenceInv

-----------------------------------------------------------------------------
(* One pause for each period.                                               *)

\* Only AutoPauseSchedule records a pause, and it disables the schedule; only
\* a step that begins a new period enables it.
LEMMA NextPeriod ==
    ASSUME TypeOK, PeriodInv, [Next]_vars
    PROVE  PeriodInv'
<1> USE DEF PeriodInv, OneAuditPerPeriod
<1>1. \A x \in audit : x.period \in Nat /\ periods \in Nat
  BY DEF TypeOK
<1>2. ASSUME NEW r \in RunIds, AutoPauseSchedule(r) PROVE PeriodInv'
  <2>1. CASE ~enabled
    BY <1>2, <2>1 DEF AutoPauseSchedule
  <2>2. CASE enabled
    <3> DEFINE new == [run |-> r, seen |-> eval[r].seen, period |-> periods]
    <3>1. audit' = audit \cup {new} /\ ~enabled' /\ periods' = periods
      BY <1>2, <2>2 DEF AutoPauseSchedule
    <3>2. new.period = periods /\ \A x \in audit : x.period < periods
      BY <2>2
    <3> HIDE DEF new
    <3>3. \A x \in audit' : x.period <= periods
      BY <1>1, <3>1, <3>2 DEF TypeOK
    <3>4. \A x, y \in audit' : x.period = y.period => x = y
      BY <1>1, <3>1, <3>2
    <3> QED
      BY <3>1, <3>3, <3>4
  <2> QED
    BY <2>1, <2>2
<1>3. ASSUME NEW on \in BOOLEAN, SetScheduleEnabled(on) PROVE PeriodInv'
  <2>1. audit' = audit
    BY <1>3 DEF SetScheduleEnabled
  <2>2. \/ enabled' = enabled /\ periods' = periods
        \/ ~enabled' /\ periods' = periods
        \/ periods' = periods + 1
    BY <1>3, Zenon DEF SetScheduleEnabled
  <2> QED
    BY <1>1, <2>1, <2>2
<1>4. ASSUME NEW a \in Afters, UpsertSchedule(a) PROVE PeriodInv'
  BY <1>1, <1>4 DEF UpsertSchedule
<1>5. CASE UNCHANGED <<enabled, audit, periods>>
  BY <1>5
<1> QED
  BY <1>2, <1>3, <1>4, <1>5
  DEF Next, Evaluate, vars, schedule, Create, Finalize, Sweep, GetConfig, ListRecent,
      EvaluationLost

-----------------------------------------------------------------------------
(* No streak is missed.                                                     *)

\* The evaluation of run r will find a streak there is.
Evaluating(r) ==
    /\ r >= lastEnabled
    /\ \/ eval[r].step = "config"
       \/ eval[r].step = "recent" /\ eval[r].since = lastEnabled
       \/ eval[r].step = "pause"

\* A finalize makes a streak only with the failure it then evaluates: an
\* outcome of another kind breaks the streak, or is too old to matter.
LEMMA FinalizeStreak ==
    ASSUME RowsInv, NEW r \in RunIds, NEW status \in Terminal, Finalize(r, status),
           ~(run[r].reason = "schedule" /\ status = "failed" /\ r >= lastEnabled),
           Streak'
    PROVE  Streak
<1> DEFINE T == TerminalScheduled(lastEnabled)
           n == Threshold(after)
<1>1. /\ run \in [RunIds -> RunRow] /\ lastEnabled \in Nat /\ n \in Nat \ {0}
      /\ UNCHANGED <<lastEnabled, after>> /\ run[r].status = "running"
  BY ThresholdType DEF RowsInv, TypeOK, Finalize, schedule
<1>2. run' = [run EXCEPT ![r] = [run[r] EXCEPT !.status = status]]
  BY DEF Finalize
<1>3. /\ \A q \in RunIds : q # r => run'[q] = run[q]
      /\ run'[r].status = status /\ run'[r].reason = run[r].reason
  <2>1. run'[r] = [run[r] EXCEPT !.status = status]
    BY <1>1, <1>2
  <2> QED
    BY <1>1, <1>2, <2>1, RowUpdate
<1>4. r \notin T
  BY <1>1 DEF TerminalScheduled, Terminal
<1>5. Recent(lastEnabled, n) = Newest(T, n)
  BY RecentIsNewest
<1>6. Recent(lastEnabled, n)' = Newest(T', n)
  BY <1>1 DEF Recent, Newest, After
<1>7. (\A s \in T : s \in Nat) /\ IsFiniteSet(T) /\ r \in Nat
  BY TerminalScheduledType DEF RunIds
<1>8. /\ Cardinality(Newest(T', n)) >= n
      /\ \A q \in Newest(T', n) : run'[q].status = "failed"
  BY <1>1, <1>6 DEF Streak, AllFailed
<1>9. SUFFICES Newest(T', n) = Newest(T, n)
  <2>1. \A q \in Newest(T, n) : q \in RunIds /\ q # r
    BY <1>4 DEF Newest, TerminalScheduled
  <2> QED
    BY <1>3, <1>5, <1>8, <1>9, <2>1 DEF Streak, AllFailed
<1>10. CASE run[r].reason # "schedule" \/ ~(r >= lastEnabled)
  <2>1. T' = T
    BY <1>1, <1>3, <1>10 DEF TerminalScheduled, Terminal
  <2> QED
    BY <2>1
<1>11. CASE run[r].reason = "schedule" /\ r >= lastEnabled
  <2>1. T' = T \cup {r}
    BY <1>1, <1>3, <1>11 DEF TerminalScheduled
  <2>2. r \notin Newest(T', n)
    BY <1>3, <1>8, <1>11
  <2> HIDE DEF T, n
  <2> QED
    BY <1>1, <1>7, <2>1, <2>2, NewestAdd
<1> QED
  BY <1>10, <1>11

\* Every step keeps the promise: the streaks it makes are evaluated, and an
\* evaluation ends only by pausing the schedule or by finding no streak.
LEMMA NextStreak ==
    ASSUME RowsInv, StreakIsBeingEvaluated, [Next]_vars
    PROVE  StreakIsBeingEvaluated'
<1> SUFFICES ASSUME Undisturbed', enabled', Streak'
             PROVE  \E r \in RunIds : Evaluating(r)'
  BY Zenon DEF StreakIsBeingEvaluated, Evaluating
<1>1. TypeOK /\ syncs \in Nat /\ sweeps \in Nat /\ lost \in Nat
  BY BoundsAreNaturals DEF RowsInv, TypeOK
<1>2. enabled /\ Undisturbed /\ Streak => \E r \in RunIds : Evaluating(r)
  BY Zenon DEF StreakIsBeingEvaluated, Evaluating
<1>3. ASSUME UNCHANGED <<run, after, lastEnabled>> PROVE Streak
  BY <1>3 DEF Streak, AllFailed, Recent, TerminalScheduled
<1>4. CASE UNCHANGED vars
  BY <1>2, <1>3, <1>4 DEF vars, schedule, bounds, Undisturbed, Evaluating
<1>5. ASSUME NEW reason \in {"schedule", "manual"}, Create(reason)
      PROVE  \E r \in RunIds : Evaluating(r)'
  <2>1. run[nextId].status = "none" /\ run'[nextId].status = "running"
    BY <1>5 DEF Create, RowsInv, TypeOK
  <2>2. \A q \in RunIds : q # nextId => run'[q] = run[q]
    BY <1>5 DEF Create, RowsInv, TypeOK
  <2>3. TerminalScheduled(lastEnabled)' = TerminalScheduled(lastEnabled)
    BY <1>5, <2>1, <2>2 DEF Create, schedule, TerminalScheduled, Terminal
  <2>4. /\ Recent(lastEnabled, Threshold(after))' = Recent(lastEnabled, Threshold(after))
        /\ Recent(lastEnabled, Threshold(after)) \subseteq TerminalScheduled(lastEnabled)
    BY <1>5, <2>3 DEF Create, schedule, Recent
  <2>5. \A q \in TerminalScheduled(lastEnabled) : q \in RunIds /\ q # nextId
    BY <2>1 DEF TerminalScheduled, Terminal
  <2>6. Streak
    BY <1>5, <2>2, <2>4, <2>5 DEF Create, schedule, Streak, AllFailed
  <2> QED
    BY <1>2, <1>5, <2>6 DEF Create, schedule, bounds, Undisturbed, Evaluating
<1>6. ASSUME NEW r \in RunIds, NEW status \in Terminal, Finalize(r, status)
      PROVE  \E q \in RunIds : Evaluating(q)'
  <2>1. CASE run[r].reason = "schedule" /\ status = "failed" /\ r >= lastEnabled
    <3>1. eval'[r].step = "config"
      BY <1>1, <1>6, <2>1 DEF Finalize, TypeOK, Evaluation
    <3> QED
      BY <1>6, <2>1, <3>1 DEF Finalize, schedule, Evaluating
  <2>2. CASE ~(run[r].reason = "schedule" /\ status = "failed" /\ r >= lastEnabled)
    <3>1. Streak
      BY <1>6, <2>2, FinalizeStreak
    <3>2. PICK q \in RunIds : Evaluating(q)
      BY <1>2, <1>6, <3>1 DEF Finalize, schedule, bounds, Undisturbed
    <3>3. q # r
      BY <1>6, <3>2 DEF Evaluating, Finalize, RowsInv
    <3>4. eval'[q] = eval[q]
      BY <1>1, <1>6, <3>3 DEF Finalize, TypeOK
    <3> QED
      BY <1>6, <3>2, <3>4 DEF Finalize, schedule, Evaluating
  <2> QED
    BY <2>1, <2>2
<1>7. ASSUME NEW r \in RunIds, Sweep(r) \/ EvaluationLost(r) PROVE FALSE
  BY <1>1, <1>7 DEF Sweep, EvaluationLost, Undisturbed
<1>8. ASSUME NEW a \in Afters, UpsertSchedule(a) PROVE FALSE
  BY <1>1, <1>8 DEF UpsertSchedule, Undisturbed
<1>9. ASSUME NEW r \in RunIds, GetConfig(r)
      PROVE  \E q \in RunIds : Evaluating(q)'
  <2>1. PICK q \in RunIds : Evaluating(q)
    BY <1>2, <1>3, <1>9 DEF GetConfig, schedule, bounds, Undisturbed
  <2>2. CASE q # r
    BY <1>1, <1>9, <2>1, <2>2 DEF GetConfig, TypeOK, schedule, Evaluating
  <2>3. CASE q = r
    <3>1. Threshold(after) \in Nat /\ lastEnabled \in Nat
      BY <1>1, ThresholdType DEF TypeOK
    <3>2. eval'[r].step = "recent" /\ eval'[r].since = lastEnabled
      <4>1. eval[r] \in Evaluation /\ eval'[r] = [eval[r] EXCEPT !.step = "recent",
                !.after = Threshold(after), !.since = lastEnabled]
        BY <1>1, <1>9 DEF GetConfig, TypeOK
      <4> QED
        BY <3>1, <4>1 DEF Evaluation
    <3> QED
      BY <1>9, <2>1, <2>3, <3>2 DEF GetConfig, schedule, Evaluating
  <2> QED
    BY <2>2, <2>3
<1>10. ASSUME NEW r \in RunIds, ListRecent(r)
       PROVE  \E q \in RunIds : Evaluating(q)'
  <2>1. Streak /\ Undisturbed
    BY <1>3, <1>10 DEF ListRecent, schedule, bounds, Undisturbed
  <2>2. PICK q \in RunIds : Evaluating(q)
    BY <1>2, <1>10, <2>1 DEF ListRecent, schedule
  <2>3. CASE q # r
    <3>1. eval'[q] = eval[q]
      BY <1>1, <1>10, <2>3, ListRecentStep
    <3> QED
      BY <1>10, <2>2, <3>1 DEF ListRecent, schedule, Evaluating
  <2>4. CASE q = r
    <3>1. eval[r].since = lastEnabled /\ eval[r].after = Threshold(after)
      BY <1>10, <2>1, <2>2, <2>4 DEF ListRecent, Evaluating, RowsInv, Undisturbed
    <3>2. eval'[r].step = "pause"
      BY <1>1, <1>10, <2>1, <3>1, ListRecentStep DEF Streak
    <3> QED
      BY <1>10, <2>2, <2>4, <3>2 DEF ListRecent, schedule, Evaluating
  <2> QED
    BY <2>3, <2>4
<1>11. ASSUME NEW r \in RunIds, AutoPauseSchedule(r) PROVE FALSE
  BY <1>11 DEF AutoPauseSchedule
<1>12. ASSUME NEW on \in BOOLEAN, SetScheduleEnabled(on)
       PROVE  \E r \in RunIds : Evaluating(r)'
  <2>1. CASE enabled
    <3>1. UNCHANGED <<run, after, lastEnabled, eval, syncs, sweeps, lost>>
      BY <1>12, <2>1 DEF SetScheduleEnabled
    <3> QED
      BY <1>2, <1>3, <2>1, <3>1 DEF Undisturbed, Evaluating
  <2>2. CASE ~enabled
    <3>1. lastEnabled' = nextId /\ run' = run /\ after' = after
      BY <1>12, <2>2 DEF SetScheduleEnabled
    <3>2. Recent(lastEnabled, Threshold(after))' = {}
      BY <3>1 DEF Recent, TerminalScheduled, RowsInv, Terminal
    <3>3. Threshold(after)' \in Nat \ {0}
      BY <1>1, <3>1, ThresholdType DEF TypeOK
    <3> QED
      BY <3>2, <3>3, FS_EmptySet DEF Streak
  <2> QED
    BY <2>1, <2>2
<1> QED
  BY <1>4, <1>5, <1>6, <1>7, <1>8, <1>9, <1>10, <1>11, <1>12 DEF Next, Evaluate

-----------------------------------------------------------------------------
(* The theorems.                                                            *)

\* The four invariants hold together.
LEMMA Invariants == Spec => [](RowsInv /\ EvidenceInv /\ PeriodInv /\ StreakIsBeingEvaluated)
<1> DEFINE Inv == RowsInv /\ EvidenceInv /\ PeriodInv /\ StreakIsBeingEvaluated
<1>1. Inv /\ [Next]_vars => Inv'
  BY NextRows, NextEvidence, NextPeriod, NextStreak DEF RowsInv
<1> QED
  BY InitInv, <1>1, PTL DEF Spec

\* However finalizes, operators, syncs and sweeps interleave, every auto-pause
\* evaluateAutoPause records (finalize_autopause.go) rests on exactly as many
\* scheduled runs as a configured threshold, all of them failed, none of them
\* older than all the evaluator knew of.
THEOREM PauseRestsOnFailures == Spec => []PausedOnFailures
<1>1. EvidenceInv => PausedOnFailures
  BY DEF EvidenceInv
<1> QED
  BY Invariants, <1>1, PTL

\* However many finalizes see the same streak, one pause is recorded for each
\* time the schedule was enabled (the WHERE enabled of AutoPauseSchedule).
THEOREM PauseOncePerPeriod == Spec => []OneAuditPerPeriod
<1>1. PeriodInv => OneAuditPerPeriod
  BY DEF PeriodInv
<1> QED
  BY Invariants, <1>1, PTL

\* A full streak behind an enabled schedule always has an evaluation under way
\* that will find it, for every threshold and any number of overlapping
\* finalizes: the last of them reads its streak after all were committed.
THEOREM NoStreakMissed == Spec => []StreakIsBeingEvaluated
BY Invariants, PTL
=============================================================================
