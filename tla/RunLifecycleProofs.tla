-------------------------- MODULE RunLifecycleProofs --------------------------
(* What every implementation of RunLifecycle inherits from it.               *)
EXTENDS RunLifecycle, TLAPS

TypeInv ==
    /\ owner \in [Runs -> Schedules]
    /\ DOMAIN status = Runs
    /\ DOMAIN admitted = Runs

\* RunsAlone says nothing of a row that was admitted and does not run yet,
\* although the promise was made to it: older rows are over from then on, and
\* only rows that are there are admitted, so none is inserted below them.
AloneInv ==
    /\ TypeInv
    /\ \A r \in Runs : admitted[r] # "none" => Exists(r)
    /\ \A r \in Runs : admitted[r] = "alone" => Older(r) = {}

\* AloneInv holds initially.
LEMMA InitAlone == Init => AloneInv
BY DEF Init, AloneInv, TypeInv, Exists, Older

\* Steps that make no row active, and no row disappear.
LEMMA EndingStep ==
    ASSUME AloneInv, DOMAIN status' = Runs, UNCHANGED <<owner, admitted>>,
           \A r \in Runs : status'[r] \in Active => status[r] \in Active,
           \A r \in Runs : status[r] # "none" => status'[r] # "none"
    PROVE  AloneInv'
BY DEF AloneInv, TypeInv, Exists, Older

\* Every step preserves AloneInv: a row is inserted above all others, and admitted
\* alone only when nothing older is active.
LEMMA NextAlone ==
    ASSUME Runs \subseteq Int, Outcomes \cap {"none", "pending", "running"} = {},
           AloneInv, [Next]_vars
    PROVE  AloneInv'
<1> USE DEF AloneInv, TypeInv
<1>1. CASE UNCHANGED vars
  BY <1>1, EndingStep DEF vars
<1>2. ASSUME NEW r \in Runs, NEW s \in Schedules, Insert(r, s)
      PROVE  AloneInv'
  <2>1. ~Exists(r) /\ \A q \in Runs : q > r => admitted[q] = "none"
    BY <1>2 DEF Insert, Exists
  <2>2. \A q \in Runs : q # r => owner'[q] = owner[q] /\ status'[q] = status[q]
    BY <1>2 DEF Insert
  <2>3. ASSUME NEW q \in Runs, admitted'[q] = "alone"
        PROVE  Older(q)' = {}
    BY <1>2, <2>1, <2>2, <2>3 DEF Insert, Older, Exists
  <2>4. \A q \in Runs : admitted'[q] # "none" => Exists(q)'
    BY <1>2, <2>1, <2>2 DEF Insert, Exists
  <2> QED BY <1>2, <2>3, <2>4 DEF Insert
<1>3. ASSUME NEW rows \in SUBSET Runs, NEW how \in [rows -> {"alone", "beside"}],
             Admit(rows, how)
      PROVE  AloneInv'
  BY <1>3 DEF Admit, Exists, Older
<1>4. ASSUME NEW r \in Runs, Launch(r) PROVE AloneInv'
  BY <1>4, EndingStep DEF Launch
<1>5. ASSUME NEW r \in Runs, Begin(r) PROVE AloneInv'
  BY <1>5, EndingStep DEF Begin, Active
<1>6. ASSUME NEW r \in Runs, Discard(r) PROVE AloneInv'
  BY <1>6, EndingStep DEF Discard, Active
<1>7. ASSUME NEW r \in Runs, NEW outcome \in Outcomes, Report(r, outcome)
      PROVE  AloneInv'
  BY <1>7, EndingStep DEF Report, Active
<1>8. ASSUME NEW rows \in SUBSET Runs, Expire(rows) PROVE AloneInv'
  BY <1>8, EndingStep DEF Expire, Active
<1> QED
  BY <1>1, <1>2, <1>3, <1>4, <1>5, <1>6, <1>7, <1>8 DEF Next

\* A run that the overlap policies skip or queue admitted (tick.go, processOne
\* and dispatchPending) never has an older active run of its schedule beside
\* it, in any implementation of the life of a run, for every set of schedules,
\* runs and outcomes.  Outcomes are not statuses of rows that have not ended.
THEOREM AdmittedRunAlone ==
    ASSUME Runs \subseteq Int, Outcomes \cap {"none", "pending", "running"} = {}
    PROVE  Spec => []RunsAlone
<1>1. AloneInv => RunsAlone
  BY DEF AloneInv, RunsAlone
<1>2. AloneInv /\ [Next]_vars => AloneInv'
  BY NextAlone
<1> QED
  BY InitAlone, <1>1, <1>2, PTL DEF Spec

TypedStatus == DOMAIN status = Runs

\* Every step leaves the outcomes that are recorded: only rows that are not
\* there are inserted, and only active rows begin or end.
LEMMA NextFinal ==
    ASSUME Runs \subseteq Int, TypedStatus, [Next]_vars
    PROVE  TypedStatus' /\ OutcomeIsFinal
<1> USE DEF TypedStatus, OutcomeIsFinal
<1>1. CASE UNCHANGED vars
  BY <1>1 DEF vars
<1>2. ASSUME NEW r \in Runs, NEW s \in Schedules, Insert(r, s)
      PROVE  TypedStatus' /\ OutcomeIsFinal
  <2>1. status[r] = "none"
    BY <1>2 DEF Insert, Exists
  <2> QED
    BY <1>2, <2>1 DEF Insert
<1>3. ASSUME NEW rows \in SUBSET Runs, NEW how \in [rows -> {"alone", "beside"}], Admit(rows, how)
      PROVE  TypedStatus' /\ OutcomeIsFinal
  BY <1>3 DEF Admit
<1>4. ASSUME NEW r \in Runs, Launch(r) PROVE TypedStatus' /\ OutcomeIsFinal
  BY <1>4 DEF Launch
<1>5. ASSUME NEW r \in Runs, Begin(r) PROVE TypedStatus' /\ OutcomeIsFinal
  BY <1>5 DEF Begin, Active
<1>6. ASSUME NEW r \in Runs, Discard(r) PROVE TypedStatus' /\ OutcomeIsFinal
  BY <1>6 DEF Discard, Active
<1>7. ASSUME NEW r \in Runs, NEW outcome \in Outcomes, Report(r, outcome)
      PROVE  TypedStatus' /\ OutcomeIsFinal
  BY <1>7 DEF Report
<1>8. ASSUME NEW rows \in SUBSET Runs, Expire(rows) PROVE TypedStatus' /\ OutcomeIsFinal
  BY <1>8 DEF Expire
<1> QED
  BY <1>1, <1>2, <1>3, <1>4, <1>5, <1>6, <1>7, <1>8 DEF Next

\* Every step keeps runners away from discarded rows: what is launched is not
\* discarded, and what is discarded is not launched.
LEMMA NextUnlaunched ==
    ASSUME Runs \subseteq Int, "deleted" \notin Outcomes, TypedStatus, DiscardedUnlaunched, [Next]_vars
    PROVE  DiscardedUnlaunched'
<1> USE DEF TypedStatus, DiscardedUnlaunched
<1>1. CASE UNCHANGED vars
  BY <1>1 DEF vars
<1>2. ASSUME NEW r \in Runs, NEW s \in Schedules, Insert(r, s) PROVE DiscardedUnlaunched'
  BY <1>2 DEF Insert
<1>3. ASSUME NEW rows \in SUBSET Runs, NEW how \in [rows -> {"alone", "beside"}], Admit(rows, how)
      PROVE  DiscardedUnlaunched'
  BY <1>3 DEF Admit
<1>4. ASSUME NEW r \in Runs, Launch(r) PROVE DiscardedUnlaunched'
  BY <1>4 DEF Launch
<1>5. ASSUME NEW r \in Runs, Begin(r) PROVE DiscardedUnlaunched'
  BY <1>5 DEF Begin
<1>6. ASSUME NEW r \in Runs, Discard(r) PROVE DiscardedUnlaunched'
  BY <1>6 DEF Discard
<1>7. ASSUME NEW r \in Runs, NEW outcome \in Outcomes, Report(r, outcome) PROVE DiscardedUnlaunched'
  BY <1>7 DEF Report
<1>8. ASSUME NEW rows \in SUBSET Runs, Expire(rows) PROVE DiscardedUnlaunched'
  BY <1>8 DEF Expire
<1> QED
  BY <1>1, <1>2, <1>3, <1>4, <1>5, <1>6, <1>7, <1>8 DEF Next

\* An outcome that finalize (finalize.go) or the sweep has recorded is never
\* changed, and a row the skip policy deleted (tick.go, processOne) never comes
\* back, in any implementation of the life of a run.
THEOREM RowsEndOnce ==
    ASSUME Runs \subseteq Int
    PROVE  Spec => OutcomesAreFinal
<1>1. Init => TypedStatus
  BY DEF Init, TypedStatus
<1>2. TypedStatus /\ [Next]_vars => TypedStatus' /\ [OutcomeIsFinal]_vars
  BY NextFinal
<1> QED
  BY <1>1, <1>2, PTL DEF Spec, OutcomesAreFinal

\* For a row that the skip policy deleted no runner was started, nor will one be:
\* what may have side effects is not forgotten.
THEOREM DiscardedRowsNeverRan ==
    ASSUME Runs \subseteq Int, "deleted" \notin Outcomes
    PROVE  Spec => []DiscardedUnlaunched
<1>1. Init => TypedStatus /\ DiscardedUnlaunched
  BY DEF Init, TypedStatus, DiscardedUnlaunched
<1>2. TypedStatus /\ DiscardedUnlaunched /\ [Next]_vars => TypedStatus' /\ DiscardedUnlaunched'
  BY NextFinal, NextUnlaunched
<1> QED
  BY <1>1, <1>2, PTL DEF Spec
=============================================================================
