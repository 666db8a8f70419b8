----------------------------- MODULE RunLifecycle -----------------------------
(***************************************************************************)
(* What the run table promises to everything that reads it, without the    *)
(* scheduler, its statements and its failures: a row is inserted pending,  *)
(* is admitted to execution, has a runner launched for it, runs, and ends; *)
(* or it is discarded before anyone launched anything for it.  Scheduler   *)
(* implements this specification (SchedulerLifecycle).                     *)
(***************************************************************************)
EXTENDS Integers

CONSTANTS
    Schedules,    \* rows of table schedule
    Runs,         \* identifiers of rows of table run, in order of created_at
    Outcomes      \* the statuses runners report

VARIABLES
    owner,        \* the schedule of each row
    status,       \* the status of each row, "none" before its insert
    admitted,     \* how each row was admitted to execution
    launched      \* rows for which a runner was launched

vars == <<owner, status, admitted, launched>>

Active == {"pending", "running"}

Exists(r) == status[r] # "none"
Older(r) == {q \in Runs : q < r /\ owner[q] = owner[r] /\ status[q] \in Active}

Init ==
    /\ owner \in [Runs -> Schedules]
    /\ status = [r \in Runs |-> "none"]
    /\ admitted = [r \in Runs |-> "none"]
    /\ launched = {}

\* A row is inserted after every row there is.
Insert(r, s) ==
    /\ \A q \in Runs : q >= r => ~Exists(q)
    /\ owner' = [owner EXCEPT ![r] = s]
    /\ status' = [status EXCEPT ![r] = "pending"]
    /\ UNCHANGED <<admitted, launched>>

\* Rows are admitted: alone, when no older row of their schedule is active,
\* or beside others, as run-now and the concurrent policy ask.
Admit(rows, how) ==
    /\ \A r \in rows : Exists(r) /\ (how[r] = "alone" => Older(r) = {})
    /\ admitted' = [r \in Runs |-> IF r \in rows THEN how[r] ELSE admitted[r]]
    /\ UNCHANGED <<owner, status, launched>>

\* A runner is launched for an admitted row; after a fault, once more.
Launch(r) ==
    /\ admitted[r] # "none" /\ status[r] # "deleted"
    /\ launched' = launched \cup {r}
    /\ UNCHANGED <<owner, status, admitted>>

Begin(r) ==
    /\ status[r] = "pending" /\ r \in launched
    /\ status' = [status EXCEPT ![r] = "running"]
    /\ UNCHANGED <<owner, admitted, launched>>

\* The overlap policy drops a row for which nothing was launched.
Discard(r) ==
    /\ status[r] = "pending" /\ r \notin launched
    /\ status' = [status EXCEPT ![r] = "deleted"]
    /\ UNCHANGED <<owner, admitted, launched>>

\* A runner reports the outcome of an active row.
Report(r, outcome) ==
    /\ status[r] \in Active /\ r \in launched
    /\ status' = [status EXCEPT ![r] = outcome]
    /\ UNCHANGED <<owner, admitted, launched>>

\* Active rows that nobody ended in time are failed together.
Expire(rows) ==
    /\ \A r \in rows : status[r] \in Active
    /\ status' = [r \in Runs |-> IF r \in rows THEN "failed" ELSE status[r]]
    /\ UNCHANGED <<owner, admitted, launched>>

Next ==
    \/ \E r \in Runs : \/ \E s \in Schedules : Insert(r, s)
                       \/ Launch(r) \/ Begin(r) \/ Discard(r)
                       \/ \E outcome \in Outcomes : Report(r, outcome)
    \/ \E rows \in SUBSET Runs :
           \/ Expire(rows)
           \/ \E how \in [rows -> {"alone", "beside"}] : Admit(rows, how)

Spec == Init /\ [][Next]_vars

-----------------------------------------------------------------------------
\* A running row that was admitted alone has no older active row of its
\* schedule beside it: rows older than an admitted one are over for good.
RunsAlone ==
    \A r \in Runs : status[r] = "running" /\ admitted[r] = "alone" => Older(r) = {}

\* A row ends once: nothing changes an outcome, and nothing brings a discarded
\* row back.
OutcomeIsFinal ==
    \A r \in Runs : status[r] \notin Active \cup {"none"} => status'[r] = status[r]
OutcomesAreFinal == [][OutcomeIsFinal]_vars

\* No runner was launched for a discarded row, nor will one be.
DiscardedUnlaunched == \A r \in Runs : status[r] = "deleted" => r \notin launched
=============================================================================
