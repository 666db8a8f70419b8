----------------------------- MODULE MCScheduler -----------------------------
(* Small instances of Scheduler for TLC. *)
EXTENDS SchedulerLifecycle, TLC

\* Cron expressions, each by the instants it matches before the horizon.
TwoFires == {{1, 2}}
Edited   == {{1}, {1, 2}}

\* Serve processes are interchangeable.
ServerSymmetry == Permutations(Servers)
=============================================================================
