---------------------------- MODULE RunExecProofs ----------------------------
(***************************************************************************)
(* Proofs about what a run leaves behind (RunExec): a run that failed of   *)
(* itself was silent, one called succeeded is complete, its delivery       *)
(* records are true and its row keeps the first account it is given,       *)
(* whole, for any runs, destinations and manifests and any number of       *)
(* pushes and faults between its steps.                                    *)
(***************************************************************************)
EXTENDS RunExec, TLAPS

\* The program points of a runner before the model has produced output.
Early == {"none", "context", "secrets", "clone", "engine"}
\* The memory block a run has to write back and can push.
MustPush(p) == p.memory /\ p.cfg.writeback /\ p.token

\* A row that was not dispatched has no process.
NotStarted(r) == row[r].status \in {"none", "pending"} => proc[r].pc = "none"
\* Before there is output a run has done nothing anyone can see.
Unseen(r) ==
    proc[r].pc \in Early =>
        (\A d \in Dests : proc[r].results[d] = "none") /\ delivered[r] = {} /\ Commits(r) = {}
\* A result says what happened to its destination, and so does a note.
ResultsTrue(r) ==
    \A d \in Dests :
        /\ proc[r].results[d] = "sent" => d \in delivered[r]
        /\ proc[r].results[d] = "skipped" => ~ShouldPublish(proc[r].cfg, d, TRUE)
        /\ row[r].notes[d] = "sent" => d \in delivered[r]
\* The write-back starts when every destination has its result.
AllTried(r) ==
    proc[r].pc \in {"commit", "push"} => \A d \in proc[r].cfg.dests : proc[r].results[d] # "none"
\* What a finalize request claims is true of the run.
ClaimTrue(r) ==
    proc[r].pc = "finalize" \/ proc[r].post =>
        /\ proc[r].body.status = "failed" => delivered[r] = {} /\ Commits(r) = {}
        /\ proc[r].body.status # "failed" => \A d \in proc[r].cfg.dests : proc[r].results[d] # "none"
        /\ proc[r].body.status = "succeeded" =>
               /\ \A d \in Dests : proc[r].results[d] # "failed"
               /\ MustPush(proc[r]) => Commits(r) # {}
\* A row that the runner itself finished says what is true of the run, which is over.
OutcomeTrue(r) ==
    row[r].status \in Terminal /\ row[r].kind # "shutdown" =>
        /\ proc[r].pc = "exited"
        /\ row[r].status = "failed" => delivered[r] = {} /\ Commits(r) = {}
        /\ row[r].status # "failed" => \A d \in proc[r].cfg.dests : row[r].notes[d] # "none"
        /\ row[r].status = "succeeded" =>
               Expected(r) \subseteq delivered[r] /\ (MustPush(proc[r]) => Commits(r) # {})
\* The sweep only ever fails a row.
SweptFailed(r) == row[r].kind = "shutdown" => row[r].status = "failed"
\* A request that was let in is waited for by a runner that does nothing else, or
\* by one that is gone.
PostSent(r) ==
    /\ proc[r].post => proc[r].pc \in {"posted", "exited"}
    /\ proc[r].pc = "posted" => proc[r].post
\* A row without an outcome has no record, and a reported one is served.
Unreported(r) ==
    /\ row[r].status \notin Terminal => row[r].notes = NoNotes /\ ~row[r].writeback
    /\ row[r].status \in Terminal /\ row[r].kind # "shutdown" => ~proc[r].post
\* How the report of a run fares, and what its row says of it.
Account(r) == PostSent(r) /\ Unreported(r) /\ OneAccount(r) /\ ReportHeard(r)

RunInv(r) ==
    /\ NotStarted(r) /\ Unseen(r) /\ ResultsTrue(r) /\ AllTried(r)
    /\ ClaimTrue(r) /\ OutcomeTrue(r) /\ SweptFailed(r) /\ Account(r)
ExecInv == TypeOK /\ \A r \in Runs : RunInv(r)

-----------------------------------------------------------------------------
(* What a step does to a process, to a row and to the branch.               *)

CommitRecord == [by : Runs \cup {People}, cfg : Config]
Kinds == {"none", "runner"}

\* Only run r's process moves, and only run r's row.
ProcessMoves(r) ==
    /\ proc' \in [Runs -> Process]
    /\ \A x \in Runs : x # r => proc'[x] = proc[x]
RowMoves(r) ==
    /\ row' \in [Runs -> Row]
    /\ \A x \in Runs : x # r => row'[x] = row[x]
\* Process q is p as far as the manifest, the results and the memory go, and the
\* way its report fares.
SameWork(p, q) ==
    /\ q.cfg = p.cfg /\ q.results = p.results
    /\ q.lost = p.lost /\ q.refused = p.refused /\ q.post = p.post
    /\ MustPush(q) <=> MustPush(p)

\* A step that gives the process of run r a new state.
LEMMA AssignProcess ==
    ASSUME proc \in [Runs -> Process], NEW r \in Runs, NEW q \in Process,
           proc' = [proc EXCEPT ![r] = q]
    PROVE  ProcessMoves(r) /\ proc'[r] = q
  BY DEF ProcessMoves

\* A step that writes the row of run r.
LEMMA AssignRow ==
    ASSUME row \in [Runs -> Row], NEW r \in Runs, NEW q \in Row,
           row' = [row EXCEPT ![r] = q]
    PROVE  RowMoves(r) /\ row'[r] = q
  BY DEF RowMoves

\* A process that ends its work with a body.
LEMMA FinalizeRecord ==
    ASSUME NEW p \in Process, NEW b \in [status : Terminal, kind : Kinds]
    PROVE  LET q == [p EXCEPT !.pc = "finalize", !.body = b]
           IN  /\ q \in Process /\ q.pc = "finalize" /\ SameWork(p, q)
               /\ q.body = b /\ q.writebackOK = p.writebackOK
  <1> DEFINE q == [p EXCEPT !.pc = "finalize", !.body = b]
  <1>1. q \in Process
    BY DEF Process, Kinds
  <1>2. q.pc = "finalize" /\ q.body = b /\ q.writebackOK = p.writebackOK
    BY DEF Process
  <1>3. q.cfg = p.cfg /\ q.results = p.results /\ q.lost = p.lost /\ q.refused = p.refused /\ q.post = p.post
        /\ q.memory = p.memory /\ q.token = p.token
    BY DEF Process
  <1> HIDE DEF q
  <1>5. SameWork(p, q)
    BY <1>3 DEF SameWork, MustPush
  <1> QED BY <1>1, <1>2, <1>5 DEF q

\* A process that only goes on to the next program point.
LEMMA NextRecord ==
    ASSUME NEW p \in Process, NEW pc \in {"clone", "commit"}
    PROVE  LET q == [p EXCEPT !.pc = pc]
           IN  q \in Process /\ q.pc = pc /\ SameWork(p, q)
  <1> DEFINE q == [p EXCEPT !.pc = pc]
  <1>1. q \in Process
    BY DEF Process
  <1>2. /\ q.pc = pc /\ q.cfg = p.cfg /\ q.results = p.results
        /\ q.lost = p.lost /\ q.refused = p.refused /\ q.post = p.post
        /\ q.memory = p.memory /\ q.token = p.token
    BY DEF Process
  <1> HIDE DEF q
  <1>3. SameWork(p, q)
    BY <1>2 DEF SameWork, MustPush
  <1> QED BY <1>1, <1>2, <1>3 DEF q

\* What is appended to the branch is one commit of its author and no one else's.
LEMMA Appended ==
    ASSUME branch \in Seq(CommitRecord), NEW e \in CommitRecord, branch' = Append(branch, e)
    PROVE  /\ branch' \in Seq(CommitRecord) /\ Len(branch') = Len(branch) + 1
           /\ Commits(e.by)' # {}
           /\ \A who : who # e.by => (Commits(who)' = {} <=> Commits(who) = {})
           /\ \A who : Commits(who) # {} => Commits(who)' # {}
  <1>1. /\ branch' \in Seq(CommitRecord) /\ Len(branch') = Len(branch) + 1 /\ Len(branch) \in Nat
        /\ branch'[Len(branch) + 1] = e
        /\ \A i \in 1..Len(branch) : branch'[i] = branch[i]
    OBVIOUS
  <1>2. Commits(e.by)' # {}
    BY <1>1 DEF Commits
  <1>3. ASSUME NEW who PROVE Commits(who) \subseteq Commits(who)'
    BY <1>1 DEF Commits
  <1>4. ASSUME NEW who, who # e.by PROVE Commits(who)' \subseteq Commits(who)
    BY <1>1, <1>4 DEF Commits
  <1> QED BY <1>1, <1>2, <1>3, <1>4

\* A run that a step leaves alone keeps its invariant.
LEMMA OtherRun ==
    ASSUME NEW r \in Runs, RunInv(r), proc'[r] = proc[r], row'[r] = row[r],
           delivered'[r] = delivered[r], Commits(r)' = {} <=> Commits(r) = {}
    PROVE  RunInv(r)'
  <1>1. NotStarted(r)' /\ Unseen(r)' /\ ResultsTrue(r)' /\ AllTried(r)'
    BY DEF RunInv, NotStarted, Unseen, ResultsTrue, AllTried
  <1>2. ClaimTrue(r)'
    BY DEF RunInv, ClaimTrue
  <1>3. OutcomeTrue(r)'
    BY DEF RunInv, OutcomeTrue, Expected
  <1>4. SweptFailed(r)' /\ Account(r)'
    BY DEF RunInv, SweptFailed, Account, PostSent, Unreported, OneAccount, ReportHeard, Finalized
  <1> QED BY <1>1, <1>2, <1>3, <1>4 DEF RunInv

\* While a run works there is nothing to report, and only the sweep can have
\* written its row.
LEMMA AtWork ==
    ASSUME NEW r \in Runs, RunInv(r), proc[r].pc \notin {"posted", "exited"},
           proc'[r].post = proc[r].post, proc'[r].pc \notin {"posted", "exited"},
           row'[r] = row[r]
    PROVE  Account(r)' /\ ~proc[r].post
  <1>1. ~proc[r].post
    BY DEF RunInv, Account, PostSent
  <1>2. row[r].status \in Terminal => row[r].kind = "shutdown"
    BY DEF RunInv, OutcomeTrue
  <1>3. PostSent(r)' /\ Unreported(r)' /\ ReportHeard(r)'
    BY <1>1 DEF RunInv, Account, PostSent, Unreported, ReportHeard
  <1>4. OneAccount(r)'
    BY <1>2 DEF RunInv, Account, OneAccount
  <1> QED BY <1>1, <1>3, <1>4 DEF Account

-----------------------------------------------------------------------------
(* The steps of one run.                                                    *)

\* A step of run r stays in the types and leaves the other runs alone.
Local(r) ==
    /\ ProcessMoves(r) /\ RowMoves(r)
    /\ branch' \in Seq(CommitRecord) /\ synced' \in 1..Len(branch') /\ faults' \in 0..MaxFaults
    /\ delivered' \in [Runs -> SUBSET Dests]
    /\ \A x \in Runs : x # r =>
           delivered'[x] = delivered[x] /\ (Commits(x)' = {} <=> Commits(x) = {})

\* A step that only moves the process of r is local.
LEMMA ProcessOnly ==
    ASSUME TypeOK, NEW r \in Runs, ProcessMoves(r),
           UNCHANGED <<branch, synced, row, delivered, faults>>
    PROVE  Local(r) /\ row'[r] = row[r] /\ delivered'[r] = delivered[r] /\ Commits(r)' = Commits(r)
  <1>1. RowMoves(r)
    BY DEF TypeOK, RowMoves
  <1>2. \A x : Commits(x)' = Commits(x)
    BY DEF Commits
  <1>3. branch \in Seq(CommitRecord) /\ synced \in 1..Len(branch) /\ faults \in 0..MaxFaults
        /\ delivered \in [Runs -> SUBSET Dests]
    BY DEF TypeOK, CommitRecord
  <1> QED BY <1>1, <1>2, <1>3 DEF Local

\* From before the output a run may go on, or fail with a body that says so.
LEMMA EarlyStep ==
    ASSUME NEW r \in Runs, RunInv(r), proc[r].pc \in Early \ {"none"},
           row'[r] = row[r], delivered'[r] = delivered[r], Commits(r)' = Commits(r),
           proc'[r].results = proc[r].results, proc'[r].post = proc[r].post,
           \/ proc'[r].pc \in {"secrets", "clone", "engine", "publish"}
           \/ proc'[r].pc = "finalize" /\ proc'[r].body.status = "failed"
    PROVE  RunInv(r)'
  <1>0. /\ \A d \in Dests : proc[r].results[d] = "none"
        /\ delivered[r] = {} /\ Commits(r) = {}
    BY DEF RunInv, Unseen
  <1>1. NotStarted(r)' /\ Unseen(r)' /\ ResultsTrue(r)' /\ AllTried(r)'
    <2>1. NotStarted(r)' /\ Unseen(r)' /\ AllTried(r)'
      BY <1>0 DEF RunInv, NotStarted, Unseen, AllTried
    <2>2. ResultsTrue(r)'
      BY <1>0 DEF RunInv, ResultsTrue
    <2> QED BY <2>1, <2>2
  <1>a. Account(r)' /\ ~proc[r].post
    BY AtWork DEF Early
  <1>2. ClaimTrue(r)' /\ SweptFailed(r)'
    BY <1>0, <1>a DEF RunInv, ClaimTrue, SweptFailed
  <1>3. OutcomeTrue(r)'
    BY DEF RunInv, OutcomeTrue, Early
  <1> QED BY <1>a, <1>1, <1>2, <1>3 DEF RunInv

\* failRun: the run is to be finalized as failed.
LEMMA FailRunStep ==
    ASSUME TypeOK, NEW r \in Runs, FailRun(r)
    PROVE  /\ ProcessMoves(r) /\ SameWork(proc[r], proc'[r])
           /\ proc'[r].pc = "finalize" /\ proc'[r].body.status = "failed"
  <1> DEFINE b == [status |-> "failed", kind |-> "runner"]
             q == [proc[r] EXCEPT !.pc = "finalize", !.body = b]
  <1>1. proc' = [proc EXCEPT ![r] = q]
    BY DEF FailRun
  <1>2. proc \in [Runs -> Process] /\ proc[r] \in Process
    BY DEF TypeOK
  <1>3. b \in [status : Terminal, kind : Kinds] /\ b.status = "failed"
    BY DEF Terminal, Kinds
  <1> HIDE DEF b
  <1>4. q \in Process /\ q.pc = "finalize" /\ SameWork(proc[r], q) /\ q.body = b
    BY <1>2, <1>3, FinalizeRecord
  <1> HIDE DEF q
  <1>5. ProcessMoves(r) /\ proc'[r] = q
    BY <1>1, <1>2, <1>4, AssignProcess
  <1> QED BY <1>3, <1>4, <1>5

\* Context, secrets, clone and engine.
LEMMA SetupStep ==
    ASSUME TypeOK, NEW r \in Runs, RunInv(r),
           GetRunContext(r) \/ GetSecrets(r) \/ Clone(r) \/ Engine(r)
    PROVE  Local(r) /\ RunInv(r)'
  <1>0. /\ proc \in [Runs -> Process] /\ proc[r] \in Process
        /\ UNCHANGED <<branch, synced, row, delivered, faults>>
        /\ proc[r].pc \in Early \ {"none"}
    BY DEF TypeOK, GetRunContext, GetSecrets, Clone, Engine, Early
  <1>1. ASSUME ProcessMoves(r), proc'[r].results = proc[r].results, proc'[r].post = proc[r].post,
               \/ proc'[r].pc \in {"secrets", "clone", "engine", "publish"}
               \/ proc'[r].pc = "finalize" /\ proc'[r].body.status = "failed"
        PROVE  Local(r) /\ RunInv(r)'
    <2>1. Local(r) /\ row'[r] = row[r] /\ delivered'[r] = delivered[r] /\ Commits(r)' = Commits(r)
      BY <1>0, <1>1, ProcessOnly
    <2> QED BY <1>0, <1>1, <2>1, EarlyStep
  <1>2. ASSUME FailRun(r) PROVE Local(r) /\ RunInv(r)'
    BY <1>1, <1>2, FailRunStep DEF SameWork
  <1>3. ASSUME NEW q \in Process, proc' = [proc EXCEPT ![r] = q], q.results = proc[r].results,
               q.post = proc[r].post, q.pc \in {"secrets", "clone", "engine", "publish"}
        PROVE  Local(r) /\ RunInv(r)'
    BY <1>0, <1>1, <1>3, AssignProcess
  <1>c. branch \in Seq(CommitRecord) /\ synced \in 1..Len(branch)
        /\ \A i \in 1..Len(branch) : branch[i].cfg \in Config
    <2>1. branch \in Seq(CommitRecord) /\ synced \in 1..Len(branch)
      BY DEF TypeOK, CommitRecord
    <2>2. \A i \in 1..Len(branch) : branch[i] \in CommitRecord
      BY <2>1
    <2> QED BY <2>1, <2>2 DEF CommitRecord
  <1>4. CASE GetRunContext(r)
    <2>1. CASE FailRun(r)
      BY <1>2, <2>1
    <2>2. CASE ~FailRun(r)
      <3> DEFINE refs == CollectSecretRefs(branch[synced].cfg, TRUE)
                 q == [proc[r] EXCEPT !.pc = "secrets", !.manifest = refs]
      <3>1. refs \in SUBSET (Dests \cup Servers)
        <4>1. branch[synced].cfg \in Config
          BY <1>c
        <4> QED BY <4>1 DEF CollectSecretRefs, Config
      <3>2. proc' = [proc EXCEPT ![r] = q]
        BY <1>4, <2>2 DEF GetRunContext
      <3> HIDE DEF refs
      <3>3. q \in Process
        BY <1>0, <3>1 DEF Process
      <3>4. q.pc = "secrets" /\ q.results = proc[r].results /\ q.post = proc[r].post
        BY <1>0 DEF Process
      <3> HIDE DEF q
      <3> QED BY <1>3, <3>2, <3>3, <3>4
    <2> QED BY <2>1, <2>2
  <1>5. CASE GetSecrets(r)
    <2>1. CASE FailRun(r)
      BY <1>2, <2>1
    <2>2. CASE proc' = [proc EXCEPT ![r].pc = "clone"]
      <3> DEFINE q == [proc[r] EXCEPT !.pc = "clone"]
      <3>1. proc' = [proc EXCEPT ![r] = q]
        BY <2>2
      <3>2. q \in Process /\ q.pc = "clone" /\ SameWork(proc[r], q)
        BY <1>0, NextRecord
      <3> HIDE DEF q
      <3> QED BY <1>3, <3>1, <3>2 DEF SameWork
    <2> QED BY <1>5, <2>1, <2>2 DEF GetSecrets
  <1>6. CASE Clone(r)
    <2>1. CASE FailRun(r)
      BY <1>2, <2>1
    <2>2. CASE /\ Len(branch) = row[r].sha
               /\ proc' = [proc EXCEPT ![r] =
                      [@ EXCEPT !.pc = "engine", !.cfg = branch[row[r].sha].cfg]]
      <3> DEFINE c == branch[row[r].sha].cfg
                 q == [proc[r] EXCEPT !.pc = "engine", !.cfg = c]
      <3>1. c \in Config
        BY <1>c, <2>2
      <3>2. proc' = [proc EXCEPT ![r] = q]
        BY <2>2
      <3> HIDE DEF c
      <3>3. q \in Process
        BY <1>0, <3>1 DEF Process
      <3>4. q.pc = "engine" /\ q.results = proc[r].results /\ q.post = proc[r].post
        BY <1>0 DEF Process
      <3> HIDE DEF q
      <3> QED BY <1>3, <3>2, <3>3, <3>4
    <2> QED BY <1>6, <2>1, <2>2 DEF Clone
  <1>7. CASE Engine(r)
    <2>1. CASE FailRun(r)
      BY <1>2, <2>1
    <2>2. ASSUME NEW memory \in BOOLEAN,
                 proc' = [proc EXCEPT ![r] = [@ EXCEPT !.pc = "publish", !.memory = memory]]
          PROVE  Local(r) /\ RunInv(r)'
      <3> DEFINE q == [proc[r] EXCEPT !.pc = "publish", !.memory = memory]
      <3>1. proc' = [proc EXCEPT ![r] = q]
        BY <2>2
      <3>2. q \in Process
        BY <1>0 DEF Process
      <3>3. q.pc = "publish" /\ q.results = proc[r].results /\ q.post = proc[r].post
        BY <1>0 DEF Process
      <3> HIDE DEF q
      <3> QED BY <1>3, <3>1, <3>2, <3>3
    <2> QED BY <1>7, <2>1, <2>2 DEF Engine
  <1> QED BY <1>4, <1>5, <1>6, <1>7

\* A step that only changes the row of r is local.
LEMMA RowOnly ==
    ASSUME TypeOK, NEW r \in Runs, RowMoves(r),
           UNCHANGED <<branch, synced, proc, delivered, faults>>
    PROVE  Local(r) /\ proc'[r] = proc[r] /\ delivered'[r] = delivered[r] /\ Commits(r)' = Commits(r)
  <1>1. ProcessMoves(r)
    BY DEF TypeOK, ProcessMoves
  <1>2. \A x : Commits(x)' = Commits(x)
    BY DEF Commits
  <1>3. branch \in Seq(CommitRecord) /\ synced \in 1..Len(branch) /\ faults \in 0..MaxFaults
        /\ delivered \in [Runs -> SUBSET Dests]
    BY DEF TypeOK, CommitRecord
  <1> QED BY <1>1, <1>2, <1>3 DEF Local

\* The row is inserted, and swept.
LEMMA InsertRunStep ==
    ASSUME TypeOK, NEW r \in Runs, RunInv(r), InsertRun(r)
    PROVE  Local(r) /\ RunInv(r)'
  <1> DEFINE q == [row[r] EXCEPT !.status = "pending", !.sha = synced]
  <1>1. row \in [Runs -> Row] /\ row[r] \in Row /\ row' = [row EXCEPT ![r] = q] /\ row[r].status = "none"
    BY DEF TypeOK, InsertRun
  <1>2. synced \in Nat
    BY DEF TypeOK
  <1>3. q \in Row
    BY <1>1, <1>2 DEF Row
  <1>4. /\ q.status = "pending" /\ q.kind = row[r].kind /\ q.notes = row[r].notes
        /\ q.writeback = row[r].writeback
    BY <1>1 DEF Row
  <1> HIDE DEF q
  <1>5. RowMoves(r) /\ row'[r] = q
    BY <1>1, <1>3, AssignRow
  <1>6. Local(r) /\ proc'[r] = proc[r] /\ delivered'[r] = delivered[r] /\ Commits(r)' = Commits(r)
    BY <1>5, RowOnly DEF InsertRun
  <1>7. /\ proc[r].pc = "none" /\ row[r].kind # "shutdown" /\ ~proc[r].post
        /\ row[r].notes = NoNotes /\ ~row[r].writeback
    BY <1>1 DEF RunInv, NotStarted, SweptFailed, Account, PostSent, Unreported, Terminal
  <1>8. RunInv(r)'
    <2>1. NotStarted(r)' /\ Unseen(r)' /\ ResultsTrue(r)' /\ AllTried(r)' /\ ClaimTrue(r)'
      BY <1>4, <1>5, <1>6, <1>7 DEF RunInv, NotStarted, Unseen, ResultsTrue, AllTried, ClaimTrue
    <2>2. OutcomeTrue(r)' /\ SweptFailed(r)'
      BY <1>4, <1>5, <1>6, <1>7 DEF OutcomeTrue, SweptFailed, Terminal
    <2>3. Account(r)'
      BY <1>4, <1>5, <1>6, <1>7
         DEF Account, PostSent, Unreported, OneAccount, ReportHeard, Terminal
    <2> QED BY <2>1, <2>2, <2>3 DEF RunInv
  <1> QED BY <1>6, <1>8

\* The sweep fails a row that has no outcome yet, and so no record.
LEMMA SweepStep ==
    ASSUME TypeOK, NEW r \in Runs, RunInv(r), Sweep(r)
    PROVE  Local(r) /\ RunInv(r)'
  <1> DEFINE q == [row[r] EXCEPT !.status = "failed", !.kind = "shutdown"]
  <1>1. /\ row \in [Runs -> Row] /\ row[r] \in Row /\ row' = [row EXCEPT ![r] = q]
        /\ row[r].notes = NoNotes /\ ~row[r].writeback
    BY DEF TypeOK, Sweep, RunInv, Account, Unreported, Terminal
  <1>2. q \in Row
    BY <1>1 DEF Row, Terminal
  <1>3. /\ q.status = "failed" /\ q.kind = "shutdown" /\ q.notes = row[r].notes
        /\ q.writeback = row[r].writeback
    BY <1>1 DEF Row
  <1> HIDE DEF q
  <1>4. RowMoves(r) /\ row'[r] = q
    BY <1>1, <1>2, AssignRow
  <1>5. Local(r) /\ proc'[r] = proc[r] /\ delivered'[r] = delivered[r] /\ Commits(r)' = Commits(r)
    BY <1>4, RowOnly DEF Sweep
  <1>6. RunInv(r)'
    <2>1. NotStarted(r)' /\ Unseen(r)' /\ ResultsTrue(r)' /\ AllTried(r)'
      BY <1>3, <1>4, <1>5 DEF RunInv, NotStarted, Unseen, ResultsTrue, AllTried
    <2>2. ClaimTrue(r)'
      BY <1>4, <1>5 DEF RunInv, ClaimTrue
    <2>3. OutcomeTrue(r)' /\ SweptFailed(r)'
      BY <1>3, <1>4, <1>5 DEF OutcomeTrue, SweptFailed, Terminal
    <2>4. Account(r)'
      BY <1>1, <1>3, <1>4, <1>5
         DEF RunInv, Account, PostSent, Unreported, OneAccount, ReportHeard, Terminal
    <2> QED BY <2>1, <2>2, <2>3, <2>4 DEF RunInv
  <1> QED BY <1>5, <1>6

\* The runner is dispatched: a process begins, with nothing done.
LEMMA DispatchStep ==
    ASSUME TypeOK, NEW r \in Runs, RunInv(r), Dispatch(r)
    PROVE  Local(r) /\ RunInv(r)'
  <1>0. /\ row \in [Runs -> Row] /\ row[r] \in Row /\ row[r].status = "pending"
        /\ proc \in [Runs -> Process] /\ proc[r] \in Process
        /\ branch \in Seq(CommitRecord) /\ synced \in 1..Len(branch)
        /\ faults \in 0..MaxFaults /\ delivered \in [Runs -> SUBSET Dests]
        /\ UNCHANGED <<branch, synced, delivered>>
    BY DEF TypeOK, CommitRecord, Dispatch
  <1> DEFINE refs == CollectSecretRefs(branch[synced].cfg, FALSE)
  <1>1. refs \in SUBSET Dests
    <2>1. branch[synced].cfg \in Config
      <3>1. branch[synced] \in CommitRecord
        BY <1>0
      <3> QED BY <3>1 DEF CommitRecord
    <2> QED BY <2>1 DEF CollectSecretRefs, Config
  <1>2. PICK token \in BOOLEAN :
            /\ proc' = [proc EXCEPT ![r] =
                   [@ EXCEPT !.pc = "context", !.token = token, !.scope = refs]]
            /\ faults' \in {faults, faults + 1} /\ faults' <= MaxFaults
    BY DEF Dispatch
  <1>t. token \in BOOLEAN /\ faults' \in 0..MaxFaults
    BY <1>0, <1>2, RunExecAssumption
  <1> HIDE DEF refs
  <1> DEFINE q == [proc[r] EXCEPT !.pc = "context", !.token = token, !.scope = refs]
             w == [row[r] EXCEPT !.status = "running"]
  <1>3. q \in Process
    BY <1>0, <1>1, <1>t DEF Process
  <1>4. q.pc = "context" /\ q.results = proc[r].results /\ q.post = proc[r].post
    BY <1>0 DEF Process
  <1>5. proc' = [proc EXCEPT ![r] = q]
    BY <1>2
  <1>6. row' = [row EXCEPT ![r] = w]
    BY DEF Dispatch
  <1>7. w \in Row
    BY <1>0 DEF Row
  <1>8. /\ w.status = "running" /\ w.kind = row[r].kind /\ w.notes = row[r].notes
        /\ w.writeback = row[r].writeback
    BY <1>0 DEF Row
  <1> HIDE DEF q, w
  <1>9. ProcessMoves(r) /\ proc'[r] = q /\ RowMoves(r) /\ row'[r] = w
    BY <1>0, <1>3, <1>5, <1>6, <1>7, AssignProcess, AssignRow
  <1>10. \A x : Commits(x)' = Commits(x)
    BY <1>0 DEF Commits
  <1>11. Local(r)
    BY <1>0, <1>t, <1>9, <1>10 DEF Local
  <1>12. /\ \A d \in Dests : proc[r].results[d] = "none"
         /\ delivered[r] = {} /\ Commits(r) = {} /\ row[r].kind # "shutdown"
         /\ ~proc[r].post /\ row[r].notes = NoNotes /\ ~row[r].writeback
    BY <1>0 DEF RunInv, NotStarted, Unseen, Early, SweptFailed, Account, PostSent, Unreported,
         Terminal
  <1>13. RunInv(r)'
    <2>1. NotStarted(r)' /\ Unseen(r)' /\ AllTried(r)' /\ ClaimTrue(r)'
      BY <1>0, <1>4, <1>8, <1>9, <1>10, <1>12 DEF NotStarted, Unseen, AllTried, ClaimTrue
    <2>2. ResultsTrue(r)'
      BY <1>0, <1>4, <1>8, <1>9, <1>12 DEF RunInv, ResultsTrue
    <2>3. OutcomeTrue(r)' /\ SweptFailed(r)'
      BY <1>4, <1>8, <1>9, <1>12 DEF OutcomeTrue, SweptFailed, Terminal
    <2>4. Account(r)'
      BY <1>4, <1>8, <1>9, <1>12
         DEF Account, PostSent, Unreported, OneAccount, ReportHeard, Terminal
    <2> QED BY <2>1, <2>2, <2>3, <2>4 DEF RunInv
  <1> QED BY <1>11, <1>13

\* One destination gets its result.
LEMMA PublishStep ==
    ASSUME TypeOK, NEW r \in Runs, RunInv(r), NEW d \in Dests, Publish(r, d)
    PROVE  Local(r) /\ RunInv(r)'
  <1>0. /\ row \in [Runs -> Row] /\ row[r] \in Row /\ row' = row
        /\ proc \in [Runs -> Process] /\ proc[r] \in Process
        /\ branch \in Seq(CommitRecord) /\ synced \in 1..Len(branch)
        /\ faults \in 0..MaxFaults /\ delivered \in [Runs -> SUBSET Dests]
        /\ UNCHANGED <<branch, synced, faults>>
        /\ proc[r].pc = "publish"
    BY DEF TypeOK, CommitRecord, Publish
  <1>1. PICK x \in {"sent", "skipped", "failed"} :
            /\ proc' = [proc EXCEPT ![r].results[d] = x]
            /\ x = "skipped" => ~ShouldPublish(proc[r].cfg, d, TRUE)
            /\ \/ delivered' = delivered /\ x # "sent"
               \/ delivered' = [delivered EXCEPT ![r] = @ \cup {d}]
    BY DEF Publish, Expected
  <1> DEFINE f == [proc[r].results EXCEPT ![d] = x]
             q == [proc[r] EXCEPT !.results = f]
  <1>2. proc' = [proc EXCEPT ![r] = q]
    BY <1>1
  <1>3. /\ f \in [Dests -> Note] /\ f[d] = x
        /\ \A y \in Dests : y # d => f[y] = proc[r].results[y]
    <2>1. proc[r].results \in [Dests -> Note]
      BY <1>0 DEF Process
    <2> QED BY <2>1 DEF Note
  <1> HIDE DEF f
  <1>4. q \in Process
    BY <1>0, <1>3 DEF Process
  <1>5. q.pc = proc[r].pc /\ q.cfg = proc[r].cfg /\ q.results = f /\ q.post = proc[r].post
    BY <1>0 DEF Process
  <1> HIDE DEF q
  <1>6. ProcessMoves(r) /\ proc'[r] = q
    BY <1>0, <1>2, <1>4, AssignProcess
  <1>7. /\ delivered' \in [Runs -> SUBSET Dests] /\ delivered[r] \subseteq delivered'[r]
        /\ \A y \in Runs : y # r => delivered'[y] = delivered[y]
        /\ x = "sent" => d \in delivered'[r]
    BY <1>0, <1>1
  <1>8. \A y : Commits(y)' = Commits(y)
    BY <1>0 DEF Commits
  <1>9. Local(r)
    BY <1>0, <1>6, <1>7, <1>8 DEF Local, RowMoves
  <1>10. RunInv(r)'
    <2>a. Account(r)' /\ ~proc[r].post
      BY <1>0, <1>5, <1>6, AtWork
    <2>1. NotStarted(r)' /\ Unseen(r)' /\ AllTried(r)' /\ ClaimTrue(r)'
      BY <1>0, <1>5, <1>6, <2>a DEF RunInv, NotStarted, Unseen, Early, AllTried, ClaimTrue
    <2>2. ResultsTrue(r)'
      <3> SUFFICES ASSUME NEW y \in Dests
                   PROVE  /\ f[y] = "sent" => y \in delivered'[r]
                          /\ f[y] = "skipped" => ~ShouldPublish(proc[r].cfg, y, TRUE)
                          /\ row[r].notes[y] = "sent" => y \in delivered'[r]
        BY <1>0, <1>5, <1>6 DEF ResultsTrue
      <3>1. /\ proc[r].results[y] = "sent" => y \in delivered[r]
            /\ proc[r].results[y] = "skipped" => ~ShouldPublish(proc[r].cfg, y, TRUE)
            /\ row[r].notes[y] = "sent" => y \in delivered[r]
        BY DEF RunInv, ResultsTrue
      <3>2. CASE y = d
        BY <1>1, <1>3, <1>7, <3>1, <3>2
      <3>3. CASE y # d
        BY <1>3, <1>7, <3>1, <3>3
      <3> QED BY <3>2, <3>3
    <2>3. OutcomeTrue(r)' /\ SweptFailed(r)'
      BY <1>0 DEF RunInv, OutcomeTrue, SweptFailed
    <2> QED BY <2>a, <2>1, <2>2, <2>3 DEF RunInv
  <1> QED BY <1>9, <1>10

\* With output, the outcome a run claims is succeeded or partial_failure.
LEMMA OutcomeIs ==
    ASSUME NEW p \in Process
    PROVE  /\ Outcome(p) \in {"succeeded", "partial_failure"} /\ Outcome(p) \in Terminal
           /\ Outcome(p) = "succeeded" => p.writebackOK /\ \A d \in Dests : p.results[d] # "failed"
  BY DEF Outcome, Terminal

\* Claiming an outcome keeps the invariant when the claim is true.
LEMMA ClaimStep ==
    ASSUME NEW r \in Runs, RunInv(r), proc[r].pc \in {"publish", "commit", "push"},
           row'[r] = row[r], delivered'[r] = delivered[r],
           SameWork(proc[r], proc'[r]), proc'[r].pc = "finalize",
           proc'[r].body.status \in {"succeeded", "partial_failure"},
           \A d \in proc[r].cfg.dests : proc[r].results[d] # "none",
           proc'[r].body.status = "succeeded" =>
               /\ \A d \in Dests : proc[r].results[d] # "failed"
               /\ MustPush(proc[r]) => Commits(r)' # {}
    PROVE  RunInv(r)'
  <1>a. Account(r)' /\ ~proc[r].post
    BY AtWork DEF SameWork
  <1>1. NotStarted(r)' /\ Unseen(r)' /\ AllTried(r)' /\ SweptFailed(r)'
    BY DEF RunInv, NotStarted, Unseen, Early, AllTried, SweptFailed
  <1>2. ResultsTrue(r)'
    BY DEF RunInv, ResultsTrue, SameWork
  <1>3. ClaimTrue(r)'
    BY <1>a DEF ClaimTrue, SameWork
  <1>4. OutcomeTrue(r)'
    BY DEF RunInv, OutcomeTrue
  <1> QED BY <1>a, <1>1, <1>2, <1>3, <1>4 DEF RunInv

\* Going on from one point of the work to the next keeps it too.
LEMMA OnwardStep ==
    ASSUME NEW r \in Runs, RunInv(r), proc[r].pc \in {"publish", "commit"},
           row'[r] = row[r], delivered'[r] = delivered[r], Commits(r)' = Commits(r),
           proc'[r].cfg = proc[r].cfg, proc'[r].results = proc[r].results,
           proc'[r].post = proc[r].post, proc'[r].pc \in {"commit", "push"},
           \A d \in proc[r].cfg.dests : proc[r].results[d] # "none"
    PROVE  RunInv(r)'
  <1>a. Account(r)' /\ ~proc[r].post
    BY AtWork
  <1>1. NotStarted(r)' /\ Unseen(r)' /\ AllTried(r)' /\ SweptFailed(r)'
    BY DEF RunInv, NotStarted, Unseen, Early, AllTried, SweptFailed
  <1>2. ResultsTrue(r)'
    BY DEF RunInv, ResultsTrue
  <1>3. ClaimTrue(r)' /\ OutcomeTrue(r)'
    BY <1>a DEF RunInv, ClaimTrue, OutcomeTrue
  <1> QED BY <1>a, <1>1, <1>2, <1>3 DEF RunInv

\* The results are in: the memory block is written back, or the run is finalized.
LEMMA AfterPublishStep ==
    ASSUME TypeOK, NEW r \in Runs, RunInv(r), AfterPublish(r)
    PROVE  Local(r) /\ RunInv(r)'
  <1> DEFINE p == proc[r]
  <1>0. /\ proc \in [Runs -> Process] /\ p \in Process /\ p.pc = "publish"
        /\ UNCHANGED <<branch, synced, row, delivered, faults>>
        /\ \A d \in p.cfg.dests : p.results[d] # "none"
    BY DEF TypeOK, AfterPublish
  <1>1. CASE p.cfg.writeback /\ p.memory
    <2> DEFINE q == [p EXCEPT !.pc = "commit"]
    <2>1. proc' = [proc EXCEPT ![r] = q]
      BY <1>1 DEF AfterPublish
    <2>2. q \in Process /\ q.pc = "commit" /\ SameWork(p, q)
      BY <1>0, NextRecord
    <2> HIDE DEF q
    <2>3. ProcessMoves(r) /\ proc'[r] = q
      BY <1>0, <2>1, <2>2, AssignProcess
    <2>4. Local(r) /\ row'[r] = row[r] /\ delivered'[r] = delivered[r] /\ Commits(r)' = Commits(r)
      BY <1>0, <2>3, ProcessOnly
    <2>5. q.cfg = p.cfg /\ q.results = p.results /\ q.post = p.post
      BY <2>2 DEF SameWork
    <2> QED BY <1>0, <2>2, <2>3, <2>4, <2>5, OnwardStep
  <1>2. CASE ~(p.cfg.writeback /\ p.memory)
    <2> DEFINE b == [status |-> Outcome(p), kind |-> "none"]
               q == [p EXCEPT !.pc = "finalize", !.body = b]
    <2>1. proc' = [proc EXCEPT ![r] = q]
      BY <1>2 DEF AfterPublish
    <2>2. b \in [status : Terminal, kind : Kinds] /\ b.status = Outcome(p)
      BY <1>0, OutcomeIs DEF Kinds
    <2> HIDE DEF b
    <2>3. q \in Process /\ q.pc = "finalize" /\ SameWork(p, q) /\ q.body = b
      BY <1>0, <2>2, FinalizeRecord
    <2> HIDE DEF q
    <2>4. ProcessMoves(r) /\ proc'[r] = q
      BY <1>0, <2>1, <2>3, AssignProcess
    <2>5. Local(r) /\ row'[r] = row[r] /\ delivered'[r] = delivered[r]
      BY <1>0, <2>4, ProcessOnly
    <2>6. ~MustPush(p)
      BY <1>2 DEF MustPush
    <2>7. /\ Outcome(p) \in {"succeeded", "partial_failure"}
          /\ Outcome(p) = "succeeded" => \A d \in Dests : p.results[d] # "failed"
      BY <1>0, OutcomeIs
    <2> QED BY <1>0, <2>2, <2>3, <2>4, <2>5, <2>6, <2>7, ClaimStep
  <1> QED BY <1>1, <1>2

\* The record of a run that is finished with its write-back.
LEMMA FinishRecord ==
    ASSUME NEW p \in Process, NEW ok \in BOOLEAN
    PROVE  /\ Finish(p, ok) \in Process /\ Finish(p, ok).pc = "finalize"
           /\ SameWork(p, Finish(p, ok))
           /\ Finish(p, ok).body.status \in {"succeeded", "partial_failure"}
           /\ Finish(p, ok).body.status = "succeeded" =>
                  ok /\ \A d \in Dests : p.results[d] # "failed"
  <1> DEFINE q == [p EXCEPT !.writebackOK = ok]
  <1>1. q \in Process
    BY DEF Process
  <1>2. /\ q.writebackOK = ok /\ q.results = p.results /\ q.cfg = p.cfg
        /\ q.lost = p.lost /\ q.refused = p.refused /\ q.post = p.post
        /\ q.memory = p.memory /\ q.token = p.token
    BY DEF Process
  <1> DEFINE b == [status |-> Outcome(q), kind |-> "none"]
             z == [q EXCEPT !.pc = "finalize", !.body = b]
  <1>3. Finish(p, ok) = z
    BY DEF Finish
  <1> HIDE DEF q
  <1>4. b \in [status : Terminal, kind : Kinds] /\ b.status = Outcome(q)
    BY <1>1, OutcomeIs DEF Kinds
  <1> HIDE DEF b
  <1>5. z \in Process /\ z.pc = "finalize" /\ SameWork(q, z) /\ z.body = b
    BY <1>1, <1>4, FinalizeRecord
  <1> HIDE DEF z
  <1>6. SameWork(p, q)
    BY <1>2 DEF SameWork, MustPush
  <1>7. SameWork(p, z)
    BY <1>5, <1>6 DEF SameWork
  <1>8. /\ Outcome(q) \in {"succeeded", "partial_failure"}
        /\ Outcome(q) = "succeeded" => ok /\ \A d \in Dests : p.results[d] # "failed"
    BY <1>1, <1>2, OutcomeIs
  <1> QED BY <1>3, <1>4, <1>5, <1>7, <1>8

\* The commit in the clone fails, stays there, or is to be pushed.
LEMMA CommitStep ==
    ASSUME TypeOK, NEW r \in Runs, RunInv(r), Commit(r)
    PROVE  Local(r) /\ RunInv(r)'
  <1> DEFINE p == proc[r]
  <1>0. /\ proc \in [Runs -> Process] /\ p \in Process /\ p.pc = "commit"
        /\ UNCHANGED <<branch, synced, row, delivered, faults>>
        /\ \A d \in p.cfg.dests : p.results[d] # "none"
    BY DEF TypeOK, Commit, RunInv, AllTried
  <1> DEFINE c == [p EXCEPT !.committed = TRUE]
  <1>c. c \in Process /\ SameWork(p, c) /\ c.token = p.token
    <2>1. c \in Process
      BY <1>0 DEF Process
    <2>2. /\ c.cfg = p.cfg /\ c.results = p.results
          /\ c.lost = p.lost /\ c.refused = p.refused /\ c.post = p.post
          /\ c.memory = p.memory /\ c.token = p.token
      BY <1>0 DEF Process
    <2> HIDE DEF c
    <2> QED BY <2>1, <2>2 DEF SameWork, MustPush
  <1> HIDE DEF c
  <1>1. ASSUME NEW q \in Process, proc' = [proc EXCEPT ![r] = Finish(q, FALSE)] \/
                  (proc' = [proc EXCEPT ![r] = Finish(q, TRUE)] /\ ~p.token),
               SameWork(p, q)
        PROVE  Local(r) /\ RunInv(r)'
    <2>1. PICK ok \in BOOLEAN : proc' = [proc EXCEPT ![r] = Finish(q, ok)] /\ (ok => ~p.token)
      BY <1>1
    <2>2. PICK z : z = Finish(q, ok)
      OBVIOUS
    <2>3. /\ z \in Process /\ z.pc = "finalize" /\ SameWork(q, z)
          /\ z.body.status \in {"succeeded", "partial_failure"}
          /\ z.body.status = "succeeded" => ok /\ \A d \in Dests : q.results[d] # "failed"
      BY <2>2, FinishRecord
    <2>4. SameWork(p, z) /\ (z.body.status = "succeeded" => \A d \in Dests : p.results[d] # "failed")
      BY <1>1, <2>3 DEF SameWork
    <2>5. ProcessMoves(r) /\ proc'[r] = z
      BY <1>0, <2>1, <2>2, <2>3, AssignProcess
    <2>6. Local(r) /\ row'[r] = row[r] /\ delivered'[r] = delivered[r]
      BY <1>0, <2>5, ProcessOnly
    <2>7. z.body.status = "succeeded" => ~MustPush(p)
      BY <2>1, <2>3 DEF MustPush
    <2> QED BY <1>0, <2>3, <2>4, <2>5, <2>6, <2>7, ClaimStep
  <1>2. CASE proc' = [proc EXCEPT ![r] = Finish(p, FALSE)]
    <2>1. SameWork(p, p)
      BY DEF SameWork
    <2> QED BY <1>0, <1>1, <1>2, <2>1
  <1>3. CASE proc' = [proc EXCEPT ![r] = Finish(c, TRUE)] /\ ~p.token
    BY <1>1, <1>3, <1>c
  <1>4. CASE proc' = [proc EXCEPT ![r] = [p EXCEPT !.pc = "push", !.committed = TRUE]]
    <2> DEFINE q == [p EXCEPT !.pc = "push", !.committed = TRUE]
    <2>1. q \in Process
      BY <1>0 DEF Process
    <2>2. q.pc = "push" /\ q.cfg = p.cfg /\ q.results = p.results /\ q.post = p.post
      BY <1>0 DEF Process
    <2> HIDE DEF q
    <2>3. ProcessMoves(r) /\ proc'[r] = q
      BY <1>0, <1>4, <2>1, AssignProcess DEF q
    <2>4. Local(r) /\ row'[r] = row[r] /\ delivered'[r] = delivered[r] /\ Commits(r)' = Commits(r)
      BY <1>0, <2>3, ProcessOnly
    <2> QED BY <1>0, <2>2, <2>3, <2>4, OnwardStep
  <1>5. \/ proc' = [proc EXCEPT ![r] = Finish(p, FALSE)]
        \/ proc' = [proc EXCEPT ![r] = [p EXCEPT !.pc = "push", !.committed = TRUE]]
        \/ proc' = [proc EXCEPT ![r] = Finish(c, TRUE)] /\ ~p.token
    BY DEF Commit, c
  <1> QED BY <1>2, <1>3, <1>4, <1>5

\* The push is accepted while the branch is where the run found it, and said to be or
\* not, or refused.
LEMMA PushStep ==
    ASSUME TypeOK, NEW r \in Runs, RunInv(r), Push(r)
    PROVE  Local(r) /\ RunInv(r)'
  <1> DEFINE p == proc[r]
  <1>0. /\ proc \in [Runs -> Process] /\ p \in Process /\ p.pc = "push"
        /\ row \in [Runs -> Row] /\ delivered \in [Runs -> SUBSET Dests]
        /\ branch \in Seq(CommitRecord) /\ synced \in 1..Len(branch) /\ faults \in 0..MaxFaults
        /\ UNCHANGED <<synced, row, delivered, faults>>
        /\ \A d \in p.cfg.dests : p.results[d] # "none"
    BY DEF TypeOK, CommitRecord, Push, RunInv, AllTried
  <1>1. PICK e : e = [by |-> r, cfg |-> p.cfg]
    OBVIOUS
  <1>2. e \in CommitRecord /\ e.by = r
    BY <1>0, <1>1 DEF Process, CommitRecord
  <1>3. PICK ok \in BOOLEAN :
            /\ proc' = [proc EXCEPT ![r] = Finish(p, ok)]
            /\ branch' = Append(branch, e) \/ (branch' = branch /\ ~ok)
    BY <1>1 DEF Push
  <1>4. PICK z : z = Finish(p, ok)
    OBVIOUS
  <1>5. /\ z \in Process /\ z.pc = "finalize" /\ SameWork(p, z)
        /\ z.body.status \in {"succeeded", "partial_failure"}
        /\ z.body.status = "succeeded" => ok /\ \A d \in Dests : p.results[d] # "failed"
    BY <1>0, <1>4, FinishRecord
  <1>6. ProcessMoves(r) /\ proc'[r] = z
    BY <1>0, <1>3, <1>4, <1>5, AssignProcess
  <1>7. /\ branch' \in Seq(CommitRecord) /\ Len(branch') >= Len(branch) /\ Len(branch) \in Nat
        /\ \A x \in Runs : x # r => (Commits(x)' = {} <=> Commits(x) = {})
        /\ ok => Commits(r)' # {}
    <2>1. CASE branch' = Append(branch, e)
      <3>1. /\ branch' \in Seq(CommitRecord) /\ Len(branch') = Len(branch) + 1
            /\ Commits(r)' # {}
            /\ \A who : who # r => (Commits(who)' = {} <=> Commits(who) = {})
        BY <1>0, <1>2, <2>1, Appended
      <3> QED BY <1>0, <3>1
    <2>2. CASE branch' = branch /\ ~ok
      BY <1>0, <2>2 DEF Commits
    <2> QED BY <1>3, <2>1, <2>2
  <1>8. Local(r)
    BY <1>0, <1>6, <1>7 DEF Local, RowMoves
  <1> QED BY <1>0, <1>5, <1>6, <1>7, <1>8, ClaimStep

\* The finalize request is let in, or refused with the runner gone.
LEMMA PostFinalizeStep ==
    ASSUME TypeOK, NEW r \in Runs, RunInv(r), PostFinalize(r)
    PROVE  Local(r) /\ RunInv(r)'
  <1> DEFINE p == proc[r]
  <1>0. /\ proc \in [Runs -> Process] /\ p \in Process /\ p.pc = "finalize"
        /\ row \in [Runs -> Row] /\ delivered \in [Runs -> SUBSET Dests]
        /\ branch \in Seq(CommitRecord) /\ synced \in 1..Len(branch)
        /\ UNCHANGED <<branch, synced, row, delivered>>
    BY DEF TypeOK, CommitRecord, PostFinalize
  <1>1. faults' \in 0..MaxFaults
    <2>1. faults \in 0..MaxFaults /\ (faults' = faults \/ (faults < MaxFaults /\ faults' = faults + 1))
      BY DEF TypeOK, PostFinalize
    <2> QED BY <2>1, RunExecAssumption
  <1>2. PICK q \in Process :
            /\ proc' = [proc EXCEPT ![r] = q]
            /\ q.results = p.results /\ q.cfg = p.cfg /\ q.body = p.body /\ q.lost = p.lost
            /\ MustPush(q) <=> MustPush(p)
            /\ (q.pc = "posted" /\ q.post) \/ (q.pc = "exited" /\ q.refused /\ q.post = p.post)
    <2> DEFINE in == [p EXCEPT !.pc = "posted", !.post = TRUE]
               out == [p EXCEPT !.pc = "exited", !.refused = TRUE]
    <2>1. in \in Process /\ out \in Process
      BY <1>0 DEF Process
    <2>2. /\ in.results = p.results /\ in.cfg = p.cfg /\ in.body = p.body /\ in.lost = p.lost
          /\ in.memory = p.memory /\ in.token = p.token /\ in.pc = "posted" /\ in.post
      BY <1>0 DEF Process
    <2>3. /\ out.results = p.results /\ out.cfg = p.cfg /\ out.body = p.body /\ out.lost = p.lost
          /\ out.memory = p.memory /\ out.token = p.token /\ out.pc = "exited" /\ out.refused
          /\ out.post = p.post
      BY <1>0 DEF Process
    <2>4. proc' = [proc EXCEPT ![r] = in] \/ proc' = [proc EXCEPT ![r] = out]
      BY DEF PostFinalize
    <2> HIDE DEF in, out
    <2> QED BY <2>1, <2>2, <2>3, <2>4 DEF MustPush
  <1>3. ProcessMoves(r) /\ proc'[r] = q
    BY <1>0, <1>2, AssignProcess
  <1>4. \A x : Commits(x)' = Commits(x)
    BY <1>0 DEF Commits
  <1>5. Local(r)
    BY <1>0, <1>1, <1>3, <1>4 DEF Local, RowMoves
  <1>6. row[r].status \in Terminal => row[r].kind = "shutdown"
    BY <1>0 DEF RunInv, OutcomeTrue
  <1>7. NotStarted(r)' /\ Unseen(r)' /\ AllTried(r)' /\ SweptFailed(r)'
    BY <1>0, <1>2, <1>3 DEF RunInv, NotStarted, Unseen, AllTried, SweptFailed, Early
  <1>8. ResultsTrue(r)' /\ ClaimTrue(r)' /\ OutcomeTrue(r)'
    BY <1>0, <1>2, <1>3, <1>4, <1>6 DEF RunInv, ResultsTrue, ClaimTrue, OutcomeTrue
  <1>9. Account(r)'
    BY <1>0, <1>2, <1>3, <1>6
       DEF RunInv, Account, PostSent, Unreported, OneAccount, ReportHeard
  <1> QED BY <1>5, <1>7, <1>8, <1>9 DEF RunInv

\* The finalize request is served: what it claims becomes the row, unless the
\* row is terminal already, and then the sweep has made it so.
LEMMA FinalizeRunStep ==
    ASSUME TypeOK, NEW r \in Runs, RunInv(r), FinalizeRun(r)
    PROVE  Local(r) /\ RunInv(r)'
  <1> DEFINE p == proc[r]
             q == [p EXCEPT !.pc = "exited", !.post = FALSE]
  <1>0. /\ proc \in [Runs -> Process] /\ p \in Process /\ p.post
        /\ row \in [Runs -> Row] /\ row[r] \in Row /\ delivered \in [Runs -> SUBSET Dests]
        /\ branch \in Seq(CommitRecord) /\ synced \in 1..Len(branch) /\ faults \in 0..MaxFaults
        /\ UNCHANGED <<branch, synced, delivered, faults>>
    BY DEF TypeOK, CommitRecord, FinalizeRun
  <1>1. proc' = [proc EXCEPT ![r] = q]
    BY DEF FinalizeRun
  <1>2. /\ q \in Process /\ q.pc = "exited" /\ ~q.post
        /\ q.cfg = p.cfg /\ q.results = p.results /\ q.body = p.body
        /\ q.committed = p.committed /\ (MustPush(q) <=> MustPush(p))
    <2>1. /\ q.cfg = p.cfg /\ q.results = p.results /\ q.body = p.body
          /\ q.committed = p.committed /\ q.memory = p.memory /\ q.token = p.token
          /\ q.pc = "exited" /\ ~q.post /\ q \in Process
      BY <1>0 DEF Process
    <2> HIDE DEF q
    <2> QED BY <2>1 DEF MustPush
  <1>p. p.pc \in {"posted", "exited"}
    BY <1>0 DEF RunInv, Account, PostSent
  <1> HIDE DEF q
  <1>3. ProcessMoves(r) /\ proc'[r] = q
    BY <1>0, <1>1, <1>2, AssignProcess
  <1>4. \A x : Commits(x)' = Commits(x)
    BY <1>0 DEF Commits
  <1>5. PICK w : w = IF row[r].status \in Terminal THEN row[r] ELSE Finalized(r)
    OBVIOUS
  <1>6. row' = [row EXCEPT ![r] = w]
    BY <1>5 DEF FinalizeRun
  <1>7. /\ p.body.status \in Terminal /\ p.body.kind \in Kinds
        /\ p.results \in [Dests -> Note] /\ p.committed \in BOOLEAN
    BY <1>0 DEF Process, Kinds
  <1>f. PICK v : v = Finalized(r)
    OBVIOUS
  <1>8. v \in Row
    <2>1. PICK st \in Terminal, k \in Kinds, n \in [Dests -> Note], b \in BOOLEAN :
              v = [row[r] EXCEPT !.status = st, !.kind = k, !.notes = n, !.writeback = b]
      BY <1>7, <1>f DEF Finalized
    <2> QED BY <1>0, <2>1 DEF Row, Kinds
  <1>9. /\ v.status = p.body.status /\ v.kind = p.body.kind /\ v.notes = p.results
        /\ v.writeback = p.committed
    BY <1>0, <1>f DEF Finalized, Row
  <1>10. RowMoves(r) /\ row'[r] = w
    BY <1>0, <1>5, <1>6, <1>8, <1>f, AssignRow
  <1>11. Local(r)
    BY <1>0, <1>3, <1>4, <1>10 DEF Local
  <1>12. CASE row[r].status \in Terminal
    <2>0. w = row[r]
      BY <1>5, <1>12
    <2>1. NotStarted(r)' /\ Unseen(r)' /\ AllTried(r)' /\ ClaimTrue(r)'
      BY <1>2, <1>3, <1>10, <1>12, <2>0 DEF NotStarted, Unseen, AllTried, ClaimTrue, Early, Terminal
    <2>2. ResultsTrue(r)'
      BY <1>0, <1>2, <1>3, <1>10, <2>0 DEF RunInv, ResultsTrue
    <2>4. row[r].kind = "shutdown"
      BY <1>0, <1>12 DEF RunInv, Account, Unreported
    <2>5. Account(r)'
      BY <1>2, <1>3, <1>10, <1>12, <2>0, <2>4
         DEF RunInv, Account, PostSent, Unreported, OneAccount, ReportHeard
    <2>3. OutcomeTrue(r)' /\ SweptFailed(r)'
      BY <1>10, <2>0, <2>4 DEF RunInv, OutcomeTrue, SweptFailed
    <2> QED BY <1>11, <2>1, <2>2, <2>3, <2>5 DEF RunInv
  <1>13. CASE row[r].status \notin Terminal
    <2>0. w = v
      BY <1>5, <1>13, <1>f
    <2>1. NotStarted(r)' /\ Unseen(r)' /\ AllTried(r)' /\ ClaimTrue(r)'
      BY <1>2, <1>3, <1>7, <1>9, <1>10, <2>0
         DEF NotStarted, Unseen, AllTried, ClaimTrue, Early, Terminal
    <2>2. ResultsTrue(r)'
      BY <1>0, <1>2, <1>3, <1>9, <1>10, <2>0 DEF RunInv, ResultsTrue
    <2>3. SweptFailed(r)'
      BY <1>7, <1>9, <1>10, <2>0 DEF SweptFailed, Kinds
    <2>5. Account(r)'
      <3>1. Finalized(r)' = v
        <4>1. Finalized(r)' = [v EXCEPT !.status = p.body.status, !.kind = p.body.kind,
                                        !.notes = p.results, !.writeback = p.committed]
          BY <1>2, <1>3, <1>10, <2>0 DEF Finalized
        <4> QED BY <1>8, <1>9, <4>1 DEF Row
      <3>2. v.kind # "shutdown" /\ v.status \in Terminal
        BY <1>7, <1>9 DEF Kinds
      <3> QED BY <1>2, <1>3, <1>10, <2>0, <3>1, <3>2
              DEF Account, PostSent, Unreported, OneAccount, ReportHeard
    <2>4. OutcomeTrue(r)'
      <3>1. /\ p.body.status = "failed" => delivered[r] = {} /\ Commits(r) = {}
            /\ p.body.status # "failed" => \A d \in p.cfg.dests : p.results[d] # "none"
            /\ p.body.status = "succeeded" =>
                   /\ \A d \in Dests : p.results[d] # "failed"
                   /\ MustPush(p) => Commits(r) # {}
        BY <1>0 DEF RunInv, ClaimTrue
      <3>2. ASSUME p.body.status = "succeeded" PROVE Expected(r)' \subseteq delivered'[r]
        <4> SUFFICES ASSUME NEW d \in p.cfg.dests, ShouldPublish(p.cfg, d, TRUE)
                     PROVE  d \in delivered[r]
          BY <1>0, <1>2, <1>3 DEF Expected
        <4>1. p.cfg \in Config
          BY <1>0 DEF Process
        <4>2. d \in Dests
          BY <4>1 DEF Config
        <4>3. p.results[d] \in Note /\ p.results[d] # "none" /\ p.results[d] # "failed"
          BY <1>7, <3>1, <3>2, <4>2
        <4>4. p.results[d] # "skipped"
          BY <4>2 DEF RunInv, ResultsTrue
        <4>5. p.results[d] = "sent"
          BY <4>3, <4>4 DEF Note
        <4> QED BY <4>2, <4>5 DEF RunInv, ResultsTrue
      <3>3. q.cfg = p.cfg /\ (MustPush(q) <=> MustPush(p))
        BY <1>2
      <3> QED BY <1>0, <1>2, <1>3, <1>4, <1>9, <1>10, <2>0, <3>1, <3>2, <3>3 DEF OutcomeTrue
    <2> QED BY <1>11, <2>1, <2>2, <2>3, <2>4, <2>5 DEF RunInv
  <1> QED BY <1>12, <1>13

\* The process dies: its row is left to the sweep.
LEMMA LostStep ==
    ASSUME TypeOK, NEW r \in Runs, RunInv(r), Lost(r)
    PROVE  Local(r) /\ RunInv(r)'
  <1> DEFINE p == proc[r]
  <1>0. /\ proc \in [Runs -> Process] /\ p \in Process /\ p.pc \notin {"none", "exited"}
        /\ row \in [Runs -> Row] /\ delivered \in [Runs -> SUBSET Dests]
        /\ branch \in Seq(CommitRecord) /\ synced \in 1..Len(branch)
        /\ UNCHANGED <<branch, synced, row, delivered>>
    BY DEF TypeOK, CommitRecord, Lost
  <1>1. faults' \in 0..MaxFaults
    <2>1. faults \in 0..MaxFaults /\ faults < MaxFaults /\ faults' = faults + 1
      BY DEF TypeOK, Lost
    <2> QED BY <2>1, RunExecAssumption
  <1>2. PICK post \in {FALSE, p.post} :
            proc' = [proc EXCEPT ![r] =
                [p EXCEPT !.pc = "exited", !.lost = TRUE, !.post = post]]
    BY DEF Lost
  <1> DEFINE q == [p EXCEPT !.pc = "exited", !.lost = TRUE, !.post = post]
  <1>3. q \in Process
    BY <1>0, <1>2 DEF Process
  <1>4. /\ q.pc = "exited" /\ q.lost = TRUE /\ q.results = p.results /\ q.cfg = p.cfg
        /\ q.body = p.body /\ q.post = post /\ q.memory = p.memory /\ q.token = p.token
    BY <1>0 DEF Process
  <1>q. proc' = [proc EXCEPT ![r] = q]
    BY <1>2
  <1> HIDE DEF q
  <1>5. ProcessMoves(r) /\ proc'[r] = q
    BY <1>0, <1>q, <1>3, AssignProcess
  <1>6. \A x : Commits(x)' = Commits(x)
    BY <1>0 DEF Commits
  <1>7. Local(r)
    BY <1>0, <1>1, <1>5, <1>6 DEF Local, RowMoves
  <1>m. (MustPush(q) <=> MustPush(p)) /\ (q.post => p.post)
    BY <1>2, <1>4 DEF MustPush
  <1>8. NotStarted(r)' /\ Unseen(r)' /\ AllTried(r)'
    BY <1>0, <1>4, <1>5 DEF RunInv, NotStarted, Unseen, AllTried, Early
  <1>9. ResultsTrue(r)' /\ ClaimTrue(r)'
    BY <1>0, <1>4, <1>5, <1>6, <1>m DEF RunInv, ResultsTrue, ClaimTrue
  <1>10. row[r].status \in Terminal => row[r].kind = "shutdown"
    BY <1>0 DEF RunInv, OutcomeTrue
  <1>11. OutcomeTrue(r)' /\ SweptFailed(r)'
    BY <1>0, <1>10 DEF RunInv, OutcomeTrue, SweptFailed
  <1>12. Account(r)'
    BY <1>0, <1>4, <1>5, <1>10, <1>m
       DEF RunInv, Account, PostSent, Unreported, OneAccount, ReportHeard
  <1> QED BY <1>7, <1>8, <1>9, <1>11, <1>12 DEF RunInv

-----------------------------------------------------------------------------
(* The theorems.                                                            *)

\* ExecInv holds initially.
LEMMA InitExec == Init => ExecInv
  <1> SUFFICES ASSUME Init PROVE ExecInv
    OBVIOUS
  <1>1. PICK c \in Configs :
            /\ branch = <<[by |-> People, cfg |-> c]>>
            /\ proc = [r \in Runs |->
                   [pc |-> "none", token |-> FALSE, lost |-> FALSE,
                    refused |-> FALSE, post |-> FALSE, scope |-> {}, manifest |-> {}, cfg |-> c,
                    memory |-> FALSE, results |-> NoNotes, writebackOK |-> TRUE,
                    committed |-> FALSE,
                    body |-> [status |-> "failed", kind |-> "none"]]]
    BY DEF Init
  <1>2. c \in Config /\ NoNotes \in [Dests -> Note] /\ \A d \in Dests : NoNotes[d] = "none"
    BY RunExecAssumption DEF NoNotes, Note
  <1>3. NewRow \in Row /\ NewRow.status = "none" /\ NewRow.kind = "none"
        /\ NewRow.notes = NoNotes /\ ~NewRow.writeback
    BY <1>2 DEF NewRow, Row
  <1>4. branch \in Seq(CommitRecord) /\ Len(branch) = 1 /\ branch[1].by = People
    <2>1. PICK e \in CommitRecord : branch = <<e>> /\ e.by = People
      BY <1>1, <1>2 DEF CommitRecord
    <2> QED BY <2>1
  <1>5. proc \in [Runs -> Process]
    <2>1. [status |-> "failed", kind |-> "none"] \in [status : Terminal, kind : {"none", "runner"}]
      BY DEF Terminal
    <2> QED BY <1>1, <1>2, <2>1 DEF Process
  <1>6. \A r \in Runs : proc[r].pc = "none" /\ proc[r].results = NoNotes /\ ~proc[r].post
    BY <1>1
  <1>7. TypeOK
    <2>1. /\ synced \in 1..Len(branch) /\ faults \in 0..MaxFaults
          /\ row \in [Runs -> Row] /\ delivered \in [Runs -> SUBSET Dests]
      BY <1>3, <1>4, RunExecAssumption DEF Init
    <2> QED BY <1>4, <1>5, <2>1 DEF TypeOK, CommitRecord
  <1>8. ASSUME NEW r \in Runs PROVE Commits(r) = {} /\ row[r] = NewRow /\ delivered[r] = {}
    <2>1. Commits(r) = {}
      BY <1>4, RunExecAssumption DEF Commits
    <2> QED BY <2>1 DEF Init
  <1>9. ASSUME NEW r \in Runs PROVE RunInv(r)
    BY <1>2, <1>3, <1>6, <1>8 DEF RunInv, NotStarted, Unseen, ResultsTrue, AllTried, ClaimTrue,
         OutcomeTrue, SweptFailed, Account, PostSent, Unreported, OneAccount, ReportHeard, Terminal
  <1> QED BY <1>7, <1>9 DEF ExecInv

\* Every step keeps the types and the invariant of every run: a step of one run
\* shows to another only as a commit on the branch that is not the other's.
LEMMA ExecStep == ExecInv /\ [Next]_vars => ExecInv'
  <1> SUFFICES ASSUME ExecInv, [Next]_vars PROVE ExecInv'
    OBVIOUS
  <1>0. TypeOK /\ \A r \in Runs : RunInv(r)
    BY DEF ExecInv
  <1>1. ASSUME NEW r \in Runs, Local(r), RunInv(r)' PROVE ExecInv'
    <2>1. TypeOK'
      BY <1>1 DEF Local, ProcessMoves, RowMoves, TypeOK, CommitRecord
    <2>2. ASSUME NEW x \in Runs, x # r PROVE RunInv(x)'
      BY <1>0, <1>1, <2>2, OtherRun DEF Local, ProcessMoves, RowMoves
    <2> QED BY <1>1, <2>1, <2>2 DEF ExecInv
  <1>2. ASSUME UNCHANGED <<row, proc, delivered, faults>>,
               branch' \in Seq(CommitRecord), synced' \in 1..Len(branch'),
               \A x \in Runs : Commits(x)' = {} <=> Commits(x) = {}
        PROVE  ExecInv'
    <2>1. TypeOK'
      BY <1>0, <1>2 DEF TypeOK, CommitRecord
    <2>2. ASSUME NEW x \in Runs PROVE RunInv(x)'
      BY <1>0, <1>2, OtherRun
    <2> QED BY <2>1, <2>2 DEF ExecInv
  <1>3. branch \in Seq(CommitRecord) /\ synced \in 1..Len(branch) /\ Len(branch) \in Nat
    BY <1>0 DEF TypeOK, CommitRecord
  <1>4. CASE UNCHANGED vars
    BY <1>2, <1>3, <1>4 DEF vars, Commits
  <1>5. CASE PeoplePush
    <2>1. PICK c \in Configs : branch' = Append(branch, [by |-> People, cfg |-> c])
      BY <1>5 DEF PeoplePush
    <2>2. PICK e : e = [by |-> People, cfg |-> c]
      OBVIOUS
    <2>3. e \in CommitRecord /\ e.by = People
      BY <2>2, RunExecAssumption DEF CommitRecord
    <2>4. /\ branch' \in Seq(CommitRecord) /\ Len(branch') = Len(branch) + 1
          /\ \A who : who # People => (Commits(who)' = {} <=> Commits(who) = {})
      BY <1>3, <2>1, <2>2, <2>3, Appended
    <2> QED BY <1>2, <1>3, <1>5, <2>4, RunExecAssumption DEF PeoplePush
  <1>6. CASE Sync
    BY <1>2, <1>3, <1>6 DEF Sync, Commits
  <1>7. ASSUME NEW r \in Runs,
               InsertRun(r) \/ Dispatch(r) \/ Runner(r) \/ FinalizeRun(r) \/ Lost(r) \/ Sweep(r)
        PROVE  ExecInv'
    BY <1>0, <1>1, <1>7, InsertRunStep, DispatchStep, SetupStep, PublishStep, AfterPublishStep,
       CommitStep, PushStep, PostFinalizeStep, FinalizeRunStep, LostStep, SweepStep DEF Runner
  <1> QED BY <1>4, <1>5, <1>6, <1>7 DEF Next

\* The invariant holds throughout.
LEMMA ExecHolds == Spec => []ExecInv
  BY InitExec, ExecStep, PTL DEF Spec

\* A run that failed of itself has published nothing and committed nothing, for
\* every failure the runner reports and whatever other runs do meanwhile.
THEOREM FailuresAreSilent == Spec => []FailedIsSilent
  <1>1. ExecInv => FailedIsSilent
    BY DEF ExecInv, RunInv, OutcomeTrue, FailedIsSilent, Terminal
  <1> QED BY <1>1, ExecHolds, PTL

\* A run called succeeded reached every destination meant for it, and pushed
\* the memory block it had to write back.
THEOREM SuccessIsComplete == Spec => []SucceededIsComplete
  <1>1. ExecInv => SucceededIsComplete
    BY DEF ExecInv, RunInv, OutcomeTrue, SweptFailed, MustPush, SucceededIsComplete, Terminal
  <1> QED BY <1>1, ExecHolds, PTL

\* The delivery records on a row agree with what the destinations received.
THEOREM RecordsAreTrue == Spec => []NotesAreTrue
  <1>1. ExecInv => NotesAreTrue
    BY DEF ExecInv, RunInv, OutcomeTrue, ResultsTrue, SweptFailed, NotesAreTrue, Terminal
  <1> QED BY <1>1, ExecHolds, PTL

\* A step never touches a row that has its outcome: what may write it is the
\* sweep, which passes it by, or a request, which is refused.
LEMMA TerminalRowStays ==
    ASSUME ExecInv, [Next]_vars, NEW r \in Runs, row[r].status \in Terminal
    PROVE  row'[r] = row[r]
  <1>1. row \in [Runs -> Row] /\ row[r].status \notin {"none", "pending", "running"}
    BY DEF ExecInv, TypeOK, Terminal
  <1>2. CASE UNCHANGED row
    BY <1>2
  <1>3. ASSUME NEW x \in Runs, InsertRun(x) \/ Dispatch(x) \/ FinalizeRun(x) \/ Sweep(x)
        PROVE  row'[r] = row[r]
    <2>1. CASE x # r
      BY <1>1, <1>3, <2>1 DEF InsertRun, Dispatch, FinalizeRun, Sweep
    <2>2. CASE x = r
      BY <1>1, <1>3, <2>2 DEF InsertRun, Dispatch, FinalizeRun, Sweep
    <2> QED BY <2>1, <2>2
  <1>4. ASSUME NEW x \in Runs, Runner(x) PROVE UNCHANGED row
    BY <1>4 DEF Runner, GetRunContext, GetSecrets, Clone, Engine, Publish, AfterPublish, Commit,
         Push, PostFinalize
  <1>5. \/ UNCHANGED row
        \/ \E x \in Runs : InsertRun(x) \/ Dispatch(x) \/ FinalizeRun(x) \/ Sweep(x)
    BY <1>4 DEF Next, vars, PeoplePush, Sync, Lost
  <1> QED BY <1>2, <1>3, <1>5

\* The outcome of a run is one account, the first and whole, however its deadline,
\* the sweep, the deaths of its runner and the two halves of its finalize request
\* fall; and a runner whose report can be heard leaves one.
THEOREM OutcomesStand == Spec => OutcomeStands
  <1> DEFINE A == \A r \in Runs : /\ row[r].status \in Terminal => row'[r] = row[r]
                                 /\ OneAccount(r)' /\ ReportHeard(r)'
  <1>1. ExecInv /\ [Next]_vars => A
    <2> SUFFICES ASSUME ExecInv, [Next]_vars PROVE A
      OBVIOUS
    <2>1. ExecInv'
      BY ExecStep
    <2> QED BY <2>1, TerminalRowStays DEF ExecInv, RunInv, Account
  <1>2. ExecInv /\ [Next]_vars => [A]_vars
    BY <1>1
  <1> QED BY <1>2, ExecHolds, PTL DEF Spec, OutcomeStands
=============================================================================
