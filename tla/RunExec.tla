------------------------------- MODULE RunExec -------------------------------
(***************************************************************************)
(* What one run does between its dispatch and its last row update: the     *)
(* HTTP runner (cmd/cronfoundry/runner.go), the engine it calls            *)
(* (internal/runner), the endpoints it talks to (internal/api), and the    *)
(* branch of the skill repository that runs read and write back to.        *)
(*                                                                         *)
(* Runs of one repository overlap; pushes and syncs move the branch and    *)
(* the synced configuration while they work.  A run is pinned to a commit  *)
(* when its row is inserted, its token's scope is fixed when it is         *)
(* dispatched, and its manifest of secrets is computed when it asks.       *)
(*                                                                         *)
(* A destination stands for its secret as well.  One runner per row: how   *)
(* rows are dispatched, and what a second runner of a row does, is         *)
(* Scheduler's subject.                                                    *)
(***************************************************************************)
EXTENDS Naturals, Sequences, FiniteSets

CONSTANTS
    Runs,        \* run rows of schedules of one repository
    Dests,       \* destinations, each with the secret it needs
    Mails,       \* the destinations that are email
    Issues,      \* the destinations that are GitHub issues
    Servers,     \* secrets of MCP servers
    Configs,     \* manifests a commit of the repository may hold
    MaxCommits,  \* bound: commits pushed by people
    MaxFaults    \* bound: installation tokens that cannot be minted, processes that
                 \* die, finalize requests that are refused or lost

Config == [dests : SUBSET Dests, onFailure : SUBSET Dests,
           env : SUBSET Dests, mcp : SUBSET Servers, writeback : BOOLEAN]

\* Who pushes to the branch besides the runs.
People == "people"

ASSUME RunExecAssumption ==
    /\ Mails \subseteq Dests /\ Issues \subseteq Dests \ Mails
    /\ Configs \subseteq Config /\ Configs # {} /\ People \notin Runs
    /\ MaxCommits \in Nat \ {0} /\ MaxFaults \in Nat

VARIABLES
    branch,     \* the default branch: who committed, and the manifest in the commit
    synced,     \* the commit the skill and schedule rows were last synced to
    row,        \* the run rows
    proc,       \* the runner processes
    delivered,  \* destinations that received something from each run
    faults

vars == <<branch, synced, row, proc, delivered, faults>>

Terminal == {"succeeded", "partial_failure", "failed"}
Note == {"none", "sent", "skipped", "failed"}
NoNotes == [d \in Dests |-> "none"]

Row == [status : Terminal \cup {"none", "pending", "running"}, sha : Nat,
        kind : {"none", "runner", "shutdown"},  \* who reported the error
        notes : [Dests -> Note], writeback : BOOLEAN]
NewRow == [status |-> "none", sha |-> 0, kind |-> "none", notes |-> NoNotes,
           writeback |-> FALSE]
Process == [pc : {"none", "context", "secrets", "clone", "engine", "publish", "commit",
                  "push", "finalize", "posted", "exited"},
            token : BOOLEAN, lost : BOOLEAN,
            refused : BOOLEAN,  \* requireBearer refused its finalize request
            post : BOOLEAN,     \* or let it in, and it is being served
            scope : SUBSET Dests, manifest : SUBSET (Dests \cup Servers),
            cfg : Config, memory : BOOLEAN, results : [Dests -> Note],
            writebackOK : BOOLEAN, committed : BOOLEAN,
            body : [status : Terminal, kind : {"none", "runner"}]]

Init ==
    /\ \E c \in Configs :
        /\ branch = <<[by |-> People, cfg |-> c]>>
        /\ proc = [r \in Runs |->
               [pc |-> "none", token |-> FALSE, lost |-> FALSE,
                refused |-> FALSE, post |-> FALSE, scope |-> {}, manifest |-> {}, cfg |-> c,
                memory |-> FALSE, results |-> NoNotes, writebackOK |-> TRUE,
                committed |-> FALSE,
                body |-> [status |-> "failed", kind |-> "none"]]]
    /\ synced = 1
    /\ row = [r \in Runs |-> NewRow]
    /\ delivered = [r \in Runs |-> {}]
    /\ faults = 0

-----------------------------------------------------------------------------
(* The repository and the rows it is synced to.                             *)

Commits(who) == {i \in 1..Len(branch) : branch[i].by = who}

PeoplePush ==
    /\ Cardinality(Commits(People)) < MaxCommits
    /\ \E c \in Configs : branch' = Append(branch, [by |-> People, cfg |-> c])
    /\ UNCHANGED <<synced, row, proc, delivered, faults>>

\* SyncOne: head of the branch, and with it the rows of its manifest.
Sync ==
    /\ synced # Len(branch)
    /\ synced' = Len(branch)
    /\ UNCHANGED <<branch, row, proc, delivered, faults>>

-----------------------------------------------------------------------------
(* Dispatch.                                                                *)

\* CollectSecretRefs, called without mcp_env by the scheduler and with it by
\* the context endpoint.  It finds values of keys called "secret": those of the
\* env, and of every destination but an email, whose keys are username_secret
\* and password_secret, and a GitHub issue, whose github_token is a fixed name.
CollectSecretRefs(c, extra) ==
    (c.dests \ (Mails \cup Issues)) \cup c.env \cup (IF extra THEN c.mcp ELSE {})

\* InsertRun pins the commit the skill is synced to.
InsertRun(r) ==
    /\ row[r].status = "none"
    /\ row' = [row EXCEPT ![r] = [@ EXCEPT !.status = "pending", !.sha = synced]]
    /\ UNCHANGED <<branch, synced, proc, delivered, faults>>

\* dispatchRun: the token is scoped to the secrets the schedule row names now;
\* without an installation token the run is dispatched all the same.
Dispatch(r) ==
    /\ row[r].status = "pending"
    /\ \E token \in BOOLEAN :
           /\ faults' = IF token THEN faults ELSE faults + 1
           /\ faults' <= MaxFaults
           /\ proc' = [proc EXCEPT ![r] =
                  [@ EXCEPT !.pc = "context", !.token = token,
                            !.scope = CollectSecretRefs(branch[synced].cfg, FALSE)]]
    /\ row' = [row EXCEPT ![r].status = "running"]
    /\ UNCHANGED <<branch, synced, delivered>>

-----------------------------------------------------------------------------
(* runRunnerHTTP up to the engine.  Any call may fail: at the deadline, at   *)
(* the other side, or because the token has ended (401).  It ends in         *)
(* failRun; the kinds of error it names are not told apart.                  *)

FailRun(r) ==
    proc' = [proc EXCEPT ![r] =
        [@ EXCEPT !.pc = "finalize", !.body = [status |-> "failed", kind |-> "runner"]]]

GetRunContext(r) ==
    /\ proc[r].pc = "context"
    /\ \/ proc' = [proc EXCEPT ![r] =
              [@ EXCEPT !.pc = "secrets",
                        !.manifest = CollectSecretRefs(branch[synced].cfg, TRUE)]]
       \/ FailRun(r)
    /\ UNCHANGED <<branch, synced, row, delivered, faults>>

\* The secrets endpoint refuses the whole list at the first name outside the
\* token's scope; the store may fail as well.
GetSecrets(r) ==
    /\ proc[r].pc = "secrets"
    /\ \/ /\ proc[r].manifest \subseteq proc[r].scope
          /\ proc' = [proc EXCEPT ![r].pc = "clone"]
       \/ FailRun(r)
    /\ UNCHANGED <<branch, synced, row, delivered, faults>>

\* Clone URL and CloneAtSHA: a clone of depth one holds the head of the branch
\* only, so the checkout of the pinned commit fails once the branch has moved.
\* (A Copilot token, a directory or an MCP configuration that cannot be had fails
\* the run in the same way.)
Clone(r) ==
    /\ proc[r].pc = "clone"
    /\ \/ /\ Len(branch) = row[r].sha
          /\ proc' = [proc EXCEPT ![r] =
                 [@ EXCEPT !.pc = "engine", !.cfg = branch[row[r].sha].cfg]]
       \/ FailRun(r)
    /\ UNCHANGED <<branch, synced, row, delivered, faults>>

-----------------------------------------------------------------------------
(* Runner.Run.                                                              *)

\* Load, provider and model: output, with or without a memory block, or an
\* error.
Engine(r) ==
    /\ proc[r].pc = "engine"
    /\ \/ \E memory \in BOOLEAN :
              proc' = [proc EXCEPT ![r] = [@ EXCEPT !.pc = "publish", !.memory = memory]]
       \/ FailRun(r)
    /\ UNCHANGED <<branch, synced, row, delivered, faults>>

\* Destination.ShouldPublish.
ShouldPublish(c, d, succeeded) == d \in c.onFailure => ~succeeded
\* The destinations of a run that has output.
Expected(r) == {d \in proc[r].cfg.dests : ShouldPublish(proc[r].cfg, d, TRUE)}

\* A publisher has its secret; the one for GitHub issues falls back on the
\* installation token of the run.
HasSecret(p, d) == d \in p.manifest \/ (d \in Issues /\ p.token)

\* Dispatcher.Dispatch, one goroutine per destination.  It is only reached
\* with output, so runSucceeded is true.  A publish without its secret fails.
\* With it one may fail at any time, received or not: the deadline, which email
\* does not even look at, is one of the reasons.
Publish(r, d) ==
    LET p == proc[r]
        result(x) == proc' = [proc EXCEPT ![r].results[d] = x]
    IN
    /\ p.pc = "publish" /\ d \in p.cfg.dests /\ p.results[d] = "none"
    /\ \/ /\ d \notin Expected(r)
          /\ result("skipped") /\ UNCHANGED delivered
       \/ /\ d \in Expected(r) /\ HasSecret(p, d)
          /\ \E x \in {"sent", "failed"} : result(x)
          /\ delivered' = [delivered EXCEPT ![r] = @ \cup {d}]
       \/ /\ d \in Expected(r)
          /\ result("failed") /\ UNCHANGED delivered
    /\ UNCHANGED <<branch, synced, row, faults>>

\* Mutant of Outcome: a destination or a write-back that failed fails the run.
OutcomeHarsh(p) ==
    IF p.writebackOK /\ \A d \in Dests : p.results[d] # "failed" THEN "succeeded" ELSE "failed"

\* The last lines of Run: the status of a run that has output.
Outcome(p) ==
    IF p.writebackOK /\ \A d \in Dests : p.results[d] # "failed"
    THEN "succeeded" ELSE "partial_failure"

\* wg.Wait returns; the memory block, if there is one, is written back.
AfterPublish(r) ==
    LET p == proc[r] IN
    /\ p.pc = "publish" /\ \A d \in p.cfg.dests : p.results[d] # "none"
    /\ proc' = [proc EXCEPT ![r] =
           IF p.cfg.writeback /\ p.memory THEN [@ EXCEPT !.pc = "commit"]
           ELSE [@ EXCEPT !.pc = "finalize", !.body = [status |-> Outcome(p), kind |-> "none"]]]
    /\ UNCHANGED <<branch, synced, row, delivered, faults>>

Finish(p, ok) ==
    LET q == [p EXCEPT !.writebackOK = ok]
    IN  [q EXCEPT !.pc = "finalize", !.body = [status |-> Outcome(q), kind |-> "none"]]

\* Writer.Commit in the clone.  Without a GitHub token nothing is pushed, and
\* that is not counted as a failure.
Commit(r) ==
    LET p == proc[r] IN
    /\ p.pc = "commit"
    /\ \/ proc' = [proc EXCEPT ![r] = Finish(p, FALSE)]
       \/ proc' = [proc EXCEPT ![r] =
              IF p.token THEN [p EXCEPT !.pc = "push", !.committed = TRUE]
              ELSE Finish([p EXCEPT !.committed = TRUE], TRUE)]
    /\ UNCHANGED <<branch, synced, row, delivered, faults>>

\* Mutant of Push: the branch is forced to the run's commit.
PushForced(r) ==
    LET p == proc[r] IN
    /\ p.pc = "push"
    /\ branch' = Append(SubSeq(branch, 1, row[r].sha), [by |-> r, cfg |-> p.cfg])
    /\ synced' = row[r].sha
    /\ proc' = [proc EXCEPT ![r] = Finish(p, TRUE)]
    /\ UNCHANGED <<row, delivered, faults>>

\* Writer.Push: accepted only when the branch is still at the pinned commit.
\* One that is cut off may have been accepted all the same.
Push(r) ==
    LET p == proc[r] IN
    /\ p.pc = "push"
    /\ \/ /\ Len(branch) = row[r].sha
          /\ branch' = Append(branch, [by |-> r, cfg |-> p.cfg])
          /\ \E ok \in BOOLEAN : proc' = [proc EXCEPT ![r] = Finish(p, ok)]
       \/ branch' = branch /\ proc' = [proc EXCEPT ![r] = Finish(p, FALSE)]
    /\ UNCHANGED <<synced, row, delivered, faults>>

-----------------------------------------------------------------------------
(* Finalize, on a context the deadline does not reach.                      *)

\* Mutant of Finalized: failed deliveries are dropped from the body.
FinalizedSparse(r) ==
    LET p == proc[r]
        notes == [d \in Dests |-> IF p.results[d] = "failed" THEN "none" ELSE p.results[d]]
    IN  [row[r] EXCEPT !.status = p.body.status, !.kind = p.body.kind,
                       !.notes = notes, !.writeback = p.committed]

\* The row as finalize leaves it: accounting, notifications and the commit
\* that was made.  buildNotifications has one entry per publish result.
Finalized(r) ==
    LET p == proc[r]
    IN  [row[r] EXCEPT !.status = p.body.status, !.kind = p.body.kind,
                       !.notes = p.results, !.writeback = p.committed]

\* PostFinalize up to requireBearer.  A token that has expired (timeout and 120 s
\* after the dispatch, however late the runner started), or whose hash a second
\* dispatch of the row has replaced, is refused (401): the runner exits and its
\* row stays as it was.
PostFinalize(r) ==
    /\ proc[r].pc = "finalize"
    /\ \/ /\ proc' = [proc EXCEPT ![r] = [@ EXCEPT !.pc = "posted", !.post = TRUE]]
          /\ UNCHANGED faults
       \/ /\ faults < MaxFaults /\ faults' = faults + 1
          /\ proc' = [proc EXCEPT ![r] = [@ EXCEPT !.pc = "exited", !.refused = TRUE]]
    /\ UNCHANGED <<branch, synced, row, delivered>>

\* Mutant of FinalizeRun: its UPDATE does not look at the status.
FinalizeRunUnguarded(r) ==
    /\ proc[r].post
    /\ proc' = [proc EXCEPT ![r] = [@ EXCEPT !.pc = "exited", !.post = FALSE]]
    /\ row' = [row EXCEPT ![r] = Finalized(r)]
    /\ UNCHANGED <<branch, synced, delivered, faults>>

\* The transaction of the handler, some time after requireBearer has read the
\* row: FinalizeRun matches no terminal row (409, nothing changes), and the
\* notifications go with it.  The runner exits whatever the answer.
FinalizeRun(r) ==
    /\ proc[r].post
    /\ proc' = [proc EXCEPT ![r] = [@ EXCEPT !.pc = "exited", !.post = FALSE]]
    /\ row' = [row EXCEPT ![r] = IF @.status \in Terminal THEN @ ELSE Finalized(r)]
    /\ UNCHANGED <<branch, synced, delivered, faults>>

\* The process dies, or gives up on its finalize request: the request did not
\* get through, its transaction failed, or the server is still at it.
Lost(r) ==
    /\ faults < MaxFaults /\ faults' = faults + 1
    /\ proc[r].pc \notin {"none", "exited"}
    /\ \E post \in {FALSE, proc[r].post} :
           proc' = [proc EXCEPT ![r] = [@ EXCEPT !.pc = "exited", !.lost = TRUE, !.post = post]]
    /\ UNCHANGED <<branch, synced, row, delivered>>

\* OrphanSweep.  It goes by the schedule's present timeout, which a sync may
\* have lowered, so it may come while the run is working or reporting.  (Nothing
\* in the run reads the row before its finalize, so a sweep of a run that is at
\* work is taken when the work is done.)
Sweep(r) ==
    /\ row[r].status \in {"pending", "running"}
    /\ proc[r].pc \in {"none", "posted", "exited"}
    /\ row' = [row EXCEPT ![r] = [@ EXCEPT !.status = "failed", !.kind = "shutdown"]]
    /\ UNCHANGED <<branch, synced, proc, delivered, faults>>

-----------------------------------------------------------------------------
Runner(r) ==
    \/ GetRunContext(r) \/ GetSecrets(r) \/ Clone(r) \/ Engine(r)
    \/ \E d \in Dests : Publish(r, d)
    \/ AfterPublish(r) \/ Commit(r) \/ Push(r) \/ PostFinalize(r)

Next ==
    \/ PeoplePush \/ Sync
    \/ \E r \in Runs : InsertRun(r) \/ Dispatch(r) \/ Runner(r) \/ FinalizeRun(r)
                       \/ Lost(r) \/ Sweep(r)

Spec == Init /\ [][Next]_vars

-----------------------------------------------------------------------------
(* Properties.                                                              *)

\* The type of every variable; the synced commit is on the branch.
TypeOK ==
    /\ branch \in Seq([by : Runs \cup {People}, cfg : Config])
    /\ synced \in 1..Len(branch)
    /\ row \in [Runs -> Row] /\ proc \in [Runs -> Process]
    /\ delivered \in [Runs -> SUBSET Dests]
    /\ faults \in 0..MaxFaults

\* "succeeded means no errors at all": every destination received the output
\* and the memory block, if there was one to write, is on the branch, where no
\* other run's push removes it.  A run dispatched without a GitHub token is the
\* exception: its commit is never pushed, and it is called succeeded.
SucceededIsComplete ==
    \A r \in Runs : row[r].status = "succeeded" =>
        /\ Expected(r) \subseteq delivered[r]
        /\ proc[r].memory /\ proc[r].cfg.writeback /\ proc[r].token => Commits(r) # {}

\* The failure matrix: a run that failed of itself, not by the sweep, has
\* published nothing and committed nothing.
FailedIsSilent ==
    \A r \in Runs : row[r].status = "failed" /\ row[r].kind # "shutdown" =>
        delivered[r] = {} /\ Commits(r) = {}

\* The delivery records of a run agree with what happened: sent was received,
\* and a run that published has a record for every destination it had.
NotesAreTrue ==
    \A r \in Runs :
        /\ \A d \in Dests : row[r].notes[d] = "sent" => d \in delivered[r]
        /\ row[r].status \in {"succeeded", "partial_failure"} =>
               \A d \in proc[r].cfg.dests : row[r].notes[d] # "none"

\* A row holds one account of its run, whole: the sweep's, with no delivery
\* record and no commit whatever the run has done, or its runner's report with
\* every record in it.
OneAccount(r) ==
    /\ row[r].kind = "shutdown" => row[r].notes = NoNotes /\ ~row[r].writeback
    /\ row[r].status \in Terminal /\ row[r].kind # "shutdown" => row[r] = Finalized(r)

\* "The finalize ... calls must survive the per-run wall-clock timeout": a
\* runner has left no outcome only if it was killed, its report was cut off, or
\* its token was refused.
ReportHeard(r) ==
    proc[r].pc = "exited" /\ ~proc[r].lost /\ ~proc[r].refused => row[r].status \in Terminal

\* "can't clobber the original finalization": the outcome of a run is one
\* account, and the first: a report that was let in before the sweep came, or
\* whose runner has given up on it, changes nothing of a terminal row; and every
\* report that can be heard is, deadline or not.
OutcomeStands ==
    [][\A r \in Runs : /\ row[r].status \in Terminal => row'[r] = row[r]
                      /\ OneAccount(r)' /\ ReportHeard(r)']_vars

=============================================================================
