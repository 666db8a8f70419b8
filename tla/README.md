# CronFoundry in TLA+

CronFoundry runs LLM skills on cron schedules. One program, `cronfoundry serve`, keeps its state in
Postgres, runs the scheduler loop, serves a browser API and a runner API, and launches one runner
process per run; the runner calls back over HTTP. This directory models the parts whose correctness
depends on the order in which statements, callbacks and processes interleave, checks them with TLC
on small instances and proves the central results with TLAPS for all instances.

Sections: 1 inventory, 2 how the parts interact, 3 modules and their correspondence to the code,
4 runs, 5 bounds, 6 fairness, 7 proofs, 8 what is only model-checked, 9 where code and documents
disagree, 10 what is not modelled, 11 plan.

## 1. Inventory

| Part | State it keeps | Operations | What is hard | What makes it correct |
|---|---|---|---|---|
| Scheduler (`internal/scheduler`) | tables `schedule`, `run`; locals of one tick | list due, insert run, advance `next_fire_at`, overlap policy, dispatch, drain pending rows, orphan sweep | every statement commits alone; crash or error between two of them; several serve processes; rows listed once and used later | no fire lost or run twice, overlap policies hold, every row ends once |
| Runner API (`internal/api`) | `run`, `run_event`, `run_notification`; the token hash of a run | authenticate, context, secrets, events, clone URL, finalize, trigger | a late, repeated or outdated runner; check and use in different statements | an outcome is recorded once and never changes |
| Auto-pause (`internal/api/finalize_autopause.go`) | `schedule.enabled`, `auto_paused_at`, `last_enabled_at`, `audit_log` | evaluate after each finalize; operator pause and resume; sync | overlapping evaluations at READ COMMITTED; lost evaluations | no streak missed, no pause on the wrong evidence, one audit row |
| HTTP runner (`cmd/cronfoundry/runner.go`) and run engine (`internal/runner`) | one run's context, secrets, conversation, results | fetch context, secrets, clone; LLM and tool turns; publish; write back; finalize | every step can fail or time out; some side effects happen and others do not | what the row says of a run is what the run did |
| MCP client and manager (`internal/mcp`) | pending requests by id, server processes | start, call tools in parallel, time out, shut down | responses, cancellation, crash and timeout race; blocked pipes | answers reach their callers, rounds end, nothing is left running |
| Publishing, writeback, memory, templates | none between runs | fan out to destinations, commit and push | one of several failing; a branch that moves | the delivery records are true; no push removes another's |
| Repository sync (`internal/sync`, webhook, repos endpoints, `trigger-sync`) | `repo_connection`, `skill`, `schedule` | clone at head, parse, upsert, delete and disable missing, connect, disconnect | overlapping syncs, lost webhooks, row locks and deadlocks, a connection that goes away | rows of one commit, in the end the newest |
| Users, login and sessions (`internal/webapi/users.go`, `oauth.go`, `session.go`, `csrf.go`; bootstrap in `serve.go`) | table `app_user`, signed cookies, `audit_log` | seed, log in and out, create, change role, delete | checks and writes in different statements of concurrent requests; sessions as old as the login; a crash while seeding | someone can always administer; a login changes no role |
| Run events (`internal/api/events.go`, `internal/webapi/events.go`, `ratelimit.go`) | table `run_event`; a cursor per stream; a counter per address | post a batch, list, stream, reject | ids are assigned before rows are visible; status and events read one after the other; a counter shared by failing requests | a stream shows the list in its order and ends; no place is lost |
| Credentials (`internal/webapi/copilot_*.go`, `admin_connectcopilot.go`, `internal/github/installation.go`) | secrets of the OAuth and the IDE token; device flows in memory; installation-token cache | mint, cache, poll, connect | a value and its expiry written apart; overlapping refreshes; flows nobody polls again | a token handed out is fresh; success means stored |
| Job proposals (`internal/webapi/skill_repo_jobs.go`, `internal/skillrepo`, `internal/yamledit`) | branches and pull requests at GitHub | read, edit, branch, commit, open, audit | five calls, a file and a head that move in between | a proposal adds its schedule and nothing else |
| Tool loops (`internal/chat`, `internal/runner`, `internal/llm`) | one conversation | turns, tool calls, streaming | calls that arrive in interleaved pieces; failing tools; a model that never stops asking | calls are put together and answered once; conversations end |
| GitHub App set-up (`internal/githubapp`) | one set-up's state | one interactive flow | single-use state | – |
| Secrets (`internal/secrets`) | envelope-encrypted rows or Key Vault | get, set, delete | – | – |
| Remaining browser endpoints, configuration, redaction, metrics, audit, dispatchers, CLI, web UI | mostly none | pure transformations and I/O | – | – |

`PROJECT.json` lists every part with its status, and the hazards at their lines.

## 2. How the parts interact

`scheduler.Tick` inserts a `run` row for every due fire, decides with the overlap policy, signs a
token whose hash it stores in the row, and asks a `JobDispatcher` to start a runner with that token
in its environment. The runner authenticates every call with the token: it fetches the run context
(prompt, destinations, names of secrets), the secrets and a clone URL, clones the skill repository
at the SHA the row pins, runs the engine (turns with a model, MCP servers for its tools), posts
events that dashboards stream, publishes, pushes a memory commit, and finalizes. The finalize handler
records the outcome and, in a second transaction, evaluates auto-pause.

Beside this, the browser API pauses, resumes and runs schedules now, edits users and secrets, answers
a chat, and opens pull requests with new schedules. A merged pull request is a push; pushes arrive as
webhooks, whose sync writes the skills and schedules the scheduler works on. The sweep of every tick
fails rows nobody has finished in time.

The parts meet in tables: `schedule` and `run` (Scheduler, AutoPause, RunExec, RepoSync), `run_event`
(EventStream), `secret` (Credentials), `app_user` (Users), and in the skill repository (RepoSync,
JobProposal, RunExec). `RepoFlow` composes the modules that share the repository and its
rows; `SchedulerLifecycle` relates the scheduler to what the other parts may rely on.

## 3. Modules

### Scheduler, MCScheduler, SchedulerProofs

The core: the two tables, the scheduler loop of any number of serve processes, the runners as far as
the tables see them, and the statements of other components on the same tables.

| State | In the code |
|---|---|
| `sched`, `run`, `nextId` | tables `schedule` and `run`; identifiers are handed out in `created_at` order |
| `pc`, `due`, `cur`, `job`, `pend` | where a process is in `Tick`, and its locals: the listed schedules, the one in `processOne`, `dispatchArgs`, the rows listed by `dispatchPending` |
| `runners` | runner processes, each with the token it was given and the time that is left of it |
| `now` and the `age` of a row | the database clock, and `now() - COALESCE(started_at, created_at)` |

One action per SQL statement: `ListDue`, `InsertRun`, `AdvanceNextFire`, `ApplyPolicy`,
`DeleteSkipped` (processOne), `ListPending`, `TakePending` (dispatchPending), `SignToken`,
`StartRunner`, `MarkRunning` (dispatchRun), `Sweep`; `StepFails` lets any of them return an error,
`Crash` and `Start` stop and start a process. `RunNow`, `Pause`, `Resume` and `UpsertSchedule` are
the browser API's and the sync's statements; `Authenticate`, `FinalizeRun` and `RunnerExits` are the
runner's. A cron expression is the set of instants it matches. A runner keeps the timeout its token
was signed with, since a sync may change the schedule's meanwhile; `since` is a history of the
instant from which `next_fire_at` speaks for the present expression, and `WriteNextFire` moves it
when a tick that began under an older expression overwrites the value.

Two abstractions to know of. Tokens are counted, so two tokens are never equal; in the code two
tokens signed for the same run within one second are the same string, which only makes the older
runner's token valid a little longer. And `created_at` order is taken to be the order in which rows
become visible.

### AutoPause, MCAutoPause, AutoPauseProofs

One schedule, its runs, and one evaluation per finalize, in the three statements the code uses
(`GetConfig`, `ListRecent`, `AutoPauseSchedule`), with the operator's `SetScheduleEnabled`, the
sync's `UpsertSchedule`, the orphan `Sweep` and `EvaluationLost` (an error or a crash; nothing
retries it). `last_enabled_at` is kept as the number of the first run created at or after it.

### Mcp, MCMcp, McpProofs

The MCP servers of one run: `Manager.Start` and the handshake of each server, `DispatchAll` with one
goroutine per call (`Register`, `Write`, then the select of `client.send` as `Receive`,
`ContextDone` and `StreamEnded`), the read loop (`ReadLine`, `ReadEOF`), and `Shutdown` (end of
file, SIGTERM to the group, SIGKILL). The servers are outside the program: they read, answer in any
order, exit, leave children that share their pipes, or do nothing. A stdin pipe holds `PipeCap`
requests; a write to a full one blocks, whatever happens to the call's context. Servers are taken to
send responses only: the read loop would take a request of theirs with an integer id for the
response to the client's request of that id (`client.go:54`).

### RunExec, MCRunExec, RunExecProofs

What a runner does with one row, from the context call to finalize, and the branch of the skill
repository that overlapping runs read and write. `InsertRun` pins the synced commit, `Dispatch`
fixes the token's scope and may lack a GitHub token, `GetRunContext` computes the manifest of
secrets, `Clone` checks out the pinned commit from a clone of depth one (and fails if the branch has
moved), `Engine`, `Publish` (one step per destination), `Commit` and `Push` follow. The report is two
steps: `PostFinalize` up to `requireBearer`, which may refuse the token (the runner then exits and its
row stays running), and `FinalizeRun`, the handler's transaction, which changes no terminal row.
`Lost` is a killed process, a finalize that did not get through, or one the server is still at when
its runner gives up; `Sweep` is the orphan sweep. It goes by the schedule's present timeout, so it may
take a row whose runner is alive, also between the two steps of a report; a sweep of a row whose run
is at work is taken when the work is done, since nothing in the run reads the row before. The
deadline has no action: it is one of the reasons for which any call, and any publish but an email's
(which ignores the context, `email.go:64`), may fail. A push that is cut off may have landed.

A destination stands for the secret it needs. `CollectSecretRefs` finds the secrets of `env` and the
keys called `secret`; an email's two secrets have other keys, and a GitHub issue's `github_token` is a
fixed name with the installation token behind it, so both are in the list only when `env` names them
(`HasSecret`). Here a row has one runner, and dispatching and marking it running is one step: the
other cases are `Scheduler`'s, and of a second runner only what the first one sees of it is here, that
its token is refused. The error kinds the code tells apart only by name are one, the runner's.

### RunLifecycle, SchedulerLifecycle, RunLifecycleProofs

`RunLifecycle` is the abstract specification of the run table: rows are inserted in order, admitted
(alone, or beside others), launched, begun, and ended by a report or together by expiry; or discarded
before anything was launched. It knows no statements, processes, tokens, clocks or failures.

`SchedulerLifecycle` instantiates it with the refinement mapping

| Abstract | In `Scheduler` |
|---|---|
| `Runs` | `RunIds` |
| `owner`, `status` | the columns `schedule_id` and `status` of each row |
| `admitted` | `none` until a decision sends the row; then `beside` for run-now and the concurrent policy, `alone` otherwise |
| `launched` | the rows for which the dispatcher has started at least one runner |

and states `ImplementsLifecycle`, the abstract specification as a property of the scheduler. It holds
for one serve process: with two, each may take the other's newer row for a reason to skip its own, so that
a row is discarded with no older one active (section 9). What it adds to the separate invariants is that every step of every action, on every
path after a fault, is one the abstract row may make: no row is admitted on a stale count, begun
without a launch, reported by nobody, or discarded after a launch.

### SkillRepo, RepoSync, JobProposal, RepoFlow, MCRepoFlow, RepoFlowProofs

`SkillRepo` is the skill repository: its default branch as a sequence of commits, each with a
manifest (a list of skills with their schedules) and skill files, what `Validate`, `LoadManifest` and
the cross-file checks accept, and pushes that each cause a webhook.

`RepoSync` is `SyncOne` statement by statement: `GetBranchHead` with the cheap path, `CloneAndLoad`,
then one transaction: `UpsertSkill` per entry (which locks the row until the commit and fails on its
foreign key when the connection is gone), `DeleteMissingSkills`, `UpsertSchedules` with
`DisableMissingSchedules`, `Commit`; then `MarkOK` or `MarkErr`. Any number of syncs overlap, wait for
each other's rows and may be chosen as the victim of a deadlock; any step may fail or be cancelled
with its request. `Deliver`, `TriggerSync`, `Connect`, `Disconnect` and `LoseWebhook` surround it.
`disturbed` is a history variable: it is set by a lost webhook, a failed call, an overlap or a new
connection, and reset when a sync begins alone with the recorded commit behind the head.

Three abstractions to know of. The branch is never force-pushed back to a recorded commit. A schedule
row is on or off by what syncs wrote last: the other writers of `schedule.enabled`, the pause and
resume endpoints and auto-pause, are in `Scheduler` and `AutoPause` only. And `DeleteMissingSkills`
looks for the missing rows when it has its locks, while the statement looks before it waits: rows
that an overlapping sync adds meanwhile are deleted in the model and stay in the code.

`JobProposal` is the dashboard's request for a new schedule: `GetContents` and `GetBranch` (the two
reads of `GetFile`), the edit and its validation, `CreateBranch`, `PutFile` with the blob SHA that was
read, `CreatePR`, `Audit`; then somebody merges, unless the manifest has changed since the branch was
made (git would also merge a change of other lines). `RepoFlow` composes the two on one repository, so
that a merge is a push that is announced and synced.

### Users, MCUsers, UsersProofs

The `app_user` table, its bootstrap when `serve` starts (`StartServe`, `SeedOne`, `FinishSeeding`),
logins (`Login`, `ResolveRole`, `UpsertUserOnLogin`, `SetCookies`), `Logout`, and the administrator's
`Create`, `UpdateRole` and `Delete`, each statement a step. The middleware is `VerifySession`,
`RequireRole` and `CSRF`: the role is the one in the cookie. A DELETE counts in the snapshot it starts
with and shows its effect at its commit, so it is two steps with a row lock in between. `Crash` and
`RequestFails` may come anywhere. The environment may name no administrator at all: `serve` only asks
that the variable is not empty, and `,` names nobody (`serve.go:108`).

### EventStream, Ordering, MCEventStream, ServiceProofs

One run's events: the runner's posts in their order (`PostEvents`, `Answered`, `TimesOut`), the
handler's transaction (`InsertRunEvent` per event, `SendCommit`, `Commit`, `Rollback`), and the
dashboard's streams behind the cap (`SSE`, `SendEvents`, `GetRun`, `Disconnect`, `StreamFails`).
Ids come from a sequence at the insert; rows are visible from the commit. `Ordering` has `Ascending`, a
set of ids as `ORDER BY id` lists it.

### Credentials, MCCredentials, ServiceProofs

A token GitHub issues is represented by the time it really expires. `ReadToken` and `ReadExpiry`,
`ReadOAuthToken`, `MintIDEToken` and the two writes of `CacheToken` are the IDE-token path;
`ReadCache`, `Fetch` and `StoreEntry` the installation cache; `StartFlow`, `Evict`, `AskPoll`,
`Lookup`, `AskGitHub` and `StoreTokens` the dashboard's device flow; `RunConnect` to
`StoreCopilotTokensProd` the command's. The operator writes and deletes secrets, GitHub revokes, and
the process restarts.

### TurnLoop, MCTurnLoop, ServiceProofs

A conversation of the chat or of a run with MCP servers, or the single call of a run without. The
model sends the pieces of its tool calls as Anthropic's blocks (`BlockStart`, `InputJSONDelta`,
`BlockStop`) or OpenAI's indexed deltas (`ToolCallDelta`); the provider accumulates them
(`FlushToolUse`, `Accumulate`). The chat calls its tools in turn (`ToolStart`, `ToolEnd`), a run
together (`DispatchAll`, module `Mcp` inside). `Request` is the conversion of the history for the
provider. Text is present or absent; inputs are sequences of pieces.

The specifications of these last three components have names of their own (`StreamSpec`,
`CredentialSpec`, `TurnSpec`, and likewise their initial states and type invariants), so that one
module can hold the theorems about all of them.

## 4. Runs

| Run | Question |
|---|---|
| `scheduler_faults` | one process, one fault (a crash or failed statement) and one edit anywhere: are fires lost or run twice, does the sweep outrun a live token, and is every step one of the abstract life of a run (so that outcomes are final and a discarded row never had a runner)? |
| `scheduler_two` | two processes on the same tables: do the overlap policies hold? |
| `scheduler_live` | does every row end, and does every schedule catch up with its two fires, when runners owe nothing? |
| `autopause_all` | finalizes that overlap each other, the operator's pause and resume, a sync, a sweep and a lost evaluation: is a streak of finalized failures missed, is a pause recorded twice or on the wrong evidence? |
| `mcp` | two servers and two parallel calls, with servers that fail to launch, to answer or to stop: does every answer reach its caller, is the first cause the one reported, does a channel stay registered or a process running, and does the run end unless a call is stuck in a write to a full pipe? |
| `exec_overlap` | two overlapping runs with three kinds of destination, pushes, syncs, sweeps, deadlines and one missing GitHub token, death, refused token or lost report: does the row say what the run did, and does the first account of a run stand? |
| `repo_flow` | pushes (one with an invalid manifest), two syncs that may overlap, a proposal and its merge, two connects, and one failed call, cancelled request, lost webhook or disconnect: are the rows those of one commit, is the cheap path right, do rows outlive their connection, does a proposal only add, and does a push that is synced alone make up for whatever was lost, failed or overlapped before it? |
| `users` | bootstrap, logins and three requests of two people, with one crash or failed statement: who is left, is everyone of the environment seeded, do logins change roles? |
| `events` | a runner's five posts, two streams under a cap of one, one timeout, failed statement or death: what does a stream show, is a place lost, does every stream end? |
| `credentials` | overlapping requests, device flows from page and command, the operator's writes and one fault: is a cached token fresh, is success stored, do flows end? |
| `turns` | both loops over both providers, every order of the wire's pieces, failing tools, broken streams: are calls put together as sent and answered once, does it end? |
| `users_delete` | expects a violation: two administrators who delete each other (section 9) |

Every component has a type invariant, `TypeOK` or the component's own (`StreamTypeOK`,
`CredentialTypeOK`, `TurnTypeOK`). It is an invariant of a run for `Scheduler`; for the other modules
it documents the shape of the state and is proved, as a part of their inductive invariants.

Every property of a passing run has a mutant: a definition of the model changed the way a plausible
bug would change the code, under which TLC finds that property violated.

Deadlock is checked for `Scheduler`, whose clock always ticks, and for `Users`, where somebody can
always log in or out. The other modules' runs are finite by nature (a run or a conversation ends, the
bounded repository and operators stop acting), so they say `CHECK_DEADLOCK FALSE`.

Many properties name the histories they do not cover, and in each of these the code does something
else, which section 9 describes: `NoFireLost` the instants of an edited expression that a tick begun
under the old one steps over, `SweepSparesLive` a timeout lowered under a running run, `CatchesUp` an
expression that matches no instant, `RunIsOver` a call stuck in a write to a full pipe,
`StreakIsBeingEvaluated` those with a sync, a swept run or a lost
evaluation (`Undisturbed`), `SucceededIsComplete` runs dispatched
without a GitHub token, `OutcomeStands` (for reports that are never heard) runners killed, cut off or
refused, `RowsOfOneCommit` those where syncs overlapped, `SyncCatchesUp` those with no undisturbed
sync after the last disturbance, `AdminRemains` and `UserRemains` an environment without
administrators, `AdminRemains` overlapping requests, stale sessions and failed seeding, `UserRemains` two DELETEs at
once, `EnvironmentSeeded` a torn or failed seeding, `StreamIsPrefix` and `LateStreamIsComplete` those
where the runner gave up on a post, `CachedTokenIsFresh` overlapping requests for the IDE token, and
`ConnectedIsStored` an empty answer or a deletion. The history variables behind these exceptions are
named as such where they are declared; no guard of the code's actions reads one.

## 5. Bounds

| Bound | Why it is enough |
|---|---|
| `MaxRuns` 2, in `scheduler_live` 3, `Horizon` 3 (Scheduler) | overlap needs an older and a newer row, a queue behind an active run needs two fires; the horizon lies after the last fire, and ages and token times saturate just above the largest value a guard compares with |
| `Crons` {1} and {1, 2} (`scheduler_faults`), {1, 2} (the others), `Timeouts` {0, 2} | two fires can be missed and caught up with; an edit can add an instant the old expression lacks, or take one away while the tick that listed it is under way; it can lower the timeout of a running run, or raise it |
| `TokenSlack`, `SweepGrace` 0 or 1, equal | the assumption is slack at most grace (120 s and 300 s in the code); equality is its tightest case |
| `MaxFaults` 1, `MaxEdits` 1 | each fault loses the locals of one process; `StartedOnce` counts faults, and the theorems hold for any number of both |
| `MaxRuns` 3, `Afters` {NULL, 1}, default 2 (AutoPause) | a streak of two with a run before or after it, three evaluations at once; the code's default of 5 changes the length only |
| `MaxToggles` 3 | pause, resume, pause: enough for a window to move under an evaluation |
| `Servers` 2, `Calls` 2, `PipeCap` 2, `MaxRounds` 1 (Mcp) | two calls share a connection or not, and race; one server is up when the other fails to start; a late answer meets the shutdown. `PipeCap` below the calls of a round: the second call to a server that does not read is stuck in its write |
| `Runs` 2, `MaxCommits` 2, `MaxFaults` 1, three destinations (RunExec) | a run, another run's push and a person's push between any two steps; a webhook for failures only, an email and an issue, so that a run has skipped, sent and failed deliveries at once; a second manifest whose MCP server has a secret |
| `Paths` 2, `Names` 2, `MaxCommits` 3, `Syncs` 2, `MaxConnects` 2, `MaxEvents` 1, one proposal (RepoFlow) | a commit that drops a skill and a schedule, one that does not pass the checks, and the merge between or after them; two syncs wait for each other in both orders of paths, so that a deadlock happens; a sync outlives its connection. One name of an MCP server's secret (`McpServers`) is enough for entries that have it or not |
| `Logins` 2, `Slots` 2, `MaxRequests` 3 (Users) | the last administrator is one of two; a request on a stale session needs the demotion and one more; bob is in both lists |
| `Streams` 2, cap 1, `Destinations` 2, `MaxOpens` 2 (EventStream) | a batch of two can be half visible; a second request meets a full cap, or a freed place |
| `MaxClock` 3, `Life` 3, `Margin` 1, `InstallLives` {2, 4} around `TokenTTL` 3, one code, `MaxRequests` 3, `MaxFailures` 1 (Credentials) | a token can be fresh, within the margin and expired; an installation token can outlive the TTL or not; a poll, a second poll and the command can meet one code |
| `MaxTurns` 2, `MaxCalls` 2, `MaxPieces` 2, `MaxHistory` 2 (TurnLoop) | a turn after a turn with tools, two calls interleaved piece by piece, a trimmed history |

Symmetry is used for `Servers` in `scheduler_two`, `Runs` in `exec_overlap` and `Slots` in `users`:
those sets occur in no definition that tells their members apart, and those runs check only
invariants and action properties.

## 6. Fairness

* `Scheduler`: weak fairness of the steps of a live process (the loop is driven by a ticker and every
  statement has an answer), of its restart (the platform restarts a dead process) and of the clock.
  None for runners, which may hang or die, none for requests.
* `Mcp`: weak fairness of each goroutine, read loop and shutdown, timers included, since the Go
  scheduler runs what is ready. None for the servers.
* `RepoFlow`: weak fairness of the steps of a sync (its calls return) and of the delivery of webhooks
  that are not lost. None for people, merges, connects or `trigger-sync`. `SyncCatchesUp`
  speaks of behaviours where, from some point on, nothing is lost or failing and a sync has begun
  alone since; what happened before that point does not matter.
* `EventStream`: weak fairness of the runner's own steps, of the handlers and of the streams (their
  ticker fires), and of the sweep. None for the runner's timeouts or death.
* `Credentials`: weak fairness of the clock, of armed timers and of the command's context. None for
  users, who may never approve or poll.
* `TurnLoop`: weak fairness of the whole next-state relation, as one goroutine that is never blocked
  for good: each call has the request's or the run's context.

`AutoPause`, `RunExec` and `Users` state safety only; that every row ends is `Scheduler`'s
`EveryRunEnds`, which asks nothing of runners.

## 7. Proofs

Every theorem below holds for every value of the constants under the named `ASSUME`s of its module:
bounds are naturals, parameter sets hold what the code's columns and types can hold, and the few facts
listed with each module. None of the bounds of section 5 limits them. Each invariant was checked
with TLC on the run's instance before it was proved.

### Scheduler

`SchedulerProofs`, for any number of serve processes:

* `TypeCorrect`: `Spec => []TypeOK`. The one step that is not bookkeeping is `NextFireType`:
  `NextFire` chooses the least later instant, so a nonempty set of naturals must have a least
  element (`LeastElement`, from the well-foundedness of the strict subset relation on finite sets,
  because an induction theorem with an operator parameter cannot be instantiated).
* `Exclusion`: `Spec => []NoOverlap`. A running run that was not started by run-now or under the
  concurrent policy has no older pending or running run of its schedule beside it. `NoOverlap` is
  not inductive: a process that is about to mark a row running has decided some statements ago.
  `OverlapInv` adds what makes that decision still right: rows are handed out in order
  (`Allocated`), a process dispatches the row it inserted or listed (`Locals`), nothing is dispatched
  without a decision (`Sent`), and whenever a decision was made under skip or queue, all older rows
  of the schedule are inactive and stay so (`Exclusive`). The last part is why the code must insert
  before it counts. Most actions only make rows inactive, which `ShrinksPreserves` treats once.

The loop, from fires to ended rows:

* `NoFireIsLost`: `Spec => []NoFireLost`, for any number of serve processes. `FireInv` adds that a
  row in the table, and a schedule row past its insert, has its fire accounted for (`FiredRows`), and
  that a schedule row listed and not yet processed is due and has no unaccounted fire before its own,
  as long as the expression is the one it was listed with (`ListedRows`).
* `ExecutedOnce`: `Spec => []StartedOnce`, `LiveRunsAreSpared`: `Spec => SweepSparesLive` and
  `LifecycleImplemented`: `Spec => ImplementsLifecycle` have the hypothesis `OneServer`: there is at
  most one serve process, as the deployment has it (`maxReplicas: 1`, `containerApp.bicep:94`).
  With two, all three fail: a queued row gets two runners, a second runner's token outlives the age
  of the row the first one began, and rows are skipped for each other (section 9). `LoopInv`
  says what one process may rely on: only the drain loop holds a list of rows, each on it once
  (`PendInv`); a row it is about to dispatch has not begun, is as inserted until the policy has
  decided, and was launched before it is marked (`ClaimInv`); launched rows are kept (`RowInv`);
  fires are unique among the rows (`IndexInv`, the table's unique index); a row that is pending and
  not being marked has been launched at most as often as there were faults (`LaunchInv`); and the time
  left to a runner's token and the age of its row together stay within the timeout and the slack
  (`TokenInv`). The refinement takes each action in turn: it is one step of `RunLifecycle` under the
  mapping of section 3, or it changes none of its variables (`LifecycleStep`).
* `OutcomesStay`: `Spec => Lifecycle!OutcomesAreFinal`, and `SkippedRowsNeverRan`:
  `Spec => []Lifecycle!DiscardedUnlaunched`, also for one serve process: what the abstract life of a
  run promises, of the rows of table `run`. A row that was finalized, swept or skipped keeps its status
  through every later statement, late report and fault, and no runner was or will be started for a row
  the skip policy deleted. Both come from the refinement's steps and `LoopInv`.

`LiveRunsAreSpared` is the only theorem that needs `TokenSlack <= SweepGrace`
(`SlackAssumption`; 120 s and 300 s in the code).

Two attempts failed for a reason and changed the model. `NoFireLost` was not preserved by a tick that
writes `next_fire_at` after a sync has changed the expression: the instants of the new expression up
to that value are stepped over. `SweepSparesLive` was not preserved by a sync that lowers the
timeout of a running run: the sweep then takes it while its token still works. Both are
what the code does; the properties now name them, and `scheduler_faults` has the expressions and timeouts
in which they happen.

`RunLifecycleProofs`, for integer run identifiers and outcomes that are not statuses of rows still
open:

* `AdmittedRunAlone`: `Spec => []RunsAlone` of the abstract life of a run. `AloneInv` extends the
  promise from running rows to admitted ones and adds that only existing rows are admitted, so a later
  insert cannot come below them; all ending steps are treated once (`EndingStep`). Whatever implements
  `RunLifecycle` has the property under its refinement mapping.
* `RowsEndOnce`: `Spec => OutcomesAreFinal`, and `DiscardedRowsNeverRan`:
  `Spec => []DiscardedUnlaunched` (for outcomes other than `deleted`). The only fact beside the
  actions is that a status is one of a row's.

### Auto-pause

`AutoPauseProofs`: `PauseRestsOnFailures` (`PausedOnFailures`), `PauseOncePerPeriod`
(`OneAuditPerPeriod`) and `NoStreakMissed` (`StreakIsBeingEvaluated`). `RowsInv` says that only failed
scheduled runs are evaluated and with which threshold; `EvidenceInv` carries what an evaluation read
until it pauses, and later; `PeriodInv` says that an enabled schedule has no pause recorded for its
present period. `StreakIsBeingEvaluated` is inductive beside them, and its proof is about the query:
`Recent` returns the newest n terminal rows (`RecentIsNewest`), and a lemma on cardinalities shows
what an insert, an outcome or a new window does to the newest n of a set. The heart is that an outcome
is committed before its evaluation reads: the last of the streak to finish finds all of it.

### Runs and MCP

`RunExecProofs`: `FailuresAreSilent` (`FailedIsSilent`), `SuccessIsComplete` (`SucceededIsComplete`),
`RecordsAreTrue` (`NotesAreTrue`) and the action property `OutcomesStand` (`OutcomeStands`). `ExecInv` is `TypeOK` and,
for each run, what the steps before finalize must have established for the row to be true: nothing
visible has happened before there is output (`Unseen`), a result says what happened at its destination
(`ResultsTrue`), the write-back begins when all destinations have been tried (`AllTried`), and what
the finalize request claims holds at the moment it is built (`ClaimTrue`) and ever after
(`OutcomeTrue`), because the branch only grows. `Account` follows a report from the moment it is let in:
the row it may still change has no outcome and no record (`Unreported`), its runner waits or is gone
(`PostSent`), and when neither refused nor cut off it has been heard. `People \notin Runs` keeps a person's commits apart
from those of runs.

`McpProofs`, for finite sets of servers and calls: `TheCauseIsKept` (`CauseKept`), `NoServerSurvives`
(`NoServerLeft`), `ResponsesReachTheirCalls` (`Correlated`), `NothingStaysPending` (`NothingPending`)
and `McpTypeCorrect`. `Correlated` speaks of calls that have returned; `IdInv` (ids are unique among
the requests in flight of a connection) and `AddressInv` (what is on a pipe or in a channel is for the
goroutine that has the request) follow a message from the write to the channel. `NothingPending` needs
`PendingInv`: nothing is registered after the end of the stream, and an answer removes its entry.
`ServerInv` says who will stop a running process: the manager, the start that is busy with it, or the
shutdown under way.

### Repository

`RepoFlowProofs`, for any number of overlapping syncs and requests: `RowsAreConsistent`
(`SkillRowConsistent`), `RowsHaveAConnection` (`NoOrphanRows`), `RowsAreOfOneCommit`
(`RowsOfOneCommit`) and `ProposalsOnlyAdd` (`ProposalOnlyAdds`). `ContentAssumption` and
`ProposalAssumption` say that what is pushed and asked for has the shape of commits and requests.

* `TypeInv` is `TypeOK` and that everything taken for a commit, or for an entry of a manifest, is one.
* `LockInv` is the locking argument: a row that a transaction has locked is written by nobody else, a
  transaction that holds rows works for the present connection, and by its commit it holds every row
  it writes and has noted every schedule that left the manifest. Without it a commit could mix the
  schedules of two manifests in one row, or write rows for a connection that is gone.
* `SoloInv` holds while syncs have not overlapped: at most one call is under way, the commit it found recorded
  still is, and the rows are never older than the recorded commit. That the cheap
  path skips nothing needs this order and not only the equality it tests.
* `BranchInv`: until its pull request is open a branch belongs to one request, and differs from its
  base by that request's schedule at most. It rests on the blob SHA that `PutFile` sends: an
  unchanged file is the one that was read.

### Users

`UsersProofs`, for any finite set of logins: `AUserRemains` (`UserRemains`), `AnAdminRemains`
(`AdminRemains`), `TheEnvironmentIsSeeded` (`EnvironmentSeeded`) and the action property
`RolesAreStable` (`RoleStableAcrossLogins`). `RequestInv` ties what a request holds to its step.
`UserInv` strengthens "a user remains" to "a user remains whom no DELETE in progress is taking".
`AdminInv` adds that requests come one at a time, that whoever deletes is an administrator (and does not
delete itself) and that a role about to be written leaves one; and that the bootstrap seeds
administrators first, so that a crash leaves an empty table or one with an administrator. `SeedInv` says
which part of the environment has been seeded at each step. The environment is any two sets of logins (the run
has one, with a login of both lists); that it names an administrator is a hypothesis of the first two
theorems.

### Events, credentials, conversations

`ServiceProofs` has the theorems of three components that share no state; they share the lemmas on
sequences, which is why they are in one module. The constants are only assumed to be naturals (those
the code could not run without, positive); sets of requests, streams and codes are arbitrary.

About sequences: `AscendingSeq` (`Ascending` lists exactly the members of a finite set of numbers, in
increasing order), `IncreasingPrefix` (an increasing list of an initial part of a set is a prefix of
that of the whole) and `IncreasingConcat`. They would be inductions on the length; instead they go by
the rank of a number in a set (the cardinality of what is below it) or by the least position at which
the claim would fail (`LeastOf`), so that they need only the library's facts on finite sets.

* `StreamsArePrefixes` (`StreamIsPrefix`), `LateStreamsAreComplete` (`LateStreamIsComplete`). `IdsInv`
  says that ids are given out in the order of the posts and the visible rows are those of committed
  posts; `WaitInv` that, as long as the runner has not given up on a post, only the post it is at may still
  commit. So a commit adds ids above all visible ones (`CommitsAtTheEnd`), and with it `SentInv` is
  inductive: what a stream has sent are the visible rows up to its cursor, in order. This is
  the argument that `id > last` is a correct cursor although ids are assigned before rows are visible,
  and it breaks where `timedOut` is excepted. `EndInv` adds that a run that is over has no
  runner, so a stream that lists after the end lists everything.
* `TheCapHolds` (`CapHolds`): the counter is the number of requests between their increment and their
  decrement, whatever they failed at (`CapInv`), so it never drifts.
* `CredentialsAreTyped` (`CredentialTypeOK`), with `ShapeInv`: what a request holds at each of its
  steps.
* `InstallationTokensAreFresh` (`InstallationTokenIsFresh`) from `EntryInv`: the cache never believes a
  token longer than GitHub does, for any `TokenTTL` and life.
* `CachedTokensAreFresh` (`CachedTokenIsFresh`) from `IdeInv`: while no two requests for the IDE token
  overlap, the stored expiry is never later than the stored token's. The order of the two writes
  carries it: between them the old expiry stands beside a token that lives longer.
* `ConnectionsAreStored` (`ConnectedIsStored`) from `ConnectInv`: a poll past its write finds the
  token there until the operator deletes it.
* `CallsArriveAsSent` (`CallsAsSent`) from `AccInv`: the calls a provider has put together, with the one it
  is at, are what has come over the wire, for both encodings and any number of pieces.
* `HistoriesAreWellFormed` (`HistoryWellFormed`) from `HistoryInv`: before a turn every call of
  the history is answered by the messages after it; while tools are called, one message is being
  answered, and up to the call at hand it is (`PendingInv`). What follows depends on where messages
  stand relative to each other, so lemmas say which of this survives appending (`ContinuedAppend`,
  `ContinuedConcat`) and that the conversion of the history for the provider keeps it
  (`RequestIsWellFormed`).

## 8. Only model-checked

* Liveness (`EveryRunEnds`, `CatchesUp`, `RunIsOver`, `SyncCatchesUp`, `StreamEnds`, `FlowsEnd`,
  `ConversationEnds`) and anything about ENABLED: out of the prover's reach. What a recursive
  definition computes for every input would be too.

All safety invariants and action properties of the passing runs are proved.

## 9. Where code and documents disagree

`users_delete` is kept as a run: `DeleteUserIfNotLast` is one statement whose comment says that of two
concurrent deletes "at most one wins" (`users.go:204`); under READ COMMITTED each counts in its own
snapshot, both win, and no user is left.

The following were met while modelling. The models behave as the code does, and the properties
that would otherwise be violated say in their comment what they except.

Scheduler and auto-pause:

* A tick that listed a schedule before a sync changed its cron overwrites the new `next_fire_at`
  (`tick.go:138`), so the instants of the new expression before the old value are not run.
* Two serve processes start two runners for one queued row (`tick.go:275`); and as each inserts before
  it counts, both may skip, each because of the other's row (`tick.go:154`).
* The sweep (`run.sql:106`) compares a running row with the schedule's present timeout, while its
  runner's token and deadline come from the one at dispatch: a sync that lowers the timeout lets the
  sweep fail a run whose runner is still entitled to report.
* The sweep (`run.sql:106`) fails the queued rows of a paused schedule once they are old enough; the
  comment at `tick.go:310` says they are retained.
* A sync enables an auto-paused schedule and leaves `auto_paused_at` set (`upsert.go:198`), where the
  auto-pause design keeps it off until an operator resumes it.
* `AutoPauseSchedule` does not look again at the `last_enabled_at` that was read two statements
  before, so an evaluation under way during a pause and resume can pause on failures from before it.
* Runs failed by the sweep count in a streak but start no evaluation, so they alone never pause a
  schedule.
* The comments at `upsert.go:182` and `skill_repo_jobs.go:148` say that `Validate` checks cron
  expressions; it only checks that they are not empty (`manifest.go:284`). One that does not parse
  fails the sync; one that parses and never matches is stored with the zero time and its schedule is
  due in every tick for ever (`CatchesUp`).

Runs and MCP:

* A write to a full pipe is not bounded by the tool timeout (`client.go:98`, "each bounded by
  perToolTimeout", `manager.go:134`), and keeps the run from ending (`RunIsOver`); and
  children of an MCP server that exits at end of file are not signalled (`process.go:54`).
* The pinned commit cannot be cloned at depth one once the branch has moved (`clone.go:21`).
* Secrets of MCP servers are in a run's manifest (`run_context.go`) but not in its token's scope
  (`tick.go:188`), so the secrets call is refused.
* Without a GitHub token the memory commit is made in the temporary clone, dropped with it, and the
  run called succeeded (`runner.go:424`).
* `when: on_failure` destinations are never published to, since the publish stage is reached with
  output only (`runner.go:393`); and the engine's error kinds never reach the row (`cmd/cronfoundry/runner.go:293`).

Sync:

* A lost or failed sync is not tried again: the rows stay behind until another push (`webhook.go:108`).
* Overlapping syncs can leave the rows, or the recorded commit, at the older of two heads, and can
  record the head beside older rows; the cheap path then never repairs it until the next push
  (`poller.go:72`).
* "Errors at any step are recorded" (`poller.go:69`): a failed `GetRepoConnection` or
  `MarkRepoSyncedOK`, and every error after the request's context was cancelled, are not.

Users:

* Two demotions at once (`users.go:143`), or a demoted administrator's old session deleting the last
  other one, leave no administrator.
* A failed INSERT of the only administrator while viewers are seeded is an error at the first start;
  the next start finds a user and serves without any administrator. A crash between two INSERTs
  leaves the rest unseeded for good (`serve.go:139`).
* A login that overlaps the deletion of its row creates the row again.

Events:

* A stream reads the events and then the status: events that commit, and a finalize that follows, in
  between are never sent (`events.go:96`). A post that commits after its client gave up may be stepped
  over by `lastEventID`, and a client that reconnects starts at the first event again.

Credentials:

* Two refreshes at once can pair an older IDE token with a newer expiry (`copilot_token.go:187`).
* A missing OAuth row is answered with 503, where the comment (`copilot_token.go:34`) says that the
  caller is asked to authenticate again.
* The dashboard's poll takes an answer with neither token nor error for success and stores the empty
  string; a failed write after the code was spent loses the token; connecting again keeps the old
  account's cached IDE token until it expires.

Tool loops:

* The stop reason is not looked at (`runner.go:306`), so an answer cut at its token limit counts as
  complete; an answer without text is reported as having run out of turns (`chat.go:175`).
* `openai.go:229` collects calls up to the first missing index and drops those after a gap.
* A trimmed history may begin with an assistant's message.

## 10. Not modelled

Contents of prompts, messages, YAML, templates and redaction (text); the HTTP requests to LLM
providers, publishers, GitHub and the cloud platforms (their outcomes are choices of the model);
encryption and signatures (taken to work); the memory block parser (a function on text); the
chat's tools and other read-only endpoints, alerts, status, metrics and the web UI (no state of their
own); the token buckets of the rate limiter (a library's); the App set-up flow, command lines other
than `connect-copilot` and `trigger-sync`, and installation scripts (one-shot sequences of a single
process). `api/writeback_push.go` serves a push that the run engine does not use: it pushes itself
(`runner.go:428`).

## 11. Plan

Done, in this order: `Scheduler` with its first two theorems, `AutoPause`, `Mcp`, `RunExec`; then
`RunLifecycle` and its refinement, `RepoSync`, `JobProposal` and their composition, `Users`,
`EventStream`, `Credentials`, `TurnLoop`.

The proofs followed: overlap and types of the scheduler, the abstract life of a run; then the
refinement and the other invariants of the loop, `AutoPause`, `Users`, `Mcp`, `RunExec` and
`RepoFlow`; then `EventStream`, `Credentials`, `TurnLoop`, and what the scheduler inherits from the
abstract life of a run.

Further modelling: schedule overrides and what the run context makes of them; the App set-up flow.
