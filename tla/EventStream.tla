---------------------------- MODULE EventStream ----------------------------
(***************************************************************************)
(* The events of one run: the runner posts them in batches                 *)
(* (cmd/cronfoundry/runner.go), the internal API stores each batch in one  *)
(* transaction (internal/api/events.go), and the dashboard's server-sent   *)
(* event streams poll them until the run is over                           *)
(* (internal/webapi/events.go), behind a cap on the streams of one address *)
(* (internal/webapi/ratelimit.go).                                         *)
(*                                                                         *)
(* The id of a row comes from a sequence when the row is inserted and the  *)
(* row can be seen only when its transaction commits; its ts is the start  *)
(* of the transaction.                                                     *)
(***************************************************************************)
EXTENDS Naturals, Sequences, SequencesExt, FiniteSets, Ordering

CONSTANTS
    Streams,           \* requests to /api/runs/{id}/events/stream from one address
    SSEMaxConcurrent,  \* the cap on them
    Destinations,      \* number of destinations, and of events in the publish batch
    MaxOpens,          \* bound: streams opened
    MaxFaults          \* bound: timed-out requests, failed statements, runner deaths

ASSUME StreamBounds ==
    /\ SSEMaxConcurrent \in Nat \ {0} /\ Destinations \in Nat \ {0}
    /\ MaxOpens \in Nat /\ MaxFaults \in Nat

VARIABLES
    status,   \* run.status
    runner,   \* the runner process: the post it is at, whether it waits for it
    tx,       \* the handler and the transaction of each post
    rows,     \* table run_event: ids of the committed rows of this run
    nextId,   \* the sequence behind run_event.id
    str,      \* the stream requests
    counter,  \* sseConcurrent[ip]
    opens, faults,
    timedOut  \* history: the runner gave up waiting for a post

eventVars == <<status, runner, tx, rows, nextId, str, counter, opens, faults, timedOut>>

Outcomes == {"succeeded", "partial_failure", "failed"}
\* The posts of a run in order: manifest.set, runner.start, what the engine's
\* event sink sends, the publish results, runner.finish or runner.error.
Posts == 1..5
Size(n) == IF n = 4 THEN Destinations ELSE 1

\* What follows the engine waits for its result.
MayPost == runner.next > 3 => runner.result # "none"

Idle == [pc |-> "idle", next |-> 1, result |-> "none"]
NoTx == [st |-> "none", ids |-> <<>>, cancelled |-> FALSE]
Closed == [pc |-> "off", last |-> 0, sent |-> <<>>, overAtList |-> FALSE, done |-> FALSE]

StreamInit ==
    /\ status = "running" /\ runner = Idle
    /\ tx = [n \in Posts |-> NoTx] /\ rows = {} /\ nextId = 1
    /\ str = [s \in Streams |-> Closed] /\ counter = 0
    /\ opens = 0 /\ faults = 0 /\ timedOut = FALSE

Fault == faults < MaxFaults /\ faults' = faults + 1

-----------------------------------------------------------------------------
(* The runner.  Posts are best-effort: whatever the answer, it goes on.    *)
streamVars == <<str, counter, opens>>
serverVars == <<tx, rows, nextId>>

\* Mutant of PostEvents: the sink posts in a goroutine and does not wait.
PostEventsAsync ==
    /\ runner.pc = "idle" /\ runner.next \in Posts /\ MayPost
    /\ tx' = [tx EXCEPT ![runner.next].st = "open"]
    /\ runner' = [runner EXCEPT !.next = @ + 1]
    /\ UNCHANGED <<status, rows, nextId, streamVars, faults, timedOut>>

PostEvents ==
    /\ runner.pc = "idle" /\ runner.next \in Posts /\ MayPost
    /\ tx' = [tx EXCEPT ![runner.next].st = "open"]
    /\ runner' = [runner EXCEPT !.pc = "posting"]
    /\ UNCHANGED <<status, rows, nextId, streamVars, faults, timedOut>>

Answered ==
    /\ runner.pc = "posting" /\ tx[runner.next].st \in {"committed", "gone"}
    /\ runner' = [runner EXCEPT !.pc = "idle", !.next = @ + 1]
    /\ UNCHANGED <<status, serverVars, streamVars, faults, timedOut>>

\* The client's two minutes or the run's deadline pass before the answer: the
\* connection is closed, which cancels the handler's context.
TimesOut ==
    /\ runner.pc = "posting" /\ tx[runner.next].st \in {"open", "committing"} /\ Fault
    /\ tx' = [tx EXCEPT ![runner.next].cancelled = TRUE]
    /\ runner' = [runner EXCEPT !.pc = "idle", !.next = @ + 1]
    /\ timedOut' = TRUE
    /\ UNCHANGED <<status, rows, nextId, streamVars>>

\* The engine returns: without MCP servers the sink sends nothing; an error
\* leaves no publish results.
Return(result) ==
    /\ runner.pc = "idle" /\ runner.next \in {3, 4} /\ runner.result = "none"
    /\ runner' = [runner EXCEPT !.result = result, !.next = IF result = "failed" THEN 5 ELSE 4]
    /\ UNCHANGED <<status, serverVars, streamVars, faults, timedOut>>

\* failRun: what fails before the engine is entered is finalized at once.
FailRun ==
    /\ runner.pc = "idle" /\ runner.next \in 1..3 /\ runner.result = "none"
    /\ runner' = [runner EXCEPT !.result = "failed", !.next = 6]
    /\ UNCHANGED <<status, serverVars, streamVars, faults, timedOut>>

\* Mutant of PostFinalize: finalize is posted before the terminal event.
FinalizeFirst ==
    /\ runner.pc = "idle" /\ runner.next \in {5, 6} /\ runner.result # "none"
    /\ status' = IF status = "running" THEN runner.result ELSE status
    /\ runner' = IF runner.next = 6 THEN [runner EXCEPT !.pc = "exited"] ELSE runner
    /\ UNCHANGED <<serverVars, streamVars, faults, timedOut>>

PostFinalize ==
    /\ runner.pc = "idle" /\ runner.next = 6 /\ runner.result # "none"
    /\ status' = IF status = "running" THEN runner.result ELSE status
    /\ runner' = [runner EXCEPT !.pc = "exited"]
    /\ UNCHANGED <<serverVars, streamVars, faults, timedOut>>

\* The runner is killed, or its finalize never arrives.
RunnerDies ==
    /\ runner.pc # "exited" /\ Fault
    /\ runner' = [runner EXCEPT !.pc = "exited"]
    /\ tx' = [n \in Posts |-> IF tx[n].st \in {"open", "committing"}
                              THEN [tx[n] EXCEPT !.cancelled = TRUE] ELSE tx[n]]
    /\ UNCHANGED <<status, rows, nextId, streamVars, timedOut>>

\* The sweep fails the row of a runner that is gone.
OrphanSweep ==
    /\ status = "running" /\ runner.pc = "exited"
    /\ status' = "failed"
    /\ UNCHANGED <<runner, serverVars, streamVars, faults, timedOut>>

-----------------------------------------------------------------------------
(* The internal API's handler of a post.                                   *)

InsertRunEvent(n) ==
    /\ tx[n].st = "open" /\ ~tx[n].cancelled /\ Len(tx[n].ids) < Size(n)
    /\ tx' = [tx EXCEPT ![n].ids = Append(@, nextId)]
    /\ nextId' = nextId + 1
    /\ UNCHANGED <<status, runner, rows, streamVars, faults, timedOut>>

SendCommit(n) ==
    /\ tx[n].st = "open" /\ ~tx[n].cancelled /\ Len(tx[n].ids) = Size(n)
    /\ tx' = [tx EXCEPT ![n].st = "committing"]
    /\ UNCHANGED <<status, runner, rows, nextId, streamVars, faults, timedOut>>

\* A commit that was sent may land although the request has been cancelled.
Commit(n) ==
    /\ tx[n].st = "committing"
    /\ tx' = [tx EXCEPT ![n].st = "committed"]
    /\ rows' = rows \cup Range(tx[n].ids)
    /\ UNCHANGED <<status, runner, nextId, streamVars, faults, timedOut>>

Rollback(n) ==
    /\ tx[n].st \in {"open", "committing"}
    /\ \/ tx[n].cancelled /\ faults' = faults
       \/ ~tx[n].cancelled /\ Fault
    /\ tx' = [tx EXCEPT ![n].st = "gone"]
    /\ UNCHANGED <<status, runner, rows, nextId, streamVars, timedOut>>

-----------------------------------------------------------------------------
(* The stream and its limiter.                                             *)
ListRunEventsSince(last) == Ascending({id \in rows : id > last})

\* GET /api/runs/{id}/events: ORDER BY ts, id.  The transactions start in the
\* order of the posts.
Listed(n) == Ascending(rows \cap Range(tx[n].ids))
ListRunEvents == Listed(1) \o Listed(2) \o Listed(3) \o Listed(4) \o Listed(5)

others == <<status, runner, serverVars, timedOut>>

\* Mutant of SSE: the counter is read, compared, and only then incremented.
SSECheckFirst(s) ==
    \/ /\ str[s].pc = "off" /\ opens < MaxOpens
       /\ str' = [str EXCEPT ![s] = [Closed EXCEPT !.pc = IF counter >= SSEMaxConcurrent
                                                            THEN "off" ELSE "entering"]]
       /\ opens' = opens + 1 /\ UNCHANGED counter
    \/ /\ str[s].pc = "entering"
       /\ str' = [str EXCEPT ![s].pc = "waiting"]
       /\ counter' = counter + 1 /\ UNCHANGED opens

\* One atomic add, whose result decides; a rejected request subtracts again.
SSE(s) ==
    \/ /\ str[s].pc = "off" /\ opens < MaxOpens
       /\ str' = [str EXCEPT ![s] = [Closed EXCEPT !.pc = IF counter + 1 > SSEMaxConcurrent
                                                             THEN "rejecting" ELSE "waiting"]]
       /\ counter' = counter + 1
       /\ opens' = opens + 1
    \/ /\ str[s].pc \in {"rejecting", "leaving"}
       /\ str' = [str EXCEPT ![s].pc = "off"]
       /\ counter' = counter - 1
       /\ UNCHANGED opens

Throttle(s) == SSE(s) /\ UNCHANGED <<others, faults>>

\* One tick: the rows since the last one sent, written to the client ...
SendEvents(s) ==
    /\ str[s].pc = "waiting"
    /\ LET new == ListRunEventsSince(str[s].last) IN
       str' = [str EXCEPT ![s] = [pc |-> "listed", done |-> @.done,
                                  sent |-> @.sent \o new,
                                  last |-> IF new = <<>> THEN @.last ELSE Last(new),
                                  overAtList |-> status # "running"]]
    /\ UNCHANGED <<others, counter, opens, faults>>

\* Mutant of Terminal: the map misses one outcome.
TerminalNoPartial(st) == st \in {"succeeded", "failed"}
Terminal(st) == st \in {"succeeded", "partial_failure", "failed"}

\* ... then the row of the run, in a statement of its own.
Answer(s, pc, done) == str' = [str EXCEPT ![s].pc = pc, ![s].done = done]
GetRun(s) ==
    /\ str[s].pc = "listed"
    /\ Answer(s, IF Terminal(status) THEN "leaving" ELSE "waiting", Terminal(status))
    /\ UNCHANGED <<others, counter, opens, faults>>

\* A failed list ends the stream in silence, a failed GetRun with "done".
StreamFails(s) ==
    /\ str[s].pc \in {"waiting", "listed"} /\ Fault
    /\ Answer(s, "leaving", str[s].pc = "listed")
    /\ UNCHANGED <<others, counter, opens>>

\* r.Context().Done(): the client went away.
Disconnect(s) ==
    /\ str[s].pc = "waiting"
    /\ str' = [str EXCEPT ![s].pc = "leaving"]
    /\ UNCHANGED <<others, counter, opens, faults>>

-----------------------------------------------------------------------------
RunnerStep == PostEvents \/ Answered \/ (\E o \in Outcomes : Return(o)) \/ PostFinalize
ServerStep(n) == InsertRunEvent(n) \/ SendCommit(n) \/ Commit(n) \/ (tx[n].cancelled /\ Rollback(n))
StreamStep(s) == SendEvents(s) \/ GetRun(s) \/ (str[s].pc # "off" /\ Throttle(s))

StreamNext ==
    \/ RunnerStep \/ TimesOut \/ FailRun \/ RunnerDies \/ OrphanSweep
    \/ \E n \in Posts : ServerStep(n) \/ Rollback(n)
    \/ \E s \in Streams : StreamStep(s) \/ Throttle(s) \/ StreamFails(s) \/ Disconnect(s)

\* Calls return, the sweep comes round, the ticker fires.
StreamFairness ==
    /\ WF_eventVars(RunnerStep) /\ WF_eventVars(OrphanSweep)
    /\ \A n \in Posts : WF_eventVars(ServerStep(n))
    /\ \A s \in Streams : WF_eventVars(StreamStep(s))

StreamSpec == StreamInit /\ [][StreamNext]_eventVars /\ StreamFairness

-----------------------------------------------------------------------------
RunnerProcess == [pc : {"idle", "posting", "exited"}, next : 1..6, result : Outcomes \cup {"none"}]
Transaction == [st : {"none", "open", "committing", "committed", "gone"}, ids : Seq(Nat),
                cancelled : BOOLEAN]
StreamRequest == [pc : {"off", "rejecting", "waiting", "listed", "leaving"}, last : Nat,
                  sent : Seq(Nat), overAtList : BOOLEAN, done : BOOLEAN]

\* Every variable has its type.
StreamTypeOK ==
    /\ status \in Outcomes \cup {"running"} /\ runner \in RunnerProcess
    /\ tx \in [Posts -> Transaction] /\ rows \in SUBSET Nat /\ nextId \in Nat \ {0}
    /\ str \in [Streams -> StreamRequest] /\ counter \in Nat
    /\ opens \in 0..MaxOpens /\ faults \in 0..MaxFaults /\ timedOut \in BOOLEAN

\* The runner waits for each post before it makes the next, so ids become
\* visible in their order and "id > lastEventID" steps over nothing: what a
\* stream has sent is a prefix of what the list endpoint shows, unless the
\* runner gave up on a post whose transaction may still commit.
StreamIsPrefix ==
    ~timedOut => \A s \in Streams : IsPrefix(str[s].sent, ListRunEvents)

\* A stream whose last list was read after the run had ended has sent the
\* client every event of the run when it says "done".  (One that listed
\* before the end and read the status after it may miss the last events; so
\* may one of a run that was swept because its runner died in a post.)
LateStreamIsComplete ==
    ~timedOut /\ runner.next = 6 =>
        \A s \in Streams : str[s].done /\ str[s].overAtList =>
            Range(str[s].sent) = rows

\* Simultaneous requests never get more than the cap of streams between them,
\* and rejected, failed and disconnected ones all give their place back, so an
\* address without open requests can always open a stream.
CapHolds ==
    /\ Cardinality({s \in Streams : str[s].pc \in {"waiting", "listed"}}) <= SSEMaxConcurrent
    /\ (\A s \in Streams : str[s].pc = "off") => counter = 0

\* Every stream ends: the run it follows is finalized or swept, and each
\* outcome is one the stream takes for the end.
StreamEnds == \A s \in Streams : str[s].pc # "off" ~> str[s].pc = "off"
=============================================================================
