--------------------------------- MODULE Mcp ---------------------------------
(***************************************************************************)
(* The MCP servers of one run: the manager and the JSON-RPC clients of     *)
(* internal/mcp, and the server processes they talk to over pipes.         *)
(*                                                                         *)
(* A run starts its servers one after the other, then dispatches rounds of *)
(* tool calls, the calls of a round in parallel, one goroutine each, and   *)
(* shuts every server down whatever happened.  A send registers a channel, *)
(* writes a line and waits in a select for the response, for its context   *)
(* or for the end of the stream; when several are ready any may be taken.  *)
(*                                                                         *)
(* The servers are outside: they read, answer in any order, fail, exit,    *)
(* leave children behind, or do nothing at all.                            *)
(***************************************************************************)
EXTENDS Naturals, Sequences, FiniteSets

CONSTANTS
    Servers,    \* names of the run's MCP servers
    Calls,      \* goroutines of one DispatchAll
    Boot,       \* the goroutine that runs Manager.Start
    PipeCap,    \* bound: requests a server's stdin pipe holds unread
    MaxRounds   \* bound: rounds of tool calls

ASSUME McpAssumption ==
    /\ Boot \notin Calls /\ IsFiniteSet(Calls) /\ IsFiniteSet(Servers)
    /\ PipeCap \in Nat \ {0} /\ MaxRounds \in Nat

VARIABLES
    proc,      \* the process of each server
    kids,      \* whether the server's process group has other live members
    stdin, asked, stdout,        \* requests unread, read, and responses unread
    nextID, pending, closed,     \* state of each server's client
    chan,      \* the response channel of each goroutine's current request
    go,        \* the goroutines
    servers,   \* Manager.servers
    phase, round, fatal, runCtx, \* DispatchAll and its caller
    toStop, stop                 \* servers still to be shut down, and how far each is

pipes == <<stdin, asked, stdout>>
clients == <<nextID, pending, closed>>
control == <<phase, round, runCtx>>
vars == <<proc, kids, pipes, clients, chan, go, servers, control, fatal, toStop, stop>>

Threads == Calls \cup {Boot}
NoName == "no such server"
Answers == {"ok", "toolError"}
Kinds == {"mcp_server_crashed", "mcp_tool_timeout", "mcp_tool_invalid_name",
          "mcp_call_cancelled"}
Goroutine == [pc : {"idle", "send", "write", "wait", "done"},
              server : Servers \cup {NoName}, id : Nat, steps : {0, 1},
              result : Answers \cup {"none", "error"}, from : Threads]
Ready == [pc |-> "idle", server |-> NoName, id |-> 0, steps |-> 0,
          result |-> "none", from |-> Boot]
\* Requests and responses carry, beside the id the protocol has, the goroutine
\* that asked; nothing but the properties looks at it.
Empty == [kind |-> "none", to |-> Boot]

Init ==
    /\ proc = [s \in Servers |-> "none"]
    /\ kids = [s \in Servers |-> FALSE]
    /\ stdin = [s \in Servers |-> <<>>]
    /\ asked = [s \in Servers |-> {}]
    /\ stdout = [s \in Servers |-> {}]
    /\ nextID = [s \in Servers |-> 1]
    /\ pending = [s \in Servers |-> {}]
    /\ closed = [s \in Servers |-> FALSE]
    /\ chan = [t \in Threads |-> Empty]
    /\ go = [t \in Threads |-> Ready]
    /\ servers = {}
    /\ phase = "start" /\ round = 0 /\ fatal = "none" /\ runCtx = "live"
    /\ toStop = {} /\ stop = [s \in Servers |-> "no"]

-----------------------------------------------------------------------------
(* Manager.Start and the rounds.                                            *)

\* Start: the process is launched and its client's read loop begins.
StartServer(s) ==
    /\ phase = "start" /\ go[Boot].pc = "idle" /\ proc[s] = "none"
    /\ proc' = [proc EXCEPT ![s] = "running"]
    /\ \E forks \in BOOLEAN : kids' = [kids EXCEPT ![s] = forks]
    /\ go' = [go EXCEPT ![Boot] = [Ready EXCEPT !.pc = "send", !.server = s]]
    /\ UNCHANGED <<pipes, clients, chan, servers, control, fatal, toStop, stop>>

\* A server's environment does not resolve, its name is taken or its command
\* cannot be launched: the run fails and the servers before it are stopped.
CannotStart ==
    /\ phase = "start" /\ go[Boot].pc = "idle"
    /\ phase' = "shutdown" /\ toStop' = servers /\ servers' = {}
    /\ UNCHANGED <<proc, kids, pipes, clients, chan, go, round, runCtx, fatal, stop>>

\* Mutant of StartEnds: a server whose handshake fails is left running.
StartEndsLeaving ==
    /\ phase = "start" /\ go[Boot].pc = "done"
    /\ toStop' = IF go[Boot].result = "ok" THEN toStop ELSE servers
    /\ phase' = IF go[Boot].result = "ok" THEN "start" ELSE "shutdown"
    /\ servers' = IF go[Boot].result = "ok" THEN servers \cup {go[Boot].server} ELSE {}
    /\ go' = [go EXCEPT ![Boot] = Ready]
    /\ UNCHANGED <<proc, kids, pipes, clients, chan, round, runCtx, fatal, stop>>

\* Start returns: initialize and tools/list both answered, or an error after
\* which this server and then (deferred Shutdown) all the others are stopped.
StartEnds ==
    /\ phase = "start" /\ go[Boot].pc = "done"
    /\ LET s == go[Boot].server
       IN  IF go[Boot].result = "ok"
           THEN servers' = servers \cup {s} /\ UNCHANGED <<toStop, phase>>
           ELSE toStop' = servers \cup {s} /\ phase' = "shutdown" /\ servers' = {}
    /\ go' = [go EXCEPT ![Boot] = Ready]
    /\ UNCHANGED <<proc, kids, pipes, clients, chan, round, runCtx, fatal, stop>>

AllStarted ==
    /\ phase = "start" /\ servers = Servers /\ go[Boot].pc = "idle"
    /\ phase' = "turn"
    /\ UNCHANGED <<proc, kids, pipes, clients, chan, go, servers, round, runCtx,
                   fatal, toStop, stop>>

\* A turn asks for tools: DispatchAll starts one goroutine per call.
DispatchAll ==
    /\ phase = "turn" /\ round < MaxRounds
    /\ \E target \in [Calls -> Servers \cup {NoName}] :
           go' = [t \in Threads |-> IF t = Boot THEN go[Boot]
                                    ELSE [Ready EXCEPT !.pc = "send", !.server = target[t]]]
    /\ phase' = "dispatch" /\ round' = round + 1
    /\ UNCHANGED <<proc, kids, pipes, clients, chan, servers, runCtx, fatal, toStop, stop>>

\* wg.Wait returns: a fatal error fails the run, else the results are used.
DispatchReturns ==
    /\ phase = "dispatch" /\ \A t \in Calls : go[t].pc = "done"
    /\ IF fatal = "none"
       THEN phase' = "turn" /\ UNCHANGED <<servers, toStop>>
       ELSE phase' = "shutdown" /\ toStop' = servers /\ servers' = {}
    /\ UNCHANGED <<proc, kids, pipes, clients, chan, go, round, runCtx, fatal, stop>>

\* A turn asks for no tool, or the turns are used up, or the model call fails.
TurnsEnd ==
    /\ phase = "turn"
    /\ phase' = "shutdown" /\ toStop' = servers /\ servers' = {}
    /\ UNCHANGED <<proc, kids, pipes, clients, chan, go, round, runCtx, fatal, stop>>

\* The run's context ends: its deadline passes or it is cancelled.
ContextEnds ==
    /\ runCtx = "live" /\ phase # "over"
    /\ runCtx' \in {"deadline", "cancelled"}
    /\ UNCHANGED <<proc, kids, pipes, clients, chan, go, servers, phase, round,
                   fatal, toStop, stop>>

-----------------------------------------------------------------------------
(* client.send.                                                             *)

\* Mutant of SetFatal: the last kind is kept.
SetFatalLast(kind) == fatal' = kind

\* setFatal keeps the first kind; keeping it cancels the other calls.
SetFatal(kind) == fatal' = IF fatal = "none" THEN kind ELSE fatal

\* The kind DispatchAll gives the error of a call.
Classify(err) ==
    IF err = "deadline" THEN "mcp_tool_timeout"
    ELSE IF err = "canceled" \/ runCtx # "live" THEN "mcp_call_cancelled"
    ELSE "mcp_server_crashed"

\* send returns an error to goroutine t.
SendFails(t, err) ==
    /\ go' = [go EXCEPT ![t] = [@ EXCEPT !.pc = "done", !.result = "error"]]
    /\ IF t = Boot THEN fatal' = fatal ELSE SetFatal(Classify(err))

\* A call whose name has no namespace or names no server.
InvalidName(t) ==
    /\ go[t].pc = "send" /\ go[t].server = NoName
    /\ go' = [go EXCEPT ![t] = [@ EXCEPT !.pc = "done", !.result = "error"]]
    /\ SetFatal("mcp_tool_invalid_name")
    /\ UNCHANGED <<proc, kids, pipes, clients, chan, servers, control, toStop, stop>>

\* A fresh id and channel are registered unless the stream has ended.
Register(t) ==
    LET s == go[t].server IN
    /\ go[t].pc = "send" /\ s # NoName
    /\ nextID' = [nextID EXCEPT ![s] = @ + 1]
    /\ IF closed[s]
       THEN SendFails(t, "closed") /\ UNCHANGED <<pending, chan>>
       ELSE /\ pending' = [pending EXCEPT ![s] = @ \cup {nextID[s]}]
            /\ chan' = [chan EXCEPT ![t] = Empty]
            /\ go' = [go EXCEPT ![t] = [@ EXCEPT !.pc = "write", !.id = nextID[s]]]
            /\ fatal' = fatal
    /\ UNCHANGED <<proc, kids, pipes, closed, servers, control, toStop, stop>>

Broken(s) == proc[s] = "exited" /\ ~kids[s]

\* The line is written once the pipe has room; the context is not looked at.
Write(t) ==
    LET s == go[t].server IN
    /\ go[t].pc = "write"
    /\ \/ /\ ~Broken(s) /\ Len(stdin[s]) < PipeCap
          /\ stdin' = [stdin EXCEPT ![s] = Append(@, [id |-> go[t].id, to |-> t])]
          /\ go' = [go EXCEPT ![t].pc = "wait"]
          /\ UNCHANGED <<pending, fatal>>
       \/ /\ Broken(s)
          /\ pending' = [pending EXCEPT ![s] = @ \ {go[t].id}]
          /\ SendFails(t, "write")
          /\ stdin' = stdin
    /\ UNCHANGED <<proc, kids, asked, stdout, nextID, closed, chan, servers, control,
                   toStop, stop>>

\* select: the response.  An error response fails a handshake and is passed
\* on to the model for a call; Start goes from initialize to tools/list.
Receive(t) ==
    /\ go[t].pc = "wait" /\ chan[t].kind \in Answers
    /\ LET kind == chan[t].kind
           again == t = Boot /\ kind = "ok" /\ go[t].steps = 0
       IN  go' = [go EXCEPT ![t] =
               IF again THEN [@ EXCEPT !.pc = "send", !.steps = 1]
               ELSE [@ EXCEPT !.pc = "done", !.from = chan[t].to,
                              !.result = IF t = Boot /\ kind # "ok" THEN "error" ELSE kind]]
    /\ chan' = [chan EXCEPT ![t] = Empty]
    /\ UNCHANGED <<proc, kids, pipes, clients, servers, control, fatal, toStop, stop>>

\* Mutant of ContextDone: the channel stays registered.
ContextDoneLeaves(t, err) ==
    /\ go[t].pc = "wait"
    /\ err = "canceled" => t # Boot /\ (fatal # "none" \/ runCtx = "cancelled")
    /\ SendFails(t, err)
    /\ UNCHANGED <<proc, kids, pipes, clients, chan, servers, control, toStop, stop>>

\* select: the per-call (or handshake) timer or the run's deadline, or the
\* cancellation of the round or the run.
ContextDone(t, err) ==
    /\ go[t].pc = "wait"
    /\ err = "canceled" => t # Boot /\ (fatal # "none" \/ runCtx = "cancelled")
    /\ pending' = [pending EXCEPT ![go[t].server] = @ \ {go[t].id}]
    /\ chan' = [chan EXCEPT ![t] = Empty]
    /\ SendFails(t, err)
    /\ UNCHANGED <<proc, kids, pipes, nextID, closed, servers, control, toStop, stop>>

\* select: the closed channel or the end of the stream, which may win over a
\* response that has arrived.
StreamEnded(t) ==
    /\ go[t].pc = "wait" /\ closed[go[t].server]
    /\ SendFails(t, "stream")
    /\ chan' = [chan EXCEPT ![t] = Empty]
    /\ UNCHANGED <<proc, kids, pipes, clients, servers, control, toStop, stop>>

-----------------------------------------------------------------------------
(* client.readLoop.                                                         *)

\* Mutant of ReadLine: the line goes to a waiting goroutine whatever its id.
ReadLineUnordered(s) ==
    /\ ~closed[s]
    /\ \E m \in stdout[s], t \in Threads :
        /\ go[t].server = s /\ go[t].id \in pending[s] /\ go[t].pc = "wait"
        /\ stdout' = [stdout EXCEPT ![s] = @ \ {m}]
        /\ pending' = [pending EXCEPT ![s] = @ \ {go[t].id}]
        /\ chan' = [chan EXCEPT ![t] = [kind |-> m.kind, to |-> m.to]]
    /\ UNCHANGED <<proc, kids, stdin, asked, nextID, closed, go, servers, control, fatal,
                   toStop, stop>>

\* A line: its channel, if one is registered, is removed and gets it.
ReadLine(s) ==
    /\ ~closed[s]
    /\ \E m \in stdout[s] :
        /\ stdout' = [stdout EXCEPT ![s] = @ \ {m}]
        /\ pending' = [pending EXCEPT ![s] = @ \ {m.id}]
        /\ chan' = [t \in Threads |->
               IF /\ m.id \in pending[s] /\ go[t].server = s /\ go[t].id = m.id
                  /\ go[t].pc \in {"write", "wait"}
               THEN [kind |-> m.kind, to |-> m.to] ELSE chan[t]]
    /\ UNCHANGED <<proc, kids, stdin, asked, nextID, closed, go, servers, control, fatal,
                   toStop, stop>>

\* End of file, or the pipe that Wait closed: every registered channel is closed.
ReadEOF(s) ==
    /\ ~closed[s]
    /\ stop[s] = "done" \/ (Broken(s) /\ stdout[s] = {})
    /\ closed' = [closed EXCEPT ![s] = TRUE]
    /\ pending' = [pending EXCEPT ![s] = {}]
    /\ UNCHANGED <<proc, kids, pipes, nextID, chan, go, servers, control, fatal,
                   toStop, stop>>

-----------------------------------------------------------------------------
(* serverProcess.shutdown, one server after the other.                      *)

CloseStdin(s) ==
    /\ s \in toStop /\ stop[s] = "no" /\ \A x \in toStop : stop[x] = "no"
    /\ stop' = [stop EXCEPT ![s] = "eof"]
    /\ UNCHANGED <<proc, kids, pipes, clients, chan, go, servers, control, fatal, toStop>>

\* Wait returns: the process itself has exited, and shutdown is done.
Reaped(s) ==
    /\ s \in toStop /\ stop[s] \in {"eof", "term"} /\ proc[s] = "exited"
    /\ stop' = [stop EXCEPT ![s] = "done"] /\ toStop' = toStop \ {s}
    /\ UNCHANGED <<proc, kids, pipes, clients, chan, go, servers, control, fatal>>

\* 200 ms after end of file: SIGTERM to the process group.
Terminate(s) ==
    /\ s \in toStop /\ stop[s] = "eof"
    /\ stop' = [stop EXCEPT ![s] = "term"]
    /\ kids' \in {kids, [kids EXCEPT ![s] = FALSE]}
    /\ UNCHANGED <<proc, pipes, clients, chan, go, servers, control, fatal, toStop>>

\* Mutant of Kill: the last wait has no SIGKILL before it.
KillWaits(s) ==
    /\ s \in toStop /\ stop[s] = "term" /\ proc[s] = "exited"
    /\ stop' = [stop EXCEPT ![s] = "done"] /\ toStop' = toStop \ {s}
    /\ UNCHANGED <<proc, kids, pipes, clients, chan, go, servers, control, fatal>>

\* shutdownGracePeriod later: SIGKILL to the process group.
Kill(s) ==
    /\ s \in toStop /\ stop[s] = "term"
    /\ stop' = [stop EXCEPT ![s] = "done"] /\ toStop' = toStop \ {s}
    /\ proc' = [proc EXCEPT ![s] = "exited"]
    /\ kids' = [kids EXCEPT ![s] = FALSE]
    /\ UNCHANGED <<pipes, clients, chan, go, servers, control, fatal>>

AllStopped ==
    /\ phase = "shutdown" /\ toStop = {}
    /\ phase' = "over"
    /\ UNCHANGED <<proc, kids, pipes, clients, chan, go, servers, round, runCtx, fatal,
                   toStop, stop>>

-----------------------------------------------------------------------------
(* The server processes (outside).                                          *)

ServerReads(s) ==
    /\ proc[s] = "running" \/ kids[s]
    /\ stdin[s] # <<>>
    /\ asked' = [asked EXCEPT ![s] = @ \cup {Head(stdin[s])}]
    /\ stdin' = [stdin EXCEPT ![s] = Tail(@)]
    /\ UNCHANGED <<proc, kids, stdout, clients, chan, go, servers, control, fatal, toStop, stop>>

\* Servers send responses only.  (readLoop would take a request of theirs with
\* an integer id for the response to the client's request of that id.)
ServerAnswers(s) ==
    /\ proc[s] = "running" \/ kids[s]
    /\ \E m \in asked[s], kind \in Answers :
        /\ asked' = [asked EXCEPT ![s] = @ \ {m}]
        /\ stdout' = [stdout EXCEPT ![s] = @ \cup {[id |-> m.id, to |-> m.to, kind |-> kind]}]
    /\ UNCHANGED <<proc, kids, stdin, clients, chan, go, servers, control, fatal, toStop, stop>>

ServerExits(s) ==
    /\ proc[s] = "running"
    /\ proc' = [proc EXCEPT ![s] = "exited"]
    /\ UNCHANGED <<kids, pipes, clients, chan, go, servers, control, fatal, toStop, stop>>

-----------------------------------------------------------------------------
Caller == AllStarted \/ StartEnds \/ DispatchAll \/ DispatchReturns \/ TurnsEnd \/ AllStopped
Send(t) == \/ InvalidName(t) \/ Register(t) \/ Write(t) \/ Receive(t) \/ StreamEnded(t)
           \/ \E err \in {"deadline", "canceled"} : ContextDone(t, err)
ReadLoop(s) == ReadLine(s) \/ ReadEOF(s)
Shutdown(s) == CloseStdin(s) \/ Reaped(s) \/ Terminate(s) \/ Kill(s)
Outside(s) == ServerReads(s) \/ ServerAnswers(s) \/ ServerExits(s)

Next ==
    \/ Caller \/ CannotStart \/ ContextEnds
    \/ \E t \in Threads : Send(t)
    \/ \E s \in Servers : StartServer(s) \/ ReadLoop(s) \/ Shutdown(s) \/ Outside(s)

Spec == Init /\ [][Next]_vars

\* Goroutines are scheduled and timers fire; the servers owe nothing.
Fairness ==
    /\ WF_vars(Caller)
    /\ \A t \in Threads : WF_vars(Send(t))
    /\ \A s \in Servers : WF_vars(StartServer(s)) /\ WF_vars(ReadLoop(s)) /\ WF_vars(Shutdown(s))
FairSpec == Spec /\ Fairness

-----------------------------------------------------------------------------
(* Properties.                                                              *)

Request == [id : Nat, to : Threads]
Response == [id : Nat, to : Threads, kind : Answers]

\* Every variable has its type; a pipe holds no more than fits, and no id is
\* registered that the client has not handed out yet.
TypeOK ==
    /\ proc \in [Servers -> {"none", "running", "exited"}]
    /\ kids \in [Servers -> BOOLEAN]
    /\ stdin \in [Servers -> Seq(Request)] /\ asked \in [Servers -> SUBSET Request]
    /\ stdout \in [Servers -> SUBSET Response] /\ pending \in [Servers -> SUBSET Nat]
    /\ \A s \in Servers : Len(stdin[s]) <= PipeCap /\ pending[s] \subseteq 1..(nextID[s] - 1)
    /\ nextID \in [Servers -> Nat \ {0}] /\ closed \in [Servers -> BOOLEAN]
    /\ chan \in [Threads -> [kind : Answers \cup {"none"}, to : Threads]]
    /\ go \in [Threads -> Goroutine]
    /\ servers \subseteq Servers /\ toStop \subseteq Servers
    /\ phase \in {"start", "turn", "dispatch", "shutdown", "over"}
    /\ round \in 0..MaxRounds /\ fatal \in Kinds \cup {"none"}
    /\ runCtx \in {"live", "deadline", "cancelled"}
    /\ stop \in [Servers -> {"no", "eof", "term", "done"}]

\* "Requests are correlated by ID" (client.go): a goroutine that returns a
\* response returns the one to its own request, in whatever order servers
\* answer and however many calls share a connection.
Correlated ==
    \A t \in Threads : go[t].pc = "done" /\ go[t].result \in Answers => go[t].from = t

\* The kind a run fails with is its cause: calls that were cancelled because
\* another one failed never hide why that one failed.
CauseKept == fatal = "mcp_call_cancelled" => runCtx # "live"

\* No channel outlives its send: outside a send nothing is registered.
NothingPending ==
    \A s \in Servers : \A id \in pending[s] :
        \E t \in Threads : go[t].server = s /\ go[t].id = id /\ go[t].pc \in {"write", "wait"}

\* When the run is over no server process is left, however it ended.
NoServerLeft == phase = "over" => \A s \in Servers : proc[s] # "running"

\* A goroutine in Write whose server does not read: the pipe is full, and
\* nobody will close its read end.
Blocked(t) ==
    LET s == go[t].server
    IN  go[t].pc = "write" /\ ~Broken(s) /\ Len(stdin[s]) = PipeCap

\* Every run gets over its servers: handshakes, rounds and shutdown all end,
\* unless a call stays for ever in a write to a full pipe.  "Each bounded by
\* perToolTimeout" (manager.go) is true of the wait and not of the write, which
\* looks at no context (client.go), and the servers are shut down only after
\* the round: that, and nothing else, keeps a run.
RunIsOver == <>(phase = "over") \/ <>[](\E t \in Threads : Blocked(t))
=============================================================================
