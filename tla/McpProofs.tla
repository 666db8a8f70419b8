------------------------------ MODULE McpProofs ------------------------------
(***************************************************************************)
(* Proofs about the MCP servers of a run (Mcp): the kind a run fails with  *)
(* is its cause, a response reaches the goroutine that asked for it, no    *)
(* registration outlives its send and no server process outlives the run,  *)
(* for any servers, any number of parallel calls and any pipe capacity.    *)
(***************************************************************************)
EXTENDS Mcp, TLAPS

\* Goroutine t has a request on its server's connection.
InFlight(t) == go[t].pc \in {"write", "wait"}
\* Goroutines t and u have requests with one id on one connection.
SameRequest(t, u) ==
    InFlight(t) /\ InFlight(u) /\ go[t].server = go[u].server /\ go[t].id = go[u].id
\* What travels on the pipes of server s, in both directions.
Unread(s) == {stdin[s][i] : i \in 1..Len(stdin[s])}
\* Message m on the pipes of server s carries an id that was handed out, and
\* the goroutine that still has that request is the one the message is for.
Addressed(m, s) ==
    /\ m.id < nextID[s]
    /\ \A t \in Threads :
           InFlight(t) /\ go[t].server = s /\ go[t].id = m.id => m.to = t

\* Start's goroutine is busy with one of the run's servers.
BootNamed == go[Boot].pc # "idle" => go[Boot].server \in Servers
TypeInv == TypeOK /\ BootNamed

\* A request in flight has an id its client handed out ...
IdHandedOut ==
    \A t \in Threads : InFlight(t) => go[t].server \in Servers /\ go[t].id < nextID[go[t].server]
\* ... and nobody else has it.
IdUnique == \A t, u \in Threads : SameRequest(t, u) => t = u
IdInv == TypeInv /\ IdHandedOut /\ IdUnique

\* Whatever is on a pipe or in a channel is for the goroutine whose request it is.
RequestsAddressed == \A s \in Servers : \A m \in Unread(s) \cup asked[s] : Addressed(m, s)
ResponsesAddressed == \A s \in Servers : \A m \in stdout[s] : Addressed(m, s)
ChannelsAddressed ==
    \A t \in Threads : InFlight(t) /\ chan[t].kind \in Answers => chan[t].to = t
AddressInv == RequestsAddressed /\ ResponsesAddressed /\ ChannelsAddressed /\ Correlated

\* Nothing is registered once the stream has ended, a request that has been
\* answered is no longer registered, and between rounds no call is in flight.
ClosedIsEmpty == \A s \in Servers : closed[s] => pending[s] = {}
AnsweredIsRemoved ==
    \A t \in Threads : InFlight(t) /\ chan[t].kind \in Answers => go[t].id \notin pending[go[t].server]
RoundsAreApart == phase # "dispatch" => \A t \in Calls : go[t].pc \in {"idle", "done"}
PendingInv == ClosedIsEmpty /\ AnsweredIsRemoved /\ RoundsAreApart /\ NothingPending

\* A running process is one the manager knows, one Start is still busy with or
\* one shutdown has yet to stop.
Known(s) ==
    CASE phase = "start" -> s \in servers \/ (go[Boot].pc # "idle" /\ go[Boot].server = s)
      [] phase \in {"turn", "dispatch"} -> s \in servers
      [] phase = "shutdown" -> s \in toStop
      [] OTHER -> FALSE
ServerInv == \A s \in Servers : proc[s] = "running" => Known(s)

-----------------------------------------------------------------------------
(* What the steps of a goroutine do to it.                                  *)

\* Only goroutine t moves, to g.
Moves(t, g) ==
    /\ go' \in [Threads -> Goroutine]
    /\ go'[t] = g
    /\ \A u \in Threads : u # t => go'[u] = go[u]

\* An assignment to one goroutine leaves the others where they are.
LEMMA AssignMoves ==
    ASSUME go \in [Threads -> Goroutine], NEW t \in Threads, NEW g \in Goroutine,
           go' = [go EXCEPT ![t] = g]
    PROVE  Moves(t, g)
  BY DEF Moves

\* The record Ready, and a goroutine that begins a send on server s.
LEMMA ReadyStep ==
    /\ Ready \in Goroutine /\ Ready.pc = "idle"
    /\ \A s \in Servers \cup {NoName} :
           LET g == [Ready EXCEPT !.pc = "send", !.server = s]
           IN  g \in Goroutine /\ g.pc = "send" /\ g.server = s
  <1>1. Ready \in Goroutine
    BY DEF Ready, Goroutine, Threads
  <1>2. Ready.pc = "idle"
    BY DEF Ready
  <1>3. ASSUME NEW r \in Goroutine, NEW s \in Servers \cup {NoName}
        PROVE  [r EXCEPT !.pc = "send", !.server = s] \in Goroutine
    BY DEF Goroutine
  <1>4. ASSUME NEW r \in Goroutine, NEW s \in Servers \cup {NoName}
        PROVE  LET g == [r EXCEPT !.pc = "send", !.server = s]
               IN  g.pc = "send" /\ g.server = s
    BY DEF Goroutine
  <1> QED BY <1>1, <1>2, <1>3, <1>4

\* The record of a goroutine whose send has failed.
LEMMA FailedRecord ==
    ASSUME NEW r \in Goroutine
    PROVE  LET g == [r EXCEPT !.pc = "done", !.result = "error"]
           IN  /\ g \in Goroutine /\ g.pc = "done" /\ g.result = "error"
               /\ g.server = r.server /\ g.id = r.id
  <1> DEFINE g == [r EXCEPT !.pc = "done", !.result = "error"]
  <1>1. g \in Goroutine
    BY DEF Goroutine
  <1>2. g.pc = "done" /\ g.result = "error" /\ g.server = r.server /\ g.id = r.id
    BY DEF Goroutine
  <1> QED BY <1>1, <1>2

\* A send that fails leaves its goroutine done, with an error and without a
\* response, and the kind of the failure is one of the four.
LEMMA SendFailsStep ==
    ASSUME go \in [Threads -> Goroutine], fatal \in Kinds \cup {"none"}, NEW t \in Threads,
           NEW err, SendFails(t, err)
    PROVE  /\ Moves(t, go'[t])
           /\ go'[t].pc = "done" /\ go'[t].result = "error"
           /\ go'[t].server = go[t].server /\ go'[t].id = go[t].id
           /\ fatal' \in Kinds \cup {"none"}
  <1> DEFINE g == [go[t] EXCEPT !.pc = "done", !.result = "error"]
  <1>1. go' = [go EXCEPT ![t] = g]
    BY DEF SendFails
  <1>2. /\ g \in Goroutine /\ g.pc = "done" /\ g.result = "error"
        /\ g.server = go[t].server /\ g.id = go[t].id
    BY FailedRecord
  <1>3. Moves(t, g)
    <2> HIDE DEF g
    <2> QED BY <1>1, <1>2, AssignMoves
  <1>4. fatal' \in Kinds \cup {"none"}
    BY DEF SendFails, SetFatal, Classify, Kinds
  <1> QED BY <1>2, <1>3, <1>4 DEF Moves

\* A call with a bad name is done without ever being in flight.
LEMMA InvalidNameStep ==
    ASSUME go \in [Threads -> Goroutine], fatal \in Kinds \cup {"none"}, NEW t \in Threads,
           InvalidName(t)
    PROVE  /\ Moves(t, go'[t])
           /\ go'[t].pc = "done" /\ go'[t].result = "error" /\ go'[t].server = go[t].server
           /\ fatal' \in Kinds \cup {"none"}
  <1> DEFINE g == [go[t] EXCEPT !.pc = "done", !.result = "error"]
  <1>1. go' = [go EXCEPT ![t] = g]
    BY DEF InvalidName
  <1>2. g \in Goroutine /\ g.pc = "done" /\ g.result = "error" /\ g.server = go[t].server
    BY FailedRecord
  <1>3. Moves(t, g)
    <2> HIDE DEF g
    <2> QED BY <1>1, <1>2, AssignMoves
  <1>4. fatal' \in Kinds \cup {"none"}
    BY DEF InvalidName, SetFatal, Kinds
  <1> QED BY <1>2, <1>3, <1>4 DEF Moves

\* The records of a goroutine that has registered, that goes on with its next
\* request and that has its response are goroutines.
LEMMA MovedRecords ==
    ASSUME NEW r \in Goroutine
    PROVE  /\ \A n \in Nat : [r EXCEPT !.pc = "write", !.id = n] \in Goroutine
           /\ [r EXCEPT !.pc = "send", !.steps = 1] \in Goroutine
           /\ \A t \in Threads, x \in Answers \cup {"none", "error"} :
                  [r EXCEPT !.pc = "done", !.from = t, !.result = x] \in Goroutine
  <1>1. ASSUME NEW n \in Nat PROVE [r EXCEPT !.pc = "write", !.id = n] \in Goroutine
    BY DEF Goroutine
  <1>2. [r EXCEPT !.pc = "send", !.steps = 1] \in Goroutine
    BY DEF Goroutine
  <1>3. ASSUME NEW t \in Threads, NEW x \in Answers \cup {"none", "error"}
        PROVE  [r EXCEPT !.pc = "done", !.from = t, !.result = x] \in Goroutine
    BY DEF Goroutine
  <1> QED BY <1>1, <1>2, <1>3

\* Registering gives the goroutine the id it will wait for.
LEMMA RegisterStep ==
    ASSUME go \in [Threads -> Goroutine], nextID \in [Servers -> Nat], NEW t \in Threads,
           Register(t), ~closed[go[t].server]
    PROVE  /\ Moves(t, go'[t]) /\ go[t].server \in Servers
           /\ go'[t].pc = "write" /\ go'[t].server = go[t].server
           /\ go'[t].id = nextID[go[t].server]
  <1> DEFINE n == nextID[go[t].server]
  <1> DEFINE g == [go[t] EXCEPT !.pc = "write", !.id = n]
  <1>1. go' = [go EXCEPT ![t] = g]
    BY DEF Register
  <1>2. go[t].server \in Servers
    BY DEF Register, Goroutine
  <1>3. /\ g \in Goroutine /\ g.pc = "write" /\ g.id = n /\ g.server = go[t].server
    <2>1. n \in Nat
      BY <1>2
    <2> HIDE DEF n
    <2>2. g \in Goroutine
      BY <2>1, MovedRecords
    <2>3. g.pc = "write" /\ g.id = n /\ g.server = go[t].server
      BY DEF Goroutine
    <2> QED BY <2>2, <2>3
  <1>4. Moves(t, g)
    <2> HIDE DEF g, n
    <2> QED BY <1>1, <1>3, AssignMoves
  <1> QED BY <1>2, <1>3, <1>4 DEF Moves

\* A line that is written leaves the goroutine waiting for the same id.
LEMMA WaitStep ==
    ASSUME go \in [Threads -> Goroutine], NEW t \in Threads, go' = [go EXCEPT ![t].pc = "wait"]
    PROVE  /\ Moves(t, go'[t])
           /\ go'[t].pc = "wait" /\ go'[t].server = go[t].server /\ go'[t].id = go[t].id
  <1> DEFINE g == [go[t] EXCEPT !.pc = "wait"]
  <1>1. go' = [go EXCEPT ![t] = g]
    OBVIOUS
  <1>2. g \in Goroutine /\ g.pc = "wait" /\ g.server = go[t].server /\ g.id = go[t].id
    BY DEF Goroutine
  <1>3. Moves(t, g)
    <2> HIDE DEF g
    <2> QED BY <1>1, <1>2, AssignMoves
  <1> QED BY <1>2, <1>3 DEF Moves

\* A response leaves the goroutine at its next request or done, with the
\* response that was in its channel.
LEMMA ReceiveStep ==
    ASSUME go \in [Threads -> Goroutine],
           chan \in [Threads -> [kind : Answers \cup {"none"}, to : Threads]],
           NEW t \in Threads, Receive(t)
    PROVE  /\ Moves(t, go'[t])
           /\ go'[t].pc \in {"send", "done"} /\ go'[t].server = go[t].server
           /\ go'[t].pc = "send" => t = Boot
           /\ go'[t].pc = "done" => go'[t].from = chan[t].to
  <1> DEFINE kind == chan[t].kind
             again == t = Boot /\ kind = "ok" /\ go[t].steps = 0
             next == [go[t] EXCEPT !.pc = "send", !.steps = 1]
             end == [go[t] EXCEPT !.pc = "done", !.from = chan[t].to,
                                  !.result = IF t = Boot /\ kind # "ok" THEN "error" ELSE kind]
  <1>1. go' = [go EXCEPT ![t] = IF again THEN next ELSE end]
    BY DEF Receive
  <1>2. next \in Goroutine /\ next.pc = "send" /\ next.server = go[t].server
    <2>1. next \in Goroutine
      BY MovedRecords
    <2>2. next.pc = "send" /\ next.server = go[t].server
      BY DEF Goroutine
    <2> QED BY <2>1, <2>2
  <1>3. end \in Goroutine /\ end.pc = "done" /\ end.server = go[t].server /\ end.from = chan[t].to
    <2>1. kind \in Answers /\ chan[t].to \in Threads
      BY DEF Receive
    <2>2. end \in Goroutine
      <3> DEFINE res == IF t = Boot /\ kind # "ok" THEN "error" ELSE kind
      <3>1. res \in Answers \cup {"none", "error"}
        BY <2>1
      <3>2. end = [go[t] EXCEPT !.pc = "done", !.from = chan[t].to, !.result = res]
        OBVIOUS
      <3> HIDE DEF res, end
      <3> QED BY <2>1, <3>1, <3>2, MovedRecords
    <2>3. end.pc = "done" /\ end.server = go[t].server /\ end.from = chan[t].to
      BY DEF Goroutine
    <2> QED BY <2>2, <2>3
  <1>4. CASE again
    <2>1. Moves(t, next)
      <3> HIDE DEF next, end
      <3> QED BY <1>1, <1>2, <1>4, AssignMoves
    <2> HIDE DEF next
    <2> QED BY <1>2, <1>4, <2>1 DEF Moves
  <1>5. CASE ~again
    <2>1. Moves(t, end)
      <3> HIDE DEF next, end, again
      <3> QED BY <1>1, <1>3, <1>5, AssignMoves
    <2> HIDE DEF end
    <2> QED BY <1>3, <1>5, <2>1 DEF Moves
  <1> QED BY <1>4, <1>5

\* A round starts every call afresh and leaves Boot alone.
LEMMA DispatchStep ==
    ASSUME go \in [Threads -> Goroutine], DispatchAll
    PROVE  /\ go' \in [Threads -> Goroutine] /\ go'[Boot] = go[Boot]
           /\ \A t \in Calls : go'[t].pc = "send"
  <1>1. PICK target \in [Calls -> Servers \cup {NoName}] :
            go' = [t \in Threads |-> IF t = Boot THEN go[Boot]
                                     ELSE [Ready EXCEPT !.pc = "send", !.server = target[t]]]
    BY DEF DispatchAll
  <1>2. \A t \in Calls : t # Boot /\ t \in Threads
    BY McpAssumption DEF Threads
  <1>3. ASSUME NEW t \in Calls
        PROVE  go'[t] \in Goroutine /\ go'[t].pc = "send"
    <2> DEFINE g == [Ready EXCEPT !.pc = "send", !.server = target[t]]
    <2>1. g \in Goroutine /\ g.pc = "send"
      BY ReadyStep
    <2>2. go'[t] = g
      BY <1>1, <1>2
    <2> HIDE DEF g
    <2> QED BY <2>1, <2>2
  <1>4. go'[Boot] = go[Boot]
    BY <1>1 DEF Threads
  <1>5. ASSUME NEW t \in Threads PROVE go'[t] \in Goroutine
    BY <1>3, <1>4 DEF Threads
  <1>6. \E f : go' = [t \in Threads |-> f[t]]
    <2> DEFINE f == [t \in Threads |-> go'[t]]
    <2>1. go' = [t \in Threads |-> f[t]]
      BY <1>1
    <2> HIDE DEF f
    <2> QED BY <2>1
  <1>7. go' \in [Threads -> Goroutine]
    BY <1>5, <1>6
  <1> QED BY <1>3, <1>4, <1>7

\* Start's goroutine begins a handshake, or is back where it began.
LEMMA StartServerStep ==
    ASSUME go \in [Threads -> Goroutine], NEW s \in Servers, StartServer(s)
    PROVE  Moves(Boot, go'[Boot]) /\ go'[Boot].pc = "send" /\ go'[Boot].server = s
  <1> DEFINE g == [Ready EXCEPT !.pc = "send", !.server = s]
  <1>1. g \in Goroutine /\ g.pc = "send" /\ g.server = s
    BY ReadyStep
  <1>2. go' = [go EXCEPT ![Boot] = g]
    BY DEF StartServer
  <1> HIDE DEF g
  <1>3. Moves(Boot, g)
    BY <1>1, <1>2, AssignMoves DEF Threads
  <1> QED BY <1>1, <1>3 DEF Moves

\* Manager.Start returns: the starting thread has nothing more to do.
LEMMA StartEndsStep ==
    ASSUME go \in [Threads -> Goroutine], StartEnds
    PROVE  Moves(Boot, Ready) /\ Ready.pc = "idle"
  BY ReadyStep, AssignMoves DEF StartEnds, Threads

-----------------------------------------------------------------------------
(* Types.                                                                   *)

\* The types hold initially.
LEMMA InitTypeOK == Init => TypeOK
  <1> SUFFICES ASSUME Init PROVE TypeOK
    OBVIOUS
  <1>1. go \in [Threads -> Goroutine]
    BY ReadyStep DEF Init
  <1>2. chan \in [Threads -> [kind : Answers \cup {"none"}, to : Threads]]
    BY DEF Init, Empty, Threads
  <1> QED BY <1>1, <1>2, McpAssumption DEF Init, TypeOK

\* Every step keeps every variable in its type.
LEMMA TypeStep == TypeInv /\ [Next]_vars => TypeOK'
  <1> SUFFICES ASSUME TypeOK, BootNamed, [Next]_vars PROVE TypeOK'
    BY DEF TypeInv
  <1> USE McpAssumption
  <1>0. go \in [Threads -> Goroutine] /\ fatal \in Kinds \cup {"none"}
    BY DEF TypeOK
  <1>1. CASE UNCHANGED vars
    BY <1>1 DEF TypeOK, vars, pipes, clients, control
  <1>2. CASE CannotStart \/ AllStarted \/ DispatchReturns \/ TurnsEnd \/ AllStopped
    BY <1>2 DEF TypeOK, CannotStart, AllStarted, DispatchReturns, TurnsEnd, AllStopped, pipes, clients
  <1>3. CASE ContextEnds
    BY <1>3 DEF TypeOK, ContextEnds, pipes, clients
  <1>4. CASE DispatchAll
    <2>1. go' \in [Threads -> Goroutine]
      BY <1>0, <1>4, DispatchStep
    <2>2. round' \in 0..MaxRounds
      <3>1. round < MaxRounds /\ round' = round + 1
        BY <1>4 DEF DispatchAll
      <3>2. round \in 0..MaxRounds
        BY DEF TypeOK
      <3> QED BY <3>1, <3>2
    <2> QED BY <1>4, <2>1, <2>2 DEF TypeOK, DispatchAll, pipes, clients
  <1>5. CASE StartEnds
    <2>1. go' \in [Threads -> Goroutine]
      BY <1>0, <1>5, StartEndsStep DEF Moves
    <2>2. servers' \subseteq Servers /\ toStop' \subseteq Servers
      <3>1. go[Boot].server \in Servers
        BY <1>5 DEF StartEnds, BootNamed
      <3> QED BY <1>5, <3>1 DEF TypeOK, StartEnds
    <2> QED BY <1>5, <2>1, <2>2 DEF TypeOK, StartEnds, pipes, clients
  <1>6. ASSUME NEW t \in Threads, InvalidName(t) PROVE TypeOK'
    <2>1. go' \in [Threads -> Goroutine] /\ fatal' \in Kinds \cup {"none"}
      BY <1>0, <1>6, InvalidNameStep DEF Moves
    <2> QED BY <1>6, <2>1 DEF TypeOK, InvalidName, pipes, clients, control
  <1>7. ASSUME NEW t \in Threads, Register(t) PROVE TypeOK'
    <2>1. go[t].server \in Servers /\ nextID \in [Servers -> Nat]
      BY <1>0, <1>7 DEF Register, Goroutine, TypeOK
    <2>2. CASE closed[go[t].server]
      <3>1. go' \in [Threads -> Goroutine] /\ fatal' \in Kinds \cup {"none"}
        BY <1>0, <1>7, <2>2, SendFailsStep DEF Moves, Register
      <3> QED BY <1>7, <2>1, <2>2, <3>1 DEF TypeOK, Register, pipes, control
    <2>3. CASE ~closed[go[t].server]
      <3>1. go' \in [Threads -> Goroutine]
        BY <1>0, <1>7, <2>1, <2>3, RegisterStep DEF Moves
      <3>2. chan' \in [Threads -> [kind : Answers \cup {"none"}, to : Threads]]
        <4>1. chan' = [chan EXCEPT ![t] = Empty] /\ Empty \in [kind : Answers \cup {"none"}, to : Threads]
          BY <1>7, <2>3 DEF Register, Empty, Threads
        <4> QED BY <4>1 DEF TypeOK
      <3>0. pending' = [pending EXCEPT ![go[t].server] = @ \cup {nextID[go[t].server]}]
        BY <1>7, <2>3 DEF Register
      <3>3. pending' \in [Servers -> SUBSET Nat]
        BY <2>1, <3>0 DEF TypeOK
      <3>4. nextID' \in [Servers -> Nat]
        BY <1>7, <2>1 DEF Register
      <3>5. ASSUME NEW s \in Servers PROVE pending'[s] \subseteq 1..(nextID'[s] - 1)
        <4>1. /\ pending'[s] \subseteq pending[s] \cup {nextID[s]}
              /\ s # go[t].server => pending'[s] = pending[s]
          BY <2>1, <3>0 DEF TypeOK
        <4>2. nextID'[s] = IF s = go[t].server THEN nextID[s] + 1 ELSE nextID[s]
          BY <1>7, <2>1 DEF Register
        <4>3. pending[s] \subseteq 1..(nextID[s] - 1) /\ nextID[s] \in Nat /\ nextID[s] > 0
          BY <2>1 DEF TypeOK
        <4> QED BY <4>1, <4>2, <4>3
      <3> QED BY <1>7, <2>1, <2>3, <3>1, <3>2, <3>3, <3>4, <3>5 DEF TypeOK, Register, pipes, control
    <2> QED BY <2>2, <2>3
  <1>8. ASSUME NEW t \in Threads, Write(t) PROVE TypeOK'
    <2> DEFINE s == go[t].server
               m == [id |-> go[t].id, to |-> t]
    <2>1. CASE ~Broken(s) /\ Len(stdin[s]) < PipeCap /\ stdin' = [stdin EXCEPT ![s] = Append(@, m)]
               /\ go' = [go EXCEPT ![t].pc = "wait"] /\ UNCHANGED <<pending, fatal>>
      <3>1. go' \in [Threads -> Goroutine]
        BY <1>0, <2>1, WaitStep DEF Moves
      <3>2. m \in Request
        BY <1>0 DEF Request, Goroutine
      <3> HIDE DEF m, s
      <3>3. stdin' \in [Servers -> Seq(Request)] /\ \A x \in Servers : Len(stdin'[x]) <= PipeCap
        <4>1. ASSUME NEW x \in Servers
              PROVE  stdin'[x] \in Seq(Request) /\ Len(stdin'[x]) <= PipeCap
          <5>1. CASE x = s
            <6>1. stdin[x] \in Seq(Request) /\ stdin'[x] = Append(stdin[x], m)
              BY <2>1, <5>1 DEF TypeOK
            <6> QED BY <2>1, <3>2, <5>1, <6>1
          <5>2. CASE x # s
            BY <2>1, <5>2 DEF TypeOK
          <5> QED BY <5>1, <5>2
        <4> QED BY <2>1, <4>1 DEF TypeOK
      <3> QED BY <1>8, <2>1, <3>1, <3>3 DEF TypeOK, Write, control
    <2>2. CASE /\ pending' = [pending EXCEPT ![s] = @ \ {go[t].id}]
               /\ SendFails(t, "write") /\ stdin' = stdin
      <3>1. go' \in [Threads -> Goroutine] /\ fatal' \in Kinds \cup {"none"}
        BY <1>0, <2>2, SendFailsStep DEF Moves
      <3> HIDE DEF s
      <3> QED BY <1>8, <2>2, <3>1 DEF TypeOK, Write, control
    <2> QED BY <1>8, <2>1, <2>2 DEF Write
  <1>9. ASSUME NEW t \in Threads, Receive(t) PROVE TypeOK'
    <2>1. go' \in [Threads -> Goroutine]
      BY <1>0, <1>9, ReceiveStep DEF Moves, TypeOK
    <2>2. chan' \in [Threads -> [kind : Answers \cup {"none"}, to : Threads]]
      BY <1>9 DEF TypeOK, Receive, Empty, Threads
    <2> QED BY <1>9, <2>1, <2>2 DEF TypeOK, Receive, pipes, clients, control
  <1>10. ASSUME NEW t \in Threads, NEW err, ContextDone(t, err) PROVE TypeOK'
    <2>1. go' \in [Threads -> Goroutine] /\ fatal' \in Kinds \cup {"none"}
      BY <1>0, <1>10, SendFailsStep DEF Moves, ContextDone
    <2>2. chan' \in [Threads -> [kind : Answers \cup {"none"}, to : Threads]]
      BY <1>10 DEF TypeOK, ContextDone, Empty, Threads
    <2> DEFINE s == go[t].server
    <2>3. pending' = [pending EXCEPT ![s] = @ \ {go[t].id}]
      BY <1>10 DEF ContextDone
    <2> HIDE DEF s
    <2>4. pending' \in [Servers -> SUBSET Nat] /\ \A x \in Servers : pending'[x] \subseteq pending[x]
      BY <2>3 DEF TypeOK
    <2>5. \A x \in Servers : pending'[x] \subseteq 1..(nextID[x] - 1)
      BY <2>4 DEF TypeOK
    <2>6. UNCHANGED <<proc, kids, stdin, asked, stdout, nextID, closed, servers, phase, round,
                      runCtx, toStop, stop>>
      BY <1>10 DEF ContextDone, pipes, control
    <2> QED BY <2>1, <2>2, <2>4, <2>5, <2>6 DEF TypeOK
  <1>11. ASSUME NEW t \in Threads, StreamEnded(t) PROVE TypeOK'
    <2>1. go' \in [Threads -> Goroutine] /\ fatal' \in Kinds \cup {"none"}
      BY <1>0, <1>11, SendFailsStep DEF Moves, StreamEnded
    <2>2. chan' \in [Threads -> [kind : Answers \cup {"none"}, to : Threads]]
      BY <1>11 DEF TypeOK, StreamEnded, Empty, Threads
    <2> QED BY <1>11, <2>1, <2>2 DEF TypeOK, StreamEnded, pipes, clients, control
  <1>12. ASSUME NEW s \in Servers, StartServer(s) PROVE TypeOK'
    <2>1. go' \in [Threads -> Goroutine]
      BY <1>0, <1>12, StartServerStep DEF Moves
    <2>2. kids' \in [Servers -> BOOLEAN]
      BY <1>12 DEF TypeOK, StartServer
    <2> QED BY <1>12, <2>1, <2>2 DEF TypeOK, StartServer, pipes, clients, control
  <1>13. ASSUME NEW s \in Servers, ReadLine(s) PROVE TypeOK'
    <2>1. PICK m \in stdout[s] :
              /\ stdout' = [stdout EXCEPT ![s] = @ \ {m}]
              /\ pending' = [pending EXCEPT ![s] = @ \ {m.id}]
              /\ chan' = [t \in Threads |->
                     IF /\ m.id \in pending[s] /\ go[t].server = s /\ go[t].id = m.id
                        /\ go[t].pc \in {"write", "wait"}
                     THEN [kind |-> m.kind, to |-> m.to] ELSE chan[t]]
      BY <1>13 DEF ReadLine
    <2>2. [kind |-> m.kind, to |-> m.to] \in [kind : Answers \cup {"none"}, to : Threads]
      BY DEF TypeOK, Response
    <2>3. chan' \in [Threads -> [kind : Answers \cup {"none"}, to : Threads]]
      BY <2>1, <2>2 DEF TypeOK
    <2> QED BY <1>13, <2>1, <2>3 DEF TypeOK, ReadLine, control
  <1>14. ASSUME NEW s \in Servers, ReadEOF(s) PROVE TypeOK'
    <2>1. closed' \in [Servers -> BOOLEAN]
      BY <1>14, Zenon DEF TypeOK, ReadEOF
    <2> QED BY <1>14, <2>1 DEF TypeOK, ReadEOF, pipes, control
  <1>15. ASSUME NEW s \in Servers, CloseStdin(s) \/ Reaped(s) PROVE TypeOK'
    BY <1>15 DEF TypeOK, CloseStdin, Reaped, pipes, clients, control
  <1>16. ASSUME NEW s \in Servers, Terminate(s) \/ Kill(s) PROVE TypeOK'
    <2>1. kids' \in [Servers -> BOOLEAN]
      BY <1>16, Zenon DEF TypeOK, Terminate, Kill
    <2> QED BY <1>16, <2>1 DEF TypeOK, Terminate, Kill, pipes, clients, control
  <1>17. ASSUME NEW s \in Servers, ServerReads(s) PROVE TypeOK'
    <2>1. /\ asked' = [asked EXCEPT ![s] = @ \cup {Head(stdin[s])}]
          /\ stdin' = [stdin EXCEPT ![s] = Tail(@)]
          /\ stdin[s] \in Seq(Request) /\ stdin[s] # <<>>
      BY <1>17 DEF ServerReads, TypeOK
    <2>2. Head(stdin[s]) \in Request /\ Tail(stdin[s]) \in Seq(Request)
          /\ Len(Tail(stdin[s])) <= Len(stdin[s])
      BY <2>1
    <2>3. asked' \in [Servers -> SUBSET Request] /\ stdin' \in [Servers -> Seq(Request)]
      BY <2>1, <2>2 DEF TypeOK
    <2>4. \A x \in Servers : Len(stdin'[x]) <= PipeCap
      BY <2>1, <2>2 DEF TypeOK
    <2> QED BY <1>17, <2>3, <2>4 DEF TypeOK, ServerReads, clients, control
  <1>18. ASSUME NEW s \in Servers, ServerAnswers(s) PROVE TypeOK'
    <2>1. PICK m \in asked[s], kind \in Answers :
              /\ asked' = [asked EXCEPT ![s] = @ \ {m}]
              /\ stdout' = [stdout EXCEPT ![s] =
                     @ \cup {[id |-> m.id, to |-> m.to, kind |-> kind]}]
      BY <1>18 DEF ServerAnswers
    <2>2. [id |-> m.id, to |-> m.to, kind |-> kind] \in Response
      BY DEF TypeOK, Request, Response
    <2> QED BY <1>18, <2>1, <2>2 DEF TypeOK, ServerAnswers, clients, control
  <1>19. ASSUME NEW s \in Servers, ServerExits(s) PROVE TypeOK'
    BY <1>19 DEF TypeOK, ServerExits, pipes, clients, control
  <1> QED
    BY <1>1, <1>2, <1>3, <1>4, <1>5, <1>6, <1>7, <1>8, <1>9, <1>10, <1>11, <1>12, <1>13, <1>14,
       <1>15, <1>16, <1>17, <1>18, <1>19
       DEF Next, Caller, Send, ReadLoop, Shutdown, Outside

-----------------------------------------------------------------------------
(* Every step, as its goroutines see it.                                    *)

\* A send moves one goroutine that was sending, on the server it had, and
\* leaves the manager, the processes and the streams alone.
LEMMA SendStep ==
    ASSUME TypeInv, NEW t \in Threads, Send(t)
    PROVE  /\ Moves(t, go'[t])
           /\ go[t].pc \in {"send", "write", "wait"}
           /\ go'[t].pc # "idle" /\ go'[t].server = go[t].server
           /\ UNCHANGED <<proc, kids, asked, stdout, closed, servers, phase, round, runCtx,
                          toStop, stop>>
  <1>0. /\ go \in [Threads -> Goroutine] /\ fatal \in Kinds \cup {"none"}
        /\ nextID \in [Servers -> Nat]
        /\ chan \in [Threads -> [kind : Answers \cup {"none"}, to : Threads]]
    BY DEF TypeInv, TypeOK
  <1>1. CASE InvalidName(t)
    BY <1>0, <1>1, InvalidNameStep DEF InvalidName, pipes, clients, control
  <1>2. CASE Register(t)
    <2>1. CASE closed[go[t].server]
      BY <1>0, <1>2, <2>1, SendFailsStep DEF Register, pipes, control
    <2>2. CASE ~closed[go[t].server]
      BY <1>0, <1>2, <2>2, RegisterStep DEF Register, pipes, control
    <2> QED BY <2>1, <2>2
  <1>3. CASE Write(t)
    <2>1. CASE go' = [go EXCEPT ![t].pc = "wait"]
      BY <1>0, <1>3, <2>1, WaitStep DEF Write, control
    <2>2. CASE SendFails(t, "write")
      BY <1>0, <1>3, <2>2, SendFailsStep DEF Write, control
    <2> QED BY <1>3, <2>1, <2>2 DEF Write
  <1>4. CASE Receive(t)
    BY <1>0, <1>4, ReceiveStep DEF Receive, pipes, clients, control
  <1>5. ASSUME NEW err, ContextDone(t, err)
        PROVE  /\ Moves(t, go'[t])
               /\ go[t].pc \in {"send", "write", "wait"}
               /\ go'[t].pc # "idle" /\ go'[t].server = go[t].server
               /\ UNCHANGED <<proc, kids, asked, stdout, closed, servers, phase, round, runCtx,
                              toStop, stop>>
    BY <1>0, <1>5, SendFailsStep DEF ContextDone, pipes, control
  <1>6. CASE StreamEnded(t)
    BY <1>0, <1>6, SendFailsStep DEF StreamEnded, pipes, clients, control
  <1> QED BY <1>1, <1>2, <1>3, <1>4, <1>5, <1>6 DEF Send

\* The steps of the caller, of the servers and of their clients' readers that
\* move no goroutine.
Quiet ==
    \/ AllStarted \/ DispatchReturns \/ TurnsEnd \/ AllStopped \/ CannotStart \/ ContextEnds
    \/ \E s \in Servers : ReadLoop(s) \/ Shutdown(s) \/ Outside(s)

\* A quiet step starts no request.
LEMMA QuietStep == Quiet => go' = go /\ nextID' = nextID
  BY DEF Quiet, AllStarted, DispatchReturns, TurnsEnd, AllStopped, CannotStart, ContextEnds,
         ReadLoop, ReadLine, ReadEOF, Shutdown, CloseStdin, Reaped, Terminate, Kill, Outside,
         ServerReads, ServerAnswers, ServerExits, clients

\* The steps there are.
LEMMA Steps ==
    ASSUME [Next]_vars
    PROVE  \/ UNCHANGED vars
           \/ Quiet
           \/ StartEnds
           \/ DispatchAll
           \/ \E s \in Servers : StartServer(s)
           \/ \E t \in Threads : Send(t)
  BY DEF Next, Caller, Quiet

\* Start's goroutine always has one of the run's servers while it is busy.
LEMMA TypeInvStep == TypeInv /\ [Next]_vars => TypeInv'
  <1> SUFFICES ASSUME TypeInv, [Next]_vars PROVE BootNamed'
    BY TypeStep DEF TypeInv
  <1>0. go \in [Threads -> Goroutine] /\ Boot \in Threads /\ Boot \notin Calls
    BY McpAssumption DEF TypeInv, TypeOK, Threads
  <1>1. CASE UNCHANGED vars \/ Quiet
    BY <1>1, QuietStep DEF TypeInv, BootNamed, vars
  <1>2. CASE StartEnds
    BY <1>0, <1>2, StartEndsStep DEF Moves, BootNamed
  <1>3. CASE DispatchAll
    BY <1>0, <1>3, DispatchStep DEF TypeInv, BootNamed
  <1>4. ASSUME NEW s \in Servers, StartServer(s) PROVE BootNamed'
    BY <1>0, <1>4, StartServerStep DEF BootNamed
  <1>5. ASSUME NEW t \in Threads, Send(t) PROVE BootNamed'
    <2>1. Moves(t, go'[t]) /\ go[t].pc # "idle" /\ go'[t].server = go[t].server
      BY <1>5, SendStep
    <2> QED BY <1>0, <2>1 DEF Moves, TypeInv, BootNamed
  <1> QED BY <1>1, <1>2, <1>3, <1>4, <1>5, Steps

-----------------------------------------------------------------------------
(* The cause of a failure.                                                  *)

\* No step makes a cancellation the kind of a run whose context is alive: a
\* call is only cancelled once another kind is kept.
LEMMA CauseStep == CauseKept /\ [Next]_vars => CauseKept'
  <1> SUFFICES ASSUME CauseKept, [Next]_vars PROVE CauseKept'
    OBVIOUS
  <1>1. ASSUME NEW t \in Threads, NEW err, SendFails(t, err), runCtx' = runCtx,
               err = "canceled" => t # Boot /\ (fatal # "none" \/ runCtx = "cancelled")
        PROVE  CauseKept'
    BY <1>1 DEF SendFails, SetFatal, Classify, CauseKept
  <1>2. CASE UNCHANGED vars \/ Quiet \/ StartEnds \/ DispatchAll
    BY <1>2 DEF CauseKept, vars, control, Quiet, AllStarted, DispatchReturns, TurnsEnd,
         AllStopped, CannotStart, ContextEnds, StartEnds, DispatchAll,
         ReadLoop, ReadLine, ReadEOF, Shutdown, CloseStdin, Reaped, Terminate, Kill, Outside,
         ServerReads, ServerAnswers, ServerExits
  <1>3. ASSUME NEW s \in Servers, StartServer(s) PROVE CauseKept'
    BY <1>3 DEF StartServer, control, CauseKept
  <1>4. ASSUME NEW t \in Threads, Send(t) PROVE CauseKept'
    <2>1. CASE InvalidName(t)
      BY <2>1 DEF InvalidName, SetFatal, control, CauseKept
    <2>2. CASE Register(t)
      BY <2>2, <1>1 DEF Register, control, CauseKept
    <2>3. CASE Write(t)
      BY <2>3, <1>1 DEF Write, control, CauseKept
    <2>4. CASE Receive(t)
      BY <2>4 DEF Receive, control, CauseKept
    <2>5. ASSUME NEW err, ContextDone(t, err) PROVE CauseKept'
      BY <2>5, <1>1 DEF ContextDone, control
    <2>6. CASE StreamEnded(t)
      BY <2>6, <1>1 DEF StreamEnded, control
    <2> QED BY <1>4, <2>1, <2>2, <2>3, <2>4, <2>5, <2>6 DEF Send
  <1> QED BY <1>2, <1>3, <1>4, Steps

\* The kind a run fails with is its cause, whatever the order in which its
\* calls fail and are cancelled.
THEOREM TheCauseIsKept == Spec => []CauseKept
  <1>1. Init => CauseKept
    BY DEF Init, CauseKept
  <1>2. CauseKept /\ [Next]_vars => CauseKept'
    BY CauseStep
  <1> QED BY <1>1, <1>2, PTL DEF Spec

-----------------------------------------------------------------------------
(* No process outlives the run.                                             *)

\* Every step keeps ServerInv: a running server is one the manager has entered,
\* is starting, or has yet to stop.
LEMMA ServerStep == TypeInv /\ ServerInv /\ [Next]_vars => ServerInv'
  <1> SUFFICES ASSUME TypeInv, ServerInv, [Next]_vars, NEW s \in Servers, proc'[s] = "running"
               PROVE  Known(s)'
    BY DEF ServerInv
  <1>0. /\ go \in [Threads -> Goroutine] /\ Boot \in Threads /\ Boot \notin Calls
        /\ proc \in [Servers -> {"none", "running", "exited"}]
        /\ phase \in {"start", "turn", "dispatch", "shutdown", "over"}
    BY McpAssumption DEF TypeInv, TypeOK, Threads
  <1>1. CASE UNCHANGED vars
    BY <1>1 DEF ServerInv, Known, vars, control
  <1>2. CASE AllStarted \/ DispatchReturns \/ TurnsEnd \/ AllStopped \/ CannotStart \/ ContextEnds
    BY <1>0, <1>2 DEF ServerInv, Known, AllStarted, DispatchReturns, TurnsEnd, AllStopped,
         CannotStart, ContextEnds
  <1>3. ASSUME NEW x \in Servers, ReadLoop(x) \/ CloseStdin(x) \/ Terminate(x)
                                    \/ ServerReads(x) \/ ServerAnswers(x)
        PROVE  Known(s)'
    BY <1>3 DEF ServerInv, Known, ReadLoop, ReadLine, ReadEOF, CloseStdin, Terminate,
         ServerReads, ServerAnswers, control
  <1>4. ASSUME NEW x \in Servers, Reaped(x) \/ Kill(x) \/ ServerExits(x) PROVE Known(s)'
    BY <1>0, <1>4 DEF ServerInv, Known, Reaped, Kill, ServerExits, control
  <1>5. CASE StartEnds
    <2>1. go' \in [Threads -> Goroutine] /\ proc' = proc
      BY <1>0, <1>5, StartEndsStep DEF Moves, StartEnds
    <2>2. s \in servers \/ s = go[Boot].server
      BY <1>5, <2>1 DEF ServerInv, Known, StartEnds
    <2> QED BY <1>5, <2>2 DEF Known, StartEnds
  <1>6. CASE DispatchAll
    BY <1>6 DEF ServerInv, Known, DispatchAll
  <1>7. ASSUME NEW x \in Servers, StartServer(x) PROVE Known(s)'
    <2>1. go'[Boot].pc = "send" /\ go'[Boot].server = x
      BY <1>0, <1>7, StartServerStep
    <2> QED BY <1>0, <1>7, <2>1 DEF ServerInv, Known, StartServer, control
  <1>8. ASSUME NEW t \in Threads, Send(t) PROVE Known(s)'
    <2>1. /\ Moves(t, go'[t]) /\ go'[t].pc # "idle" /\ go'[t].server = go[t].server
          /\ UNCHANGED <<proc, servers, phase, toStop>>
      BY <1>8, SendStep
    <2> QED BY <1>0, <2>1 DEF Moves, ServerInv, Known
  <1> QED BY <1>1, <1>2, <1>3, <1>4, <1>5, <1>6, <1>7, <1>8, Steps DEF Quiet, Shutdown, Outside

\* TypeInv holds initially.
LEMMA InitTypeInv == Init => TypeInv
  BY InitTypeOK, ReadyStep DEF Init, TypeInv, BootNamed, Threads

\* Every variable keeps its type.
THEOREM McpTypeCorrect == Spec => []TypeOK
  <1>1. TypeInv => TypeOK
    BY DEF TypeInv
  <1> QED BY <1>1, InitTypeInv, TypeInvStep, PTL DEF Spec

\* When the run is over no server process it started is running, however the
\* run ended: in a failed start, a failed round or after its last turn.
THEOREM NoServerSurvives == Spec => []NoServerLeft
  <1>1. Init => TypeInv /\ ServerInv
    BY InitTypeInv DEF Init, ServerInv
  <1>2. TypeInv /\ ServerInv /\ [Next]_vars => (TypeInv /\ ServerInv)'
    BY TypeInvStep, ServerStep
  <1>3. TypeInv /\ ServerInv => NoServerLeft
    BY DEF ServerInv, Known, NoServerLeft
  <1> QED BY <1>1, <1>2, <1>3, PTL DEF Spec

-----------------------------------------------------------------------------
(* Requests in flight.                                                      *)

\* Goroutine t registers a request: the only way into flight.
Opens(t) == Register(t) /\ ~closed[go[t].server]
\* A goroutine in flight was in flight, with the same request.
NoNewFlight ==
    \A t \in Threads : InFlight(t)' =>
        InFlight(t) /\ go'[t].server = go[t].server /\ go'[t].id = go[t].id

\* A step either opens no request, and takes back no id, or is one call of send
\* that takes the next id of its server.
LEMMA FlightStep ==
    ASSUME TypeInv, [Next]_vars
    PROVE  (NoNewFlight /\ \A s \in Servers : nextID'[s] >= nextID[s])
              \/ \E t \in Threads : Opens(t)
  <1>0. /\ go \in [Threads -> Goroutine] /\ fatal \in Kinds \cup {"none"}
        /\ nextID \in [Servers -> Nat]
        /\ chan \in [Threads -> [kind : Answers \cup {"none"}, to : Threads]]
        /\ Threads = Calls \cup {Boot} /\ Boot \notin Calls
    BY McpAssumption DEF TypeInv, TypeOK, Threads
  <1> DEFINE Stays == NoNewFlight /\ \A s \in Servers : nextID'[s] >= nextID[s]
  <1>a. ASSUME NoNewFlight, nextID' = nextID PROVE Stays
    BY <1>0, <1>a
  <1>1. CASE UNCHANGED vars \/ Quiet
    BY <1>0, <1>1, QuietStep DEF NoNewFlight, InFlight, vars, clients
  <1>2. CASE StartEnds
    BY <1>0, <1>2, StartEndsStep DEF NoNewFlight, InFlight, Moves, StartEnds, clients
  <1>3. CASE DispatchAll
    <2>1. nextID' = nextID
      BY <1>3 DEF DispatchAll, clients
    <2>2. NoNewFlight
      BY <1>0, <1>3, DispatchStep DEF NoNewFlight, InFlight
    <2> QED BY <1>a, <2>1, <2>2
  <1>4. ASSUME NEW s \in Servers, StartServer(s) PROVE Stays
    <2>1. nextID' = nextID
      BY <1>4 DEF StartServer, clients
    <2>2. NoNewFlight
      BY <1>0, <1>4, StartServerStep DEF NoNewFlight, InFlight, Moves
    <2> QED BY <1>a, <2>1, <2>2
  <1>5. ASSUME NEW t \in Threads, Send(t), ~Opens(t) PROVE Stays
    <2>1. CASE InvalidName(t)
      <3>1. nextID' = nextID
        BY <2>1 DEF InvalidName, clients
      <3>2. NoNewFlight
        BY <1>0, <2>1, InvalidNameStep DEF NoNewFlight, InFlight, Moves
      <3> QED BY <1>a, <3>1, <3>2
    <2>2. CASE Register(t)
      BY <1>0, <1>5, <2>2, SendFailsStep DEF NoNewFlight, InFlight, Moves, Register, Opens
    <2>3. CASE Write(t)
      <3>1. CASE go' = [go EXCEPT ![t].pc = "wait"]
        BY <1>0, <2>3, <3>1, WaitStep DEF NoNewFlight, InFlight, Moves, Write
      <3>2. CASE SendFails(t, "write")
        BY <1>0, <2>3, <3>2, SendFailsStep DEF NoNewFlight, InFlight, Moves, Write
      <3> QED BY <2>3, <3>1, <3>2 DEF Write
    <2>4. CASE Receive(t)
      <3>1. nextID' = nextID
        BY <2>4 DEF Receive, clients
      <3>2. NoNewFlight
        BY <1>0, <2>4, ReceiveStep DEF NoNewFlight, InFlight, Moves
      <3> QED BY <1>a, <3>1, <3>2
    <2>5. ASSUME NEW err, ContextDone(t, err) PROVE Stays
      BY <1>0, <2>5, SendFailsStep DEF NoNewFlight, InFlight, Moves, ContextDone
    <2>6. CASE StreamEnded(t)
      BY <1>0, <2>6, SendFailsStep DEF NoNewFlight, InFlight, Moves, StreamEnded, clients
    <2> QED BY <1>5, <2>1, <2>2, <2>3, <2>4, <2>5, <2>6 DEF Send
  <1> QED BY <1>1, <1>2, <1>3, <1>4, <1>5, Steps

\* What registering does to the requests: t gets a new id, the others keep theirs.
LEMMA OpensStep ==
    ASSUME TypeInv, NEW t \in Threads, Opens(t)
    PROVE  LET s == go[t].server IN
           /\ s \in Servers /\ ~InFlight(t) /\ Moves(t, go'[t])
           /\ go'[t].pc = "write" /\ go'[t].server = s /\ go'[t].id = nextID[s]
           /\ nextID'[s] = nextID[s] + 1
           /\ \A x \in Servers : x # s => nextID'[x] = nextID[x]
  <1>0. go \in [Threads -> Goroutine] /\ nextID \in [Servers -> Nat]
    BY DEF TypeInv, TypeOK
  <1>1. /\ go[t].server \in Servers /\ Moves(t, go'[t]) /\ go'[t].pc = "write"
        /\ go'[t].server = go[t].server /\ go'[t].id = nextID[go[t].server]
    BY <1>0, RegisterStep DEF Opens
  <1> QED BY <1>0, <1>1 DEF Opens, Register, InFlight

\* Ids in flight are handed out, and one goroutine each has them.
LEMMA IdStep == IdInv /\ [Next]_vars => IdInv'
  <1> SUFFICES ASSUME IdInv, [Next]_vars PROVE IdHandedOut' /\ IdUnique'
    BY TypeInvStep DEF IdInv
  <1>0. /\ TypeInv /\ TypeInv' /\ IdHandedOut /\ IdUnique
        /\ nextID \in [Servers -> Nat] /\ nextID' \in [Servers -> Nat]
        /\ go \in [Threads -> Goroutine] /\ \A t \in Threads : go[t].id \in Nat
    BY TypeInvStep DEF IdInv, TypeInv, TypeOK, Goroutine
  <1>1. CASE NoNewFlight /\ \A s \in Servers : nextID'[s] >= nextID[s]
    <2>1. IdHandedOut'
      BY <1>0, <1>1 DEF NoNewFlight, IdHandedOut
    <2>2. IdUnique'
      BY <1>0, <1>1 DEF NoNewFlight, IdUnique, SameRequest
    <2> QED BY <2>1, <2>2
  <1>2. ASSUME NEW t \in Threads, Opens(t) PROVE IdHandedOut' /\ IdUnique'
    <2> DEFINE s == go[t].server
    <2>1. /\ s \in Servers /\ Moves(t, go'[t])
          /\ go'[t].pc = "write" /\ go'[t].server = s /\ go'[t].id = nextID[s]
          /\ nextID'[s] = nextID[s] + 1
          /\ \A x \in Servers : x # s => nextID'[x] = nextID[x]
      BY <1>0, <1>2, OpensStep
    <2>2. ASSUME NEW u \in Threads, u # t, InFlight(u)'
          PROVE  /\ go'[u] = go[u] /\ InFlight(u) /\ go[u].server \in Servers
                 /\ go[u].id < nextID[go[u].server]
      BY <1>0, <2>1, <2>2 DEF Moves, InFlight, IdHandedOut
    <2> HIDE DEF s
    <2>3. IdHandedOut'
      BY <1>0, <2>1, <2>2 DEF IdHandedOut
    <2>4. IdUnique'
      BY <1>0, <2>1, <2>2 DEF IdUnique, SameRequest
    <2> QED BY <2>3, <2>4
  <1> QED BY <1>0, <1>1, <1>2, FlightStep

-----------------------------------------------------------------------------
(* Responses reach the goroutine that asked.                                *)

\* A message stays addressed: ids are never handed out twice.
LEMMA AddressedStays ==
    ASSUME IdInv, [Next]_vars, NEW s \in Servers, NEW m, m.id \in Nat, Addressed(m, s)
    PROVE  Addressed(m, s)'
  <1>0. /\ TypeInv /\ nextID \in [Servers -> Nat] /\ nextID' \in [Servers -> Nat]
        /\ go \in [Threads -> Goroutine]
    BY TypeInvStep DEF IdInv, TypeInv, TypeOK
  <1>1. CASE NoNewFlight /\ \A x \in Servers : nextID'[x] >= nextID[x]
    BY <1>0, <1>1 DEF NoNewFlight, Addressed
  <1>2. ASSUME NEW t \in Threads, Opens(t) PROVE Addressed(m, s)'
    <2> DEFINE x == go[t].server
    <2>1. /\ x \in Servers /\ Moves(t, go'[t])
          /\ go'[t].server = x /\ go'[t].id = nextID[x] /\ nextID'[x] = nextID[x] + 1
          /\ \A y \in Servers : y # x => nextID'[y] = nextID[y]
      BY <1>0, <1>2, OpensStep
    <2>2. ASSUME NEW u \in Threads, InFlight(u)', go'[u].server = s, go'[u].id = m.id
          PROVE  m.to = u
      <3>1. u # t
        <4> HIDE DEF x
        <4> QED BY <1>0, <2>1, <2>2 DEF Addressed
      <3> QED BY <2>1, <2>2, <3>1 DEF Moves, InFlight, Addressed
    <2> HIDE DEF x
    <2>3. m.id < nextID'[s]
      BY <1>0, <2>1 DEF Addressed
    <2> QED BY <2>2, <2>3 DEF Addressed
  <1> QED BY <1>0, <1>1, <1>2, FlightStep

\* Requests are addressed to the goroutine that wrote them, and reading them
\* changes nothing about them.
LEMMA RequestsStep ==
    ASSUME IdInv, AddressInv, [Next]_vars
    PROVE  RequestsAddressed'
  <1>0. /\ TypeOK /\ IdHandedOut /\ IdUnique /\ RequestsAddressed
        /\ stdin \in [Servers -> Seq(Request)] /\ asked \in [Servers -> SUBSET Request]
    BY DEF IdInv, TypeInv, TypeOK, AddressInv
  <1>1. ASSUME NEW s \in Servers, NEW m \in Unread(s) \cup asked[s]
        PROVE  m \in Request /\ m.id \in Nat /\ Addressed(m, s)'
    <2>1. m \in Request
      BY <1>0 DEF Unread
    <2>2. m.id \in Nat
      BY <2>1 DEF Request
    <2>3. Addressed(m, s)
      BY <1>0 DEF RequestsAddressed
    <2> QED BY <2>1, <2>2, <2>3, AddressedStays
  <1>2. ASSUME \A s \in Servers : (Unread(s) \cup asked[s])' \subseteq Unread(s) \cup asked[s]
        PROVE  RequestsAddressed'
    BY <1>1, <1>2 DEF RequestsAddressed
  <1>3. ASSUME UNCHANGED <<stdin, asked>> PROVE RequestsAddressed'
    BY <1>2, <1>3 DEF Unread
  <1>4. ASSUME NEW t \in Threads, Write(t), stdin' # stdin PROVE RequestsAddressed'
    <2>0. PICK s, m : s = go[t].server /\ m = [id |-> go[t].id, to |-> t]
      OBVIOUS
    <2>1. /\ stdin' = [stdin EXCEPT ![s] = Append(@, m)] /\ go' = [go EXCEPT ![t].pc = "wait"]
          /\ asked' = asked /\ nextID' = nextID /\ InFlight(t) /\ s \in Servers
      BY <1>0, <1>4, <2>0 DEF Write, InFlight, IdHandedOut
    <2>2. m.id = go[t].id /\ m.to = t
      BY <2>0
    <2>3. Addressed(m, s)'
      <3>1. /\ Moves(t, go'[t])
            /\ go'[t].pc = "wait" /\ go'[t].server = s /\ go'[t].id = go[t].id
        BY <1>0, <2>0, <2>1, WaitStep DEF TypeOK
      <3>2. m.id < nextID'[s]
        BY <1>0, <2>0, <2>1, <2>2 DEF IdHandedOut
      <3>3. ASSUME NEW u \in Threads, InFlight(u)', go'[u].server = s, go'[u].id = m.id
            PROVE  u = t
        BY <1>0, <2>0, <2>1, <2>2, <3>1, <3>3 DEF IdUnique, SameRequest, InFlight, Moves
      <3> QED BY <2>2, <3>2, <3>3 DEF Addressed
    <2>4. ASSUME NEW x \in Servers, NEW k \in (Unread(x) \cup asked[x])'
          PROVE  k \in Unread(x) \cup asked[x] \/ (x = s /\ k = m)
      <3>1. CASE k \in asked[x]
        BY <3>1
      <3>2. CASE k \in Unread(x)'
        <4>1. PICK i \in 1..Len(stdin'[x]) : k = stdin'[x][i]
          BY <3>2 DEF Unread
        <4>2. stdin[x] \in Seq(Request)
          BY <1>0
        <4>3. stdin'[x] = stdin[x] \/ (x = s /\ stdin'[x] = Append(stdin[x], m))
          BY <1>0, <2>1
        <4> QED BY <4>1, <4>2, <4>3 DEF Unread
      <3> QED BY <2>1, <2>4, <3>1, <3>2
    <2> QED BY <1>1, <2>3, <2>4 DEF RequestsAddressed
  <1>5. ASSUME NEW s \in Servers, ServerReads(s) PROVE RequestsAddressed'
    <2>1. /\ asked' = [asked EXCEPT ![s] = @ \cup {Head(stdin[s])}]
          /\ stdin' = [stdin EXCEPT ![s] = Tail(@)]
          /\ stdin[s] \in Seq(Request) /\ stdin[s] # <<>>
      BY <1>0, <1>5 DEF ServerReads
    <2>2. Head(stdin[s]) \in Unread(s)
      BY <2>1 DEF Unread
    <2>3. Unread(s)' \subseteq Unread(s)
      <3>1. stdin'[s] = Tail(stdin[s])
        BY <1>0, <2>1
      <3> QED BY <2>1, <3>1 DEF Unread
    <2>4. \A x \in Servers : x # s => Unread(x)' = Unread(x) /\ asked'[x] = asked[x]
      BY <1>0, <2>1 DEF Unread
    <2>5. asked'[s] = asked[s] \cup {Head(stdin[s])}
      BY <1>0, <2>1
    <2> QED BY <1>2, <2>2, <2>3, <2>4, <2>5
  <1>6. ASSUME NEW s \in Servers, ServerAnswers(s) PROVE RequestsAddressed'
    <2>1. stdin' = stdin /\ \A x \in Servers : asked'[x] \subseteq asked[x]
      BY <1>0, <1>6 DEF ServerAnswers
    <2> QED BY <1>2, <2>1 DEF Unread
  <1>7. CASE UNCHANGED vars \/ StartEnds \/ DispatchAll
    BY <1>3, <1>7 DEF vars, pipes, StartEnds, DispatchAll
  <1>8. CASE Quiet
    BY <1>3, <1>5, <1>6, <1>8 DEF pipes, Quiet, AllStarted, DispatchReturns, TurnsEnd, AllStopped,
         CannotStart, ContextEnds, ReadLoop, ReadLine, ReadEOF, Shutdown, CloseStdin, Reaped,
         Terminate, Kill, Outside, ServerExits
  <1>9. ASSUME NEW s \in Servers, StartServer(s) PROVE RequestsAddressed'
    BY <1>3, <1>9 DEF StartServer, pipes
  <1>10. ASSUME NEW t \in Threads, Send(t) PROVE RequestsAddressed'
    BY <1>3, <1>4, <1>10 DEF Send, InvalidName, Register, Write, Receive, StreamEnded, ContextDone, pipes
  <1> QED BY <1>7, <1>8, <1>9, <1>10, Steps

\* A response carries the id and the goroutine of the request it answers.
LEMMA ResponsesStep ==
    ASSUME IdInv, AddressInv, [Next]_vars
    PROVE  ResponsesAddressed'
  <1>0. /\ RequestsAddressed /\ ResponsesAddressed
        /\ asked \in [Servers -> SUBSET Request] /\ stdout \in [Servers -> SUBSET Response]
    BY DEF IdInv, TypeInv, TypeOK, AddressInv
  <1>1. ASSUME NEW s \in Servers, NEW m \in stdout[s] PROVE Addressed(m, s)'
    <2>1. m.id \in Nat
      BY <1>0 DEF Response
    <2> QED BY <1>0, <2>1, AddressedStays DEF ResponsesAddressed
  <1>2. ASSUME \A s \in Servers : stdout'[s] \subseteq stdout[s] PROVE ResponsesAddressed'
    BY <1>1, <1>2 DEF ResponsesAddressed
  <1>3. ASSUME stdout' = stdout PROVE ResponsesAddressed'
    BY <1>2, <1>3
  <1>4. ASSUME NEW s \in Servers, ServerAnswers(s) PROVE ResponsesAddressed'
    <2>1. PICK m \in asked[s], kind \in Answers :
              stdout' = [stdout EXCEPT ![s] = @ \cup {[id |-> m.id, to |-> m.to, kind |-> kind]}]
      BY <1>4 DEF ServerAnswers
    <2> DEFINE r == [id |-> m.id, to |-> m.to, kind |-> kind]
    <2>2. r.id = m.id /\ r.to = m.to /\ m.id \in Nat
      BY <1>0 DEF Request
    <2>3. Addressed(r, s)'
      <3>1. Addressed(m, s)
        BY <1>0 DEF RequestsAddressed
      <3> HIDE DEF r
      <3>2. Addressed(r, s)
        BY <2>2, <3>1 DEF Addressed
      <3> QED BY <2>2, <3>2, AddressedStays
    <2>4. \A x \in Servers : stdout'[x] \subseteq IF x = s THEN stdout[x] \cup {r} ELSE stdout[x]
      BY <1>0, <2>1
    <2> HIDE DEF r
    <2> QED BY <1>1, <2>3, <2>4 DEF ResponsesAddressed
  <1>5. ASSUME NEW s \in Servers, ReadLine(s) PROVE ResponsesAddressed'
    BY <1>0, <1>2, <1>5 DEF ReadLine
  <1>6. CASE UNCHANGED vars \/ StartEnds \/ DispatchAll
    BY <1>3, <1>6 DEF vars, pipes, StartEnds, DispatchAll
  <1>7. CASE Quiet
    BY <1>3, <1>4, <1>5, <1>7 DEF pipes, Quiet, AllStarted, DispatchReturns, TurnsEnd, AllStopped,
         CannotStart, ContextEnds, ReadLoop, ReadEOF, Shutdown, CloseStdin, Reaped,
         Terminate, Kill, Outside, ServerExits, ServerReads
  <1>8. ASSUME NEW s \in Servers, StartServer(s) PROVE ResponsesAddressed'
    BY <1>3, <1>8 DEF StartServer, pipes
  <1>9. ASSUME NEW t \in Threads, Send(t) PROVE ResponsesAddressed'
    BY <1>3, <1>9, SendStep DEF IdInv
  <1> QED BY <1>6, <1>7, <1>8, <1>9, Steps

\* What reaches a channel is the response to the request of its goroutine, and
\* a goroutine returns what its channel holds.
LEMMA ChannelsStep ==
    ASSUME IdInv, AddressInv, [Next]_vars
    PROVE  ChannelsAddressed' /\ Correlated'
  <1>0. /\ TypeInv /\ ResponsesAddressed /\ ChannelsAddressed /\ Correlated
        /\ go \in [Threads -> Goroutine] /\ nextID \in [Servers -> Nat]
        /\ fatal \in Kinds \cup {"none"}
        /\ chan \in [Threads -> [kind : Answers \cup {"none"}, to : Threads]]
        /\ Threads = Calls \cup {Boot} /\ Boot \notin Calls
    BY McpAssumption DEF IdInv, TypeInv, TypeOK, AddressInv, Threads
  <1>1. Empty.kind \notin Answers
    BY DEF Empty, Answers
  <1>2. ASSUME go' = go, chan' = chan PROVE ChannelsAddressed' /\ Correlated'
    BY <1>0, <1>2 DEF ChannelsAddressed, Correlated, InFlight
  <1>3. ASSUME NEW t \in Threads, Moves(t, go'[t]), ~(InFlight(t)'), chan' = chan
        PROVE  ChannelsAddressed'
    BY <1>0, <1>3 DEF ChannelsAddressed, InFlight, Moves
  <1>4. ASSUME NEW t \in Threads, Moves(t, go'[t]), chan' = [chan EXCEPT ![t] = Empty]
        PROVE  ChannelsAddressed'
    BY <1>0, <1>1, <1>4 DEF ChannelsAddressed, InFlight, Moves
  <1>5. ASSUME NEW t \in Threads, Moves(t, go'[t]),
               go'[t].pc = "done" => go'[t].result = "error" \/ go'[t].from = t
        PROVE  Correlated'
    BY <1>0, <1>5 DEF Correlated, Moves, Answers
  <1>6. CASE StartEnds
    <2>1. Moves(Boot, Ready) /\ Ready.pc = "idle" /\ chan' = chan
      BY <1>0, <1>6, StartEndsStep DEF StartEnds
    <2>2. Moves(Boot, go'[Boot]) /\ go'[Boot].pc = "idle"
      BY <2>1 DEF Moves
    <2> QED BY <1>0, <1>3, <1>5, <2>1, <2>2 DEF InFlight
  <1>7. CASE DispatchAll
    <2>1. /\ go'[Boot] = go[Boot] /\ \A t \in Calls : go'[t].pc = "send"
          /\ chan' = chan
      BY <1>0, <1>7, DispatchStep DEF DispatchAll
    <2> QED BY <1>0, <2>1 DEF ChannelsAddressed, Correlated, InFlight
  <1>8. ASSUME NEW s \in Servers, StartServer(s) PROVE ChannelsAddressed' /\ Correlated'
    <2>1. Moves(Boot, go'[Boot]) /\ go'[Boot].pc = "send" /\ chan' = chan
      BY <1>0, <1>8, StartServerStep DEF StartServer
    <2> QED BY <1>0, <1>3, <1>5, <2>1 DEF InFlight
  <1>9. ASSUME NEW t \in Threads, Send(t) PROVE ChannelsAddressed' /\ Correlated'
    <2>1. CASE InvalidName(t)
      BY <1>0, <1>3, <1>5, <2>1, InvalidNameStep DEF InvalidName, InFlight
    <2>2. CASE Register(t)
      <3>1. CASE closed[go[t].server]
        BY <1>0, <1>3, <1>5, <2>2, <3>1, SendFailsStep DEF Register, InFlight
      <3>2. CASE ~closed[go[t].server]
        <4>1. Moves(t, go'[t]) /\ go'[t].pc = "write"
          BY <1>0, <2>2, <3>2, RegisterStep
        <4>2. chan' = [chan EXCEPT ![t] = Empty]
          BY <2>2, <3>2 DEF Register
        <4> QED BY <1>4, <1>5, <4>1, <4>2
      <3> QED BY <3>1, <3>2
    <2>3. CASE Write(t)
      <3>1. chan' = chan /\ InFlight(t)
        BY <2>3 DEF Write, InFlight
      <3>2. CASE go' = [go EXCEPT ![t].pc = "wait"]
        <4>1. Moves(t, go'[t]) /\ go'[t].pc = "wait"
          BY <1>0, <3>2, WaitStep
        <4>2. ChannelsAddressed'
          BY <1>0, <3>1, <4>1 DEF ChannelsAddressed, InFlight, Moves
        <4> QED BY <1>5, <4>1, <4>2
      <3>3. CASE SendFails(t, "write")
        BY <1>0, <1>3, <1>5, <3>1, <3>3, SendFailsStep DEF InFlight
      <3> QED BY <2>3, <3>2, <3>3 DEF Write
    <2>4. CASE Receive(t)
      <3>1. chan[t].to = t
        BY <1>0, <2>4 DEF Receive, InFlight, ChannelsAddressed
      <3>2. Moves(t, go'[t]) /\ (go'[t].pc = "done" => go'[t].from = chan[t].to)
        BY <1>0, <2>4, ReceiveStep
      <3>3. chan' = [chan EXCEPT ![t] = Empty]
        BY <2>4 DEF Receive
      <3> QED BY <1>4, <1>5, <3>1, <3>2, <3>3
    <2>5. ASSUME NEW err, ContextDone(t, err) PROVE ChannelsAddressed' /\ Correlated'
      BY <1>0, <1>4, <1>5, <2>5, SendFailsStep DEF ContextDone
    <2>6. CASE StreamEnded(t)
      BY <1>0, <1>4, <1>5, <2>6, SendFailsStep DEF StreamEnded
    <2> QED BY <1>9, <2>1, <2>2, <2>3, <2>4, <2>5, <2>6 DEF Send
  <1>10. ASSUME NEW s \in Servers, ReadLine(s) PROVE ChannelsAddressed' /\ Correlated'
    <2>1. PICK m \in stdout[s] :
              chan' = [t \in Threads |->
                     IF /\ m.id \in pending[s] /\ go[t].server = s /\ go[t].id = m.id
                        /\ go[t].pc \in {"write", "wait"}
                     THEN [kind |-> m.kind, to |-> m.to] ELSE chan[t]]
      BY <1>10 DEF ReadLine
    <2>2. go' = go /\ Addressed(m, s)
      BY <1>0, <1>10 DEF ReadLine, ResponsesAddressed
    <2>3. ASSUME NEW t \in Threads, InFlight(t), chan'[t].kind \in Answers PROVE chan'[t].to = t
      <3>1. CASE go[t].server = s /\ go[t].id = m.id
        BY <1>0, <2>1, <2>2, <2>3, <3>1 DEF Addressed, ChannelsAddressed
      <3>2. CASE ~(go[t].server = s /\ go[t].id = m.id)
        BY <1>0, <2>1, <2>3, <3>2 DEF ChannelsAddressed
      <3> QED BY <3>1, <3>2
    <2> QED BY <1>0, <2>2, <2>3 DEF ChannelsAddressed, Correlated, InFlight
  <1>11. CASE UNCHANGED vars
    BY <1>2, <1>11 DEF vars
  <1>12. CASE Quiet
    BY <1>2, <1>10, <1>12 DEF Quiet, AllStarted, DispatchReturns, TurnsEnd, AllStopped,
         CannotStart, ContextEnds, ReadLoop, ReadEOF, Shutdown, CloseStdin, Reaped,
         Terminate, Kill, Outside, ServerExits, ServerReads, ServerAnswers
  <1> QED BY <1>6, <1>7, <1>8, <1>9, <1>11, <1>12, Steps

\* Before the first server is started nothing is in flight.
LEMMA InitIdInv == Init => IdInv /\ AddressInv
  <1> SUFFICES ASSUME Init PROVE IdInv /\ AddressInv
    OBVIOUS
  <1>1. TypeInv
    BY InitTypeInv
  <1>2. \A t \in Threads : go[t].pc = "idle"
    BY ReadyStep DEF Init
  <1>3. \A s \in Servers : Unread(s) \cup asked[s] = {} /\ stdout[s] = {}
    BY DEF Init, Unread
  <1> QED BY <1>1, <1>2, <1>3
        DEF IdInv, IdHandedOut, IdUnique, SameRequest, InFlight, AddressInv, RequestsAddressed,
            ResponsesAddressed, ChannelsAddressed, Correlated

\* A goroutine that returns a response returns the one to its own request, in
\* whatever order the servers answer, for any number of calls on a connection.
THEOREM ResponsesReachTheirCalls == Spec => []Correlated
  <1>1. IdInv /\ AddressInv /\ [Next]_vars => (IdInv /\ AddressInv)'
    BY IdStep, RequestsStep, ResponsesStep, ChannelsStep DEF AddressInv
  <1>2. AddressInv => Correlated
    BY DEF AddressInv
  <1> QED BY <1>1, <1>2, InitIdInv, PTL DEF Spec

-----------------------------------------------------------------------------
(* No registration outlives its send.                                       *)

\* Calls are in flight only during a round: DispatchAll waits for all of them.
LEMMA RoundsStep ==
    ASSUME TypeInv, RoundsAreApart, [Next]_vars
    PROVE  RoundsAreApart'
  <1>0. /\ go \in [Threads -> Goroutine] /\ Threads = Calls \cup {Boot} /\ Boot \notin Calls
    BY McpAssumption DEF TypeInv, TypeOK, Threads
  <1>1. CASE UNCHANGED vars
    BY <1>1 DEF RoundsAreApart, vars, control
  <1>2. CASE Quiet
    BY <1>2 DEF RoundsAreApart, Quiet, AllStarted, DispatchReturns, TurnsEnd, AllStopped,
         CannotStart, ContextEnds, ReadLoop, ReadLine, ReadEOF, Shutdown, CloseStdin, Reaped,
         Terminate, Kill, Outside, ServerExits, ServerReads, ServerAnswers, control
  <1>3. CASE StartEnds
    <2>1. \A t \in Calls : go'[t] = go[t]
      BY <1>0, <1>3, StartEndsStep DEF Moves
    <2> QED BY <1>3, <2>1 DEF RoundsAreApart, StartEnds
  <1>4. CASE DispatchAll
    BY <1>4 DEF RoundsAreApart, DispatchAll
  <1>5. ASSUME NEW s \in Servers, StartServer(s) PROVE RoundsAreApart'
    <2>1. \A t \in Calls : go'[t] = go[t]
      BY <1>0, <1>5, StartServerStep DEF Moves
    <2> QED BY <1>5, <2>1 DEF RoundsAreApart, StartServer, control
  <1>6. ASSUME NEW t \in Threads, Send(t) PROVE RoundsAreApart'
    <2>1. Moves(t, go'[t]) /\ go[t].pc \in {"send", "write", "wait"} /\ phase' = phase
      BY <1>6, SendStep
    <2> QED BY <1>0, <2>1 DEF RoundsAreApart, Moves
  <1> QED BY <1>1, <1>2, <1>3, <1>4, <1>5, <1>6, Steps

\* Every step keeps the table of pending requests clean: whoever is answered has
\* been taken out of it, and a closed client has none.
LEMMA PendingStep ==
    ASSUME IdInv, PendingInv, [Next]_vars
    PROVE  ClosedIsEmpty' /\ AnsweredIsRemoved' /\ NothingPending'
  <1> DEFINE Goal == ClosedIsEmpty' /\ AnsweredIsRemoved' /\ NothingPending'
  <1>0. /\ TypeInv /\ IdHandedOut /\ IdUnique
        /\ ClosedIsEmpty /\ AnsweredIsRemoved /\ RoundsAreApart /\ NothingPending
        /\ go \in [Threads -> Goroutine] /\ fatal \in Kinds \cup {"none"}
        /\ nextID \in [Servers -> Nat]
        /\ pending \in [Servers -> SUBSET Nat] /\ closed \in [Servers -> BOOLEAN]
        /\ chan \in [Threads -> [kind : Answers \cup {"none"}, to : Threads]]
        /\ Threads = Calls \cup {Boot} /\ Boot \notin Calls
    BY McpAssumption DEF IdInv, PendingInv, TypeInv, TypeOK, Threads
  <1>1. Empty.kind \notin Answers
    BY DEF Empty, Answers
  <1>2. ASSUME UNCHANGED <<pending, closed, chan>>,
               \A t \in Threads : InFlight(t) \/ InFlight(t)' => go'[t] = go[t]
        PROVE  Goal
    <2>1. ClosedIsEmpty'
      BY <1>0, <1>2 DEF ClosedIsEmpty
    <2>2. AnsweredIsRemoved'
      BY <1>0, <1>2 DEF AnsweredIsRemoved, InFlight
    <2>3. NothingPending'
      BY <1>0, <1>2 DEF NothingPending, InFlight
    <2> QED BY <2>1, <2>2, <2>3
  <1>3. ASSUME NEW t \in Threads, Moves(t, go'[t]), InFlight(t), ~(InFlight(t)'),
               closed' = closed, chan' = chan \/ chan' = [chan EXCEPT ![t] = Empty],
               pending' \in [Servers -> SUBSET Nat],
               pending' = [pending EXCEPT ![go[t].server] = @ \ {go[t].id}]
        PROVE  Goal
    <2>0. /\ go[t].server \in Servers
          /\ pending'[go[t].server] = pending[go[t].server] \ {go[t].id}
          /\ \A s \in Servers : s # go[t].server => pending'[s] = pending[s]
      BY <1>0, <1>3 DEF IdHandedOut
    <2>1. ClosedIsEmpty'
      BY <1>0, <1>3, <2>0 DEF ClosedIsEmpty
    <2>2. AnsweredIsRemoved'
      <3> SUFFICES ASSUME NEW u \in Threads, InFlight(u)', chan'[u].kind \in Answers
                   PROVE  go'[u].id \notin pending'[go'[u].server]
        BY DEF AnsweredIsRemoved
      <3>1. u # t /\ go'[u] = go[u] /\ InFlight(u) /\ chan'[u] = chan[u]
        BY <1>0, <1>3 DEF Moves, InFlight
      <3>2. go[u].id \notin pending[go[u].server] /\ go[u].server \in Servers
        BY <1>0, <3>1 DEF AnsweredIsRemoved, IdHandedOut
      <3> QED BY <2>0, <3>1, <3>2
    <2>3. NothingPending'
      <3> SUFFICES ASSUME NEW s \in Servers, NEW id \in pending'[s]
                   PROVE  \E u \in Threads : go'[u].server = s /\ go'[u].id = id
                                             /\ go'[u].pc \in {"write", "wait"}
        BY DEF NothingPending
      <3>1. id \in pending[s] /\ ~(s = go[t].server /\ id = go[t].id)
        BY <2>0
      <3>2. PICK u \in Threads : go[u].server = s /\ go[u].id = id /\ go[u].pc \in {"write", "wait"}
        BY <1>0, <3>1 DEF NothingPending
      <3>3. u # t /\ go'[u] = go[u]
        BY <1>3, <3>1, <3>2 DEF Moves
      <3> QED BY <3>2, <3>3
    <2> QED BY <2>1, <2>2, <2>3
  <1>4. CASE UNCHANGED vars
    BY <1>2, <1>4 DEF vars, clients
  <1>5. CASE StartEnds
    <2>1. Moves(Boot, Ready) /\ Ready.pc = "idle" /\ go[Boot].pc = "done"
          /\ UNCHANGED <<pending, closed, chan>>
      BY <1>0, <1>5, StartEndsStep DEF StartEnds, clients
    <2> QED BY <1>0, <1>2, <2>1 DEF Moves, InFlight
  <1>6. CASE DispatchAll
    <2>1. /\ go'[Boot] = go[Boot] /\ \A t \in Calls : go'[t].pc = "send"
          /\ UNCHANGED <<pending, closed, chan>>
      BY <1>0, <1>6, DispatchStep DEF DispatchAll, clients
    <2>2. \A t \in Calls : go[t].pc \in {"idle", "done"}
      BY <1>0, <1>6 DEF DispatchAll, RoundsAreApart
    <2> QED BY <1>0, <1>2, <2>1, <2>2 DEF InFlight
  <1>7. ASSUME NEW s \in Servers, StartServer(s) PROVE Goal
    <2>1. Moves(Boot, go'[Boot]) /\ go'[Boot].pc = "send" /\ go[Boot].pc = "idle"
          /\ UNCHANGED <<pending, closed, chan>>
      BY <1>0, <1>7, StartServerStep DEF StartServer, clients
    <2> QED BY <1>0, <1>2, <2>1 DEF Moves, InFlight
  <1>8. ASSUME NEW s \in Servers, ReadLine(s) PROVE Goal
    <2>1. PICK m \in stdout[s] :
              /\ pending' = [pending EXCEPT ![s] = @ \ {m.id}]
              /\ chan' = [t \in Threads |->
                     IF /\ m.id \in pending[s] /\ go[t].server = s /\ go[t].id = m.id
                        /\ go[t].pc \in {"write", "wait"}
                     THEN [kind |-> m.kind, to |-> m.to] ELSE chan[t]]
      BY <1>8 DEF ReadLine
    <2>2. go' = go /\ closed' = closed
      BY <1>8 DEF ReadLine
    <2>3. /\ pending'[s] = pending[s] \ {m.id}
          /\ \A x \in Servers : x # s => pending'[x] = pending[x]
      BY <1>0, <2>1
    <2>4. ClosedIsEmpty'
      BY <1>0, <2>2, <2>3 DEF ClosedIsEmpty
    <2>5. AnsweredIsRemoved'
      <3> SUFFICES ASSUME NEW u \in Threads, InFlight(u), chan'[u].kind \in Answers
                   PROVE  go[u].id \notin pending'[go[u].server]
        BY <2>2 DEF AnsweredIsRemoved, InFlight
      <3>1. go[u].server \in Servers
        BY <1>0 DEF IdHandedOut
      <3>2. CASE go[u].server = s /\ go[u].id = m.id
        BY <2>3, <3>2
      <3>3. CASE ~(go[u].server = s /\ go[u].id = m.id)
        <4>1. chan'[u] = chan[u]
          BY <2>1, <3>3
        <4> QED BY <1>0, <2>3, <3>1, <4>1 DEF AnsweredIsRemoved
      <3> QED BY <3>2, <3>3
    <2>6. NothingPending'
      BY <1>0, <2>2, <2>3 DEF NothingPending
    <2> QED BY <2>4, <2>5, <2>6
  <1>9. ASSUME NEW s \in Servers, ReadEOF(s) PROVE Goal
    <2>1. /\ closed' = [closed EXCEPT ![s] = TRUE] /\ pending' = [pending EXCEPT ![s] = {}]
          /\ go' = go /\ chan' = chan
      BY <1>9 DEF ReadEOF
    <2>2. \A x \in Servers : pending'[x] = IF x = s THEN {} ELSE pending[x]
      BY <1>0, <2>1
    <2>3. \A x \in Servers : x # s => closed'[x] = closed[x]
      BY <1>0, <2>1
    <2>4. ClosedIsEmpty'
      BY <1>0, <2>2, <2>3 DEF ClosedIsEmpty
    <2>5. AnsweredIsRemoved'
      BY <1>0, <2>1, <2>2 DEF AnsweredIsRemoved, InFlight, IdHandedOut
    <2>6. NothingPending'
      BY <1>0, <2>1, <2>2 DEF NothingPending
    <2> QED BY <2>4, <2>5, <2>6
  <1>10. CASE Quiet
    <2>1. go' = go
      BY <1>10, QuietStep
    <2> QED BY <1>2, <1>8, <1>9, <1>10, <2>1 DEF Quiet, AllStarted, DispatchReturns, TurnsEnd,
         AllStopped, CannotStart, ContextEnds, ReadLoop, Shutdown, CloseStdin, Reaped,
         Terminate, Kill, Outside, ServerExits, ServerReads, ServerAnswers, clients
  <1>11. ASSUME NEW t \in Threads, Send(t) PROVE Goal
    <2>0. ASSUME InFlight(t), go[t].id \notin pending[go[t].server]
          PROVE  pending = [pending EXCEPT ![go[t].server] = @ \ {go[t].id}]
      BY <1>0, <2>0
    <2>1. CASE InvalidName(t)
      <3>1. /\ Moves(t, go'[t]) /\ go'[t].pc = "done" /\ go[t].pc = "send"
            /\ UNCHANGED <<pending, closed, chan>>
        BY <1>0, <2>1, InvalidNameStep DEF InvalidName, clients
      <3> QED BY <1>0, <1>2, <3>1 DEF Moves, InFlight
    <2>2. CASE Register(t) /\ closed[go[t].server]
      <3>1. /\ Moves(t, go'[t]) /\ go'[t].pc = "done" /\ go[t].pc = "send"
            /\ UNCHANGED <<pending, closed, chan>>
        BY <1>0, <2>2, SendFailsStep DEF Register
      <3> QED BY <1>0, <1>2, <3>1 DEF Moves, InFlight
    <2>3. CASE Opens(t)
      <3>1. PICK s \in Servers : s = go[t].server
        BY <1>0, <2>3, OpensStep
      <3>2. /\ ~InFlight(t) /\ Moves(t, go'[t])
            /\ go'[t].pc = "write" /\ go'[t].server = s /\ go'[t].id = nextID[s]
        BY <1>0, <2>3, <3>1, OpensStep
      <3>3. /\ pending' = [pending EXCEPT ![s] = @ \cup {nextID[s]}]
            /\ chan' = [chan EXCEPT ![t] = Empty] /\ closed' = closed /\ ~closed[s]
        BY <2>3, <3>1 DEF Opens, Register
      <3>4. \A x \in Servers : pending'[x] = IF x = s THEN pending[x] \cup {nextID[s]} ELSE pending[x]
        BY <1>0, <3>3
      <3>5. ClosedIsEmpty'
        BY <1>0, <3>3, <3>4 DEF ClosedIsEmpty
      <3>6. AnsweredIsRemoved'
        <4> SUFFICES ASSUME NEW u \in Threads, InFlight(u)', chan'[u].kind \in Answers
                     PROVE  go'[u].id \notin pending'[go'[u].server]
          BY DEF AnsweredIsRemoved
        <4>1. u # t
          BY <1>0, <1>1, <3>3
        <4>2. go'[u] = go[u] /\ InFlight(u) /\ chan'[u] = chan[u]
          BY <1>0, <3>2, <3>3, <4>1 DEF Moves, InFlight
        <4>3. go[u].server \in Servers /\ go[u].id < nextID[go[u].server] /\ go[u].id \in Nat
          BY <1>0, <4>2 DEF IdHandedOut, Goroutine
        <4>4. go[u].id \notin pending[go[u].server]
          BY <1>0, <4>2 DEF AnsweredIsRemoved
        <4>5. go[u].server = s => go[u].id # nextID[s]
          BY <1>0, <4>3
        <4> QED BY <3>4, <4>2, <4>3, <4>4, <4>5
      <3>7. NothingPending'
        <4> SUFFICES ASSUME NEW x \in Servers, NEW id \in pending'[x]
                     PROVE  \E u \in Threads : go'[u].server = x /\ go'[u].id = id
                                               /\ go'[u].pc \in {"write", "wait"}
          BY DEF NothingPending
        <4>1. CASE x = s /\ id = nextID[s]
          BY <3>2, <4>1
        <4>2. CASE id \in pending[x]
          <5>1. PICK u \in Threads : go[u].server = x /\ go[u].id = id /\ go[u].pc \in {"write", "wait"}
            BY <1>0, <4>2 DEF NothingPending
          <5>2. go'[u] = go[u]
            BY <3>2, <5>1 DEF Moves, InFlight
          <5> QED BY <5>1, <5>2
        <4> QED BY <3>4, <4>1, <4>2
      <3> QED BY <3>5, <3>6, <3>7
    <2>4. CASE Write(t)
      <3>0. InFlight(t) /\ closed' = closed /\ chan' = chan
        BY <2>4 DEF Write, InFlight
      <3>1. CASE go' = [go EXCEPT ![t].pc = "wait"] /\ pending' = pending
        <4>1. /\ Moves(t, go'[t])
              /\ go'[t].pc = "wait" /\ go'[t].server = go[t].server /\ go'[t].id = go[t].id
          BY <1>0, <3>1, WaitStep
        <4>2. ClosedIsEmpty'
          BY <1>0, <3>0, <3>1 DEF ClosedIsEmpty
        <4>3. AnsweredIsRemoved'
          BY <1>0, <3>0, <3>1, <4>1 DEF AnsweredIsRemoved, InFlight, Moves
        <4>4. \A u \in Threads : go'[u].server = go[u].server /\ go'[u].id = go[u].id
                                 /\ (InFlight(u) => InFlight(u)')
          BY <4>1 DEF Moves, InFlight
        <4>5. NothingPending'
          BY <1>0, <3>1, <4>4 DEF NothingPending, InFlight
        <4> QED BY <4>2, <4>3, <4>5
      <3>2. CASE SendFails(t, "write") /\ pending' = [pending EXCEPT ![go[t].server] = @ \ {go[t].id}]
        <4>1. Moves(t, go'[t]) /\ go'[t].pc = "done"
          BY <1>0, <3>2, SendFailsStep
        <4>2. pending' \in [Servers -> SUBSET Nat]
          BY <1>0, <3>2
        <4> QED BY <1>3, <3>0, <3>2, <4>1, <4>2 DEF InFlight
      <3> QED BY <2>4, <3>1, <3>2 DEF Write
    <2>5. CASE Receive(t)
      <3>1. /\ Moves(t, go'[t]) /\ go'[t].pc \in {"send", "done"}
            /\ InFlight(t) /\ UNCHANGED <<pending, closed>> /\ chan' = [chan EXCEPT ![t] = Empty]
        BY <1>0, <2>5, ReceiveStep DEF Receive, InFlight, clients
      <3>2. go[t].id \notin pending[go[t].server]
        BY <1>0, <2>5, <3>1 DEF Receive, AnsweredIsRemoved
      <3> QED BY <1>0, <1>3, <2>0, <3>1, <3>2 DEF InFlight
    <2>6. ASSUME NEW err, ContextDone(t, err) PROVE Goal
      <3>1. /\ Moves(t, go'[t]) /\ go'[t].pc = "done" /\ InFlight(t)
            /\ closed' = closed /\ chan' = [chan EXCEPT ![t] = Empty]
            /\ pending' = [pending EXCEPT ![go[t].server] = @ \ {go[t].id}]
        BY <1>0, <2>6, SendFailsStep DEF ContextDone, InFlight
      <3>2. pending' \in [Servers -> SUBSET Nat]
        BY <1>0, <3>1
      <3> QED BY <1>3, <3>1, <3>2 DEF InFlight
    <2>7. CASE StreamEnded(t)
      <3>1. /\ Moves(t, go'[t]) /\ go'[t].pc = "done" /\ InFlight(t)
            /\ UNCHANGED <<pending, closed>> /\ chan' = [chan EXCEPT ![t] = Empty]
        BY <1>0, <2>7, SendFailsStep DEF StreamEnded, InFlight, clients
      <3>2. go[t].id \notin pending[go[t].server]
        BY <1>0, <2>7, <3>1 DEF StreamEnded, ClosedIsEmpty, IdHandedOut
      <3> QED BY <1>0, <1>3, <2>0, <3>1, <3>2 DEF InFlight
    <2> QED BY <1>11, <2>1, <2>2, <2>3, <2>4, <2>5, <2>6, <2>7 DEF Send, Opens
  <1> QED BY <1>4, <1>5, <1>6, <1>7, <1>10, <1>11, Steps

\* No channel outlives its send: whatever is registered belongs to a goroutine
\* that is still writing or waiting, so an answered, cancelled or failed call
\* leaves nothing behind in the client.
THEOREM NothingStaysPending == Spec => []NothingPending
  <1>1. Init => PendingInv
    <2> SUFFICES ASSUME Init PROVE PendingInv
      OBVIOUS
    <2>1. \A t \in Threads : go[t].pc = "idle"
      BY ReadyStep DEF Init
    <2>2. \A s \in Servers : pending[s] = {}
      BY DEF Init
    <2> QED BY <2>1, <2>2 DEF PendingInv, ClosedIsEmpty, AnsweredIsRemoved, RoundsAreApart,
                              NothingPending, InFlight, Threads
  <1>2. IdInv /\ PendingInv /\ [Next]_vars => (IdInv /\ PendingInv)'
    BY IdStep, PendingStep, RoundsStep DEF PendingInv, IdInv
  <1>3. PendingInv => NothingPending
    BY DEF PendingInv
  <1>4. Init => IdInv
    BY InitIdInv
  <1> QED BY <1>1, <1>2, <1>3, <1>4, PTL DEF Spec
=============================================================================
