---------------------------- MODULE Credentials ----------------------------
(***************************************************************************)
(* The short-lived credentials of a run and of the chat: the Copilot IDE   *)
(* token, minted from a stored OAuth token and cached as two secrets       *)
(* (internal/webapi/copilot_token.go); the device flow that obtains the    *)
(* OAuth token, from the dashboard (copilot_connect.go) and from           *)
(* `cronfoundry admin connect-copilot`; and the cache of GitHub App        *)
(* installation tokens (internal/github/installation.go).                  *)
(*                                                                         *)
(* A token GitHub issues is represented by the time it really expires, so  *)
(* that what the code believes of it can be compared with the truth.       *)
(***************************************************************************)
EXTENDS Integers, FiniteSets

CONSTANTS
    Slots,        \* requests that may be in flight at the same time
    Codes,        \* device codes
    Life,         \* lifetime of an IDE token
    Margin,       \* the sixty seconds of readCachedIDEToken
    FlowLife,     \* expires_in of a device code
    TokenTTL,     \* InstallationCacheConfig.TokenTTL
    InstallLives, \* lifetimes GitHub may give an installation token
    MaxClock,     \* bound: the clock
    MaxRequests,  \* bound: requests, device flows and operator's writes
    MaxFailures     \* bound: failed calls, restarts and revocations

ASSUME TimesAssumption ==
    /\ Life \in Nat /\ Margin \in Nat /\ FlowLife \in Nat /\ TokenTTL \in Nat
    /\ InstallLives \subseteq Nat /\ MaxClock \in Nat /\ MaxRequests \in Nat /\ MaxFailures \in Nat

VARIABLES
    now,       \* the clock
    secret,    \* table secret: access-token, ide-token, ide-expiry
    entry,     \* InstallationCache.entries for one installation
    req,       \* requests in flight
    flows,     \* copilotConnectHandler.flows: the expiry of each known code
    timers,    \* armed time.AfterFunc calls
    code,      \* GitHub's view of each device code
    cli,       \* the connect-copilot command
    revoked,   \* GitHub no longer accepts the OAuth token
    requests, failures,
    (* History variables: *)
    served,     \* the credential handed out from a cache at this time, if any
    overlapped, \* two requests for the IDE token have been in flight at once
    connected,  \* the page or the command reported success
    deleted,    \* the operator deleted the OAuth token
    odd         \* GitHub answered a poll with neither a token nor an error

history == <<served, overlapped, connected, deleted, odd>>
flowVars == <<flows, timers, code, cli>>
credentialVars == <<now, secret, entry, req, flowVars, revoked, requests, failures, history>>

\* Values of a secret: no row, the empty string, the OAuth token, or a time.
None == -1
Empty == -2
OAuth == -3

Off == [pc |-> "off", tok |-> None, exp |-> None, code |-> "none"]
NoEntry == [tok |-> None, exp |-> 0]
CliOff == [pc |-> "off", attempt |-> 0, code |-> "none", deadline |-> 0]

CredentialInit ==
    /\ now = 0 /\ revoked = FALSE /\ requests = 0 /\ failures = 0
    /\ \E v \in {None, OAuth} : secret =
         [n \in {"access-token", "ide-token", "ide-expiry"} |-> IF n = "access-token" THEN v ELSE None]
    /\ entry = NoEntry /\ req = [q \in Slots |-> Off]
    /\ flows = [d \in Codes |-> None] /\ timers = {} /\ cli = CliOff
    /\ code = [d \in Codes |-> "unused"]
    /\ served = [kind |-> "none", tok |-> None, exp |-> None]
    /\ overlapped = FALSE /\ connected = FALSE /\ deleted = FALSE /\ odd = FALSE

Failure == failures < MaxFailures /\ failures' = failures + 1
Spend == requests < MaxRequests /\ requests' = requests + 1
NotServed == [kind |-> "none", tok |-> None, exp |-> None]

Tick ==
    /\ now < MaxClock /\ now' = now + 1
    /\ served' = NotServed
    /\ UNCHANGED <<secret, entry, req, flowVars, revoked, requests, failures,
                   overlapped, connected, deleted, odd>>

Accept(q, pc, d) ==
    /\ req[q].pc = "off" /\ Spend
    /\ req' = [req EXCEPT ![q] = [pc |-> pc, tok |-> None, exp |-> None, code |-> d]]
Goto(q, pc) == req' = [req EXCEPT ![q].pc = pc]
Obtain(q, pc, tok) == req' = [req EXCEPT ![q].pc = pc, ![q].tok = tok]
Await(q, pc, exp) == req' = [req EXCEPT ![q].pc = pc, ![q].exp = exp]
Respond(q) == req' = [req EXCEPT ![q] = Off]

Get(name) == secret[name]
UpsertSecret(name, v) == [secret EXCEPT ![name] = v]
Put(name, v) == secret' = UpsertSecret(name, v)
DeleteSecret(name) == Get(name) # None /\ secret' = [secret EXCEPT ![name] = None]

-----------------------------------------------------------------------------
(* GET /internal/runs/{id}/copilot-token, and the chat's credentials.      *)
IdeSteps == {"token", "expiry", "oauth", "mint", "putToken", "putExpiry"}
elsewhere == <<now, entry, flowVars, revoked>>

AskIDEToken(q) ==
    /\ Accept(q, "token", "none")
    /\ overlapped' = (overlapped \/ \E p \in Slots \ {q} : req[p].pc \in IdeSteps)
    /\ UNCHANGED <<elsewhere, secret, failures, served, connected, deleted, odd>>

ReadToken(q) ==
    /\ req[q].pc = "token"
    /\ req' = [req EXCEPT ![q].tok = Get("ide-token"),
                          ![q].pc = IF Get("ide-token") = None THEN "oauth" ELSE "expiry"]
    /\ UNCHANGED <<elsewhere, secret, requests, failures, history>>

Stale(exp) == exp = None \/ exp - now <= Margin

ReadExpiry(q) ==
    /\ req[q].pc = "expiry"
    /\ LET exp == Get("ide-expiry") IN
       \/ Stale(exp) /\ Goto(q, "oauth") /\ UNCHANGED served
       \/ /\ ~Stale(exp) /\ Respond(q)
          /\ served' = [kind |-> "ide", tok |-> req[q].tok, exp |-> exp]
    /\ UNCHANGED <<elsewhere, secret, requests, failures, overlapped, connected, deleted, odd>>

\* An empty OAuth token is answered 401, a missing row 503.
ReadOAuthToken(q) ==
    /\ req[q].pc = "oauth"
    /\ IF Get("access-token") \in {None, Empty} THEN Respond(q) ELSE Goto(q, "mint")
    /\ UNCHANGED <<elsewhere, secret, requests, failures, history>>

MintIDEToken(q) ==
    /\ req[q].pc = "mint"
    /\ \/ revoked /\ Respond(q) /\ UNCHANGED failures
       \/ Failure /\ Respond(q)
       \/ /\ ~revoked /\ UNCHANGED failures
          /\ Obtain(q, "putToken", now + Life)
    /\ UNCHANGED <<elsewhere, secret, requests, history>>

\* Mutant of WriteCachedIDEToken: the expiry is written first.
WriteExpiryFirst(q) ==
    \/ req[q].pc = "putToken" /\ Put("ide-expiry", req[q].tok) /\ Goto(q, "putExpiry")
    \/ req[q].pc = "putExpiry" /\ Put("ide-token", req[q].tok) /\ Respond(q)

WriteCachedIDEToken(q) ==
    \/ req[q].pc = "putToken" /\ Put("ide-token", req[q].tok) /\ Goto(q, "putExpiry")
    \/ req[q].pc = "putExpiry" /\ Put("ide-expiry", req[q].tok) /\ Respond(q)

\* A failed write is logged: the caller gets the token that was minted.
CacheToken(q) ==
    /\ \/ WriteCachedIDEToken(q) /\ UNCHANGED failures
       \/ req[q].pc \in {"putToken", "putExpiry"} /\ Failure /\ Respond(q) /\ UNCHANGED secret
    /\ UNCHANGED <<elsewhere, requests, history>>

-----------------------------------------------------------------------------
(* InstallationCache.Token: clone URLs, syncs, proposals.                  *)
Minimum(a, b) == IF a < b THEN a ELSE b

AskInstallationToken(q) ==
    /\ Accept(q, "cache", "none")
    /\ UNCHANGED <<elsewhere, secret, failures, history>>

\* The entry and the clock are read under the lock.
ReadCache(q) ==
    /\ req[q].pc = "cache"
    /\ \/ /\ now < entry.exp /\ Respond(q)
          /\ served' = [kind |-> "installation", tok |-> entry.tok, exp |-> entry.exp]
       \/ /\ now >= entry.exp
          /\ Await(q, "fetch", now + TokenTTL)
          /\ UNCHANGED served
    /\ UNCHANGED <<elsewhere, secret, requests, failures, overlapped, connected, deleted, odd>>

Fetch(q) ==
    /\ req[q].pc = "fetch"
    /\ \/ \E life \in InstallLives :
            Obtain(q, "store", now + life) /\ UNCHANGED failures
       \/ Failure /\ Respond(q)
    /\ UNCHANGED <<elsewhere, secret, requests, history>>

\* Mutant of EntryFor: the server's expires_at is not looked at.
EntryTTLOnly(tok, ttlExpiry) == [tok |-> tok, exp |-> ttlExpiry]
EntryFor(tok, ttlExpiry) == [tok |-> tok, exp |-> Minimum(tok, ttlExpiry)]

StoreEntry(q) ==
    /\ req[q].pc = "store"
    /\ entry' = EntryFor(req[q].tok, req[q].exp)
    /\ Respond(q)
    /\ UNCHANGED <<now, secret, flowVars, revoked, requests, failures, history>>

-----------------------------------------------------------------------------
(* The device flow of the dashboard.                                       *)
notFlows == <<now, entry, revoked>>
Forget(d) == flows' = [flows EXCEPT ![d] = None]

\* Mutant of Arm: no eviction is scheduled.
ArmNothing(d) == UNCHANGED timers
Arm(d) == timers' = timers \cup {d}

\* Flows are started while their whole life lies within the bound.
StartFlow(d) ==
    /\ code[d] = "unused" /\ now + FlowLife < MaxClock /\ Spend
    /\ code' = [code EXCEPT ![d] = "pending"]
    /\ flows' = [flows EXCEPT ![d] = now + FlowLife]
    /\ Arm(d)
    /\ UNCHANGED <<notFlows, secret, req, cli, failures, history>>

Evict(d) ==
    /\ d \in timers /\ (flows[d] # None => now > flows[d])
    /\ timers' = timers \ {d} /\ Forget(d)
    /\ UNCHANGED <<notFlows, secret, req, code, cli, requests, failures, history>>

\* The user approves or refuses at GitHub, where the code expires too.
UserDecides(d) ==
    /\ code[d] = "pending"
    /\ \E answer \in {"approved", "refused"} : code' = [code EXCEPT ![d] = answer]
    /\ UNCHANGED <<notFlows, secret, req, flows, timers, cli, requests, failures, history>>

AskPoll(q, d) ==
    /\ code[d] # "unused" /\ Accept(q, "lookup", d)
    /\ UNCHANGED <<notFlows, secret, flowVars, failures, history>>

Lookup(q) ==
    LET d == req[q].code IN
    /\ req[q].pc = "lookup"
    /\ \/ flows[d] = None /\ Respond(q) /\ UNCHANGED flows
       \/ flows[d] # None /\ now > flows[d] /\ Respond(q) /\ Forget(d)
       \/ flows[d] # None /\ now <= flows[d] /\ Goto(q, "ask") /\ UNCHANGED flows
    /\ UNCHANGED <<notFlows, secret, timers, code, cli, requests, failures, history>>

\* GitHub gives the token of an approved code once.
AskGitHub(q) ==
    LET d == req[q].code IN
    /\ req[q].pc = "ask"
    /\ \/ code[d] = "pending" /\ Respond(q) /\ UNCHANGED <<flows, code>>
       \/ code[d] \in {"refused", "spent"} /\ Respond(q) /\ Forget(d) /\ UNCHANGED code
       \/ /\ code[d] = "approved" /\ code' = [code EXCEPT ![d] = "spent"]
          /\ Obtain(q, "store1", OAuth) /\ UNCHANGED flows
    /\ UNCHANGED <<notFlows, secret, timers, cli, requests, failures, history>>

\* The answer is lost, or is JSON with neither a token nor an error, which
\* poll takes for success.
PollFails(q) ==
    LET d == req[q].code IN
    /\ req[q].pc = "ask" /\ Failure
    /\ \/ /\ code' = [code EXCEPT ![d] = IF @ = "approved" THEN "spent" ELSE @]
          /\ Respond(q) /\ UNCHANGED odd
       \/ /\ Obtain(q, "store1", Empty)
          /\ odd' = TRUE /\ UNCHANGED code
    /\ UNCHANGED <<notFlows, secret, flows, timers, cli, requests, served, overlapped, connected, deleted>>

\* Mutant of PutFails: a failed write of the access token is only logged.
PutFailureLogged(q) == req[q].pc = "store1" /\ Goto(q, "store2")
PutFails(q) == req[q].pc \in {"store1", "store2"} /\ Respond(q)

\* The access token, then the refresh token and its expiry, which nobody reads.
StoreTokens(q) ==
    /\ \/ /\ req[q].pc = "store1" /\ Put("access-token", req[q].tok) /\ Goto(q, "store2")
          /\ revoked' = FALSE /\ UNCHANGED <<flows, failures, connected>>
       \/ /\ req[q].pc = "store2" /\ Respond(q) /\ Forget(req[q].code)
          /\ connected' = TRUE /\ UNCHANGED <<secret, revoked, failures>>
       \/ Failure /\ PutFails(q) /\ UNCHANGED <<secret, flows, revoked, connected>>
    /\ UNCHANGED <<now, entry, timers, code, cli, requests, served, overlapped, deleted, odd>>

-----------------------------------------------------------------------------
(* cronfoundry admin connect-copilot.                                      *)
MaxAttempts == 3
restOfWorld == <<now, entry, req, flows, timers, requests>>
Done(pc) == cli' = [cli EXCEPT !.pc = pc]

RunConnect ==
    /\ cli.pc = "off" /\ now + FlowLife < MaxClock /\ Spend
    /\ cli' = [cli EXCEPT !.pc = "request", !.deadline = now + FlowLife]
    /\ UNCHANGED <<now, entry, req, flows, timers, secret, code, revoked, failures, history>>

RequestDeviceCode ==
    /\ cli.pc = "request"
    /\ \/ \E d \in Codes :
            /\ code[d] = "unused" /\ code' = [code EXCEPT ![d] = "pending"]
            /\ cli' = [cli EXCEPT !.pc = "poll", !.code = d] /\ UNCHANGED failures
       \/ /\ Failure /\ UNCHANGED code
          /\ cli' = [cli EXCEPT !.attempt = @ + 1,
                                !.pc = IF cli.attempt + 1 < MaxAttempts THEN "request" ELSE "over"]
       \/ (\A d \in Codes : code[d] # "unused") /\ Done("over") /\ UNCHANGED <<code, failures>>
    /\ UNCHANGED <<restOfWorld, secret, revoked, history>>

PollForToken ==
    /\ cli.pc = "poll"
    /\ \/ code[cli.code] = "refused" /\ Done("over") /\ UNCHANGED <<code, failures>>
       \/ /\ code[cli.code] = "approved" /\ code' = [code EXCEPT ![cli.code] = "spent"]
          /\ Done("store") /\ UNCHANGED failures
       \/ Failure /\ Done("over") /\ UNCHANGED code
    /\ UNCHANGED <<restOfWorld, secret, revoked, history>>

ContextDone == now >= cli.deadline
CliTimesOut ==
    /\ cli.pc \in {"request", "poll", "store"} /\ ContextDone
    /\ Done("over")
    /\ UNCHANGED <<restOfWorld, secret, code, revoked, failures, history>>

StoreCopilotTokensProd ==
    /\ cli.pc = "store" /\ Done("over")
    /\ \/ Put("access-token", OAuth) /\ revoked' = FALSE
          /\ \/ connected' = TRUE /\ UNCHANGED failures
             \/ Failure /\ UNCHANGED connected
       \/ Failure /\ UNCHANGED <<secret, connected, revoked>>
    /\ UNCHANGED <<restOfWorld, code, served, overlapped, deleted, odd>>

-----------------------------------------------------------------------------
(* The secrets page, GitHub's revocation, and a restart.                   *)
OperatorWrites ==
    /\ Spend
    /\ \/ Put("access-token", OAuth) /\ revoked' = FALSE /\ UNCHANGED deleted
       \/ DeleteSecret("access-token") /\ deleted' = TRUE /\ UNCHANGED revoked
    /\ UNCHANGED <<now, entry, req, flowVars, failures, served, overlapped, connected, odd>>

Revoke ==
    /\ Get("access-token") = OAuth /\ ~revoked /\ Failure
    /\ revoked' = TRUE
    /\ UNCHANGED <<now, secret, entry, req, flowVars, requests, history>>

\* What the process holds in memory is gone.
Restart ==
    /\ Failure
    /\ entry' = NoEntry /\ req' = [q \in Slots |-> Off]
    /\ flows' = [d \in Codes |-> None] /\ timers' = {}
    /\ UNCHANGED <<now, secret, code, cli, revoked, requests, history>>

RequestStep(q) ==
    \/ ReadToken(q) \/ ReadExpiry(q) \/ ReadOAuthToken(q) \/ MintIDEToken(q) \/ CacheToken(q)
    \/ ReadCache(q) \/ Fetch(q) \/ StoreEntry(q)
    \/ Lookup(q) \/ AskGitHub(q) \/ StoreTokens(q)

CliStep == RequestDeviceCode \/ PollForToken \/ CliTimesOut \/ StoreCopilotTokensProd

CredentialNext ==
    \/ Tick \/ OperatorWrites \/ Revoke \/ Restart \/ RunConnect \/ CliStep
    \/ \E d \in Codes : StartFlow(d) \/ Evict(d) \/ UserDecides(d)
    \/ \E q \in Slots :
        \/ AskIDEToken(q) \/ AskInstallationToken(q) \/ RequestStep(q) \/ PollFails(q)
        \/ \E d \in Codes : AskPoll(q, d)

\* Time passes, timers fire, and calls return.
CredentialFairness ==
    /\ WF_credentialVars(Tick) /\ WF_credentialVars(CliTimesOut)
    /\ \A d \in Codes : WF_credentialVars(Evict(d))

CredentialSpec == CredentialInit /\ [][CredentialNext]_credentialVars /\ CredentialFairness

-----------------------------------------------------------------------------
Times == {None} \cup Nat
SecretNames == {"access-token", "ide-token", "ide-expiry"}
TokenRequests == [pc : IdeSteps \cup {"off", "cache", "fetch", "store", "lookup", "ask", "store1", "store2"},
                  tok : Int, exp : Int, code : Codes \cup {"none"}]

\* Every variable has its type.
CredentialTypeOK ==
    /\ now \in 0..MaxClock /\ requests \in 0..MaxRequests /\ failures \in 0..MaxFailures
    /\ secret \in [SecretNames -> Int] /\ secret["access-token"] \in {None, Empty, OAuth}
    /\ secret["ide-token"] \in Times /\ secret["ide-expiry"] \in Times
    /\ entry \in [tok : Times, exp : Nat] /\ req \in [Slots -> TokenRequests]
    /\ flows \in [Codes -> Times] /\ timers \in SUBSET Codes
    /\ code \in [Codes -> {"unused", "pending", "approved", "refused", "spent"}]
    /\ cli \in [pc : {"off", "request", "poll", "store", "over"}, attempt : 0..MaxAttempts,
                code : Codes \cup {"none"}, deadline : Nat]
    /\ served \in [kind : {"none", "ide", "installation"}, tok : Int, exp : Int]
    /\ {revoked, overlapped, connected, deleted, odd} \subseteq BOOLEAN

\* "Tokens with <=60s remaining are stale by definition": the IDE token a
\* request gets from the cache really has more than the margin left, and the
\* expires_at beside it is not later than the truth, whatever write failed and
\* wherever the process died between the two secrets -- as long as no two
\* requests for it were in flight at once.
CachedTokenIsFresh ==
    served.kind = "ide" /\ ~overlapped =>
        served.tok - now > Margin /\ served.exp <= served.tok

\* The installation cache keeps token and expiry in one entry under a lock, so
\* it hands out no expired token even when requests overlap.
InstallationTokenIsFresh ==
    served.kind = "installation" => now < served.tok /\ served.exp <= served.tok

\* When the page or the command has reported success, an OAuth token is
\* stored, whichever flows, restarts and failed writes met, unless the operator
\* deleted it or GitHub answered a poll with an empty success.
ConnectedIsStored == connected /\ ~odd /\ ~deleted => Get("access-token") = OAuth

\* Every device flow ends, although the user may never answer or poll again:
\* the page's leaves the map, the command returns.
FlowsEnd ==
    /\ \A d \in Codes : flows[d] # None ~> flows[d] = None
    /\ cli.pc = "request" ~> cli.pc = "over"
=============================================================================
