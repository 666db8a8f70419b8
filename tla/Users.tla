------------------------------- MODULE Users -------------------------------
(***************************************************************************)
(* Users, login and sessions (internal/webapi): the app_user table, its    *)
(* bootstrap from the environment when `cronfoundry serve` starts, the     *)
(* OAuth login that turns a row into signed cookies, and the /api/users    *)
(* requests that change the rows.                                          *)
(*                                                                         *)
(* Every statement is a step of its own: none of these handlers opens a    *)
(* transaction.  A DELETE counts the users in the snapshot it starts with  *)
(* and shows its effect when it commits, so it is two steps, and until it  *)
(* commits the row it deletes is locked.  The role of a request is the one *)
(* in the session cookie, which is as old as the login.                    *)
(***************************************************************************)
EXTENDS Naturals, FiniteSets

CONSTANTS
    Logins,       \* GitHub logins
    AdminLogins,  \* CRONFOUNDRY_ADMIN_LOGINS; it is required, but "," names nobody
    ViewerLogins, \* CRONFOUNDRY_VIEWER_LOGINS
    Slots,        \* requests that may be in flight at the same time
    MaxFaults,    \* bound: crashes and failed statements
    MaxRequests   \* bound: requests to /api/users

ASSUME EnvAssumption ==
    /\ IsFiniteSet(Logins)
    /\ AdminLogins \subseteq Logins
    /\ ViewerLogins \subseteq Logins
ASSUME BoundsAssumption == MaxFaults \in Nat /\ MaxRequests \in Nat

VARIABLES
    users,     \* table app_user: the role of each login ("none": no row)
    serve,     \* the serve process and what its bootstrap has left to seed
    browser,   \* the cookies each login's browser holds
    req,       \* requests in flight
    audit,     \* the last user.* entry of the audit log: login and role ("none": deleted)
    faults, requests,
    (* History variables: *)
    overlapped,  \* two requests have been in flight at the same time
    twoDeletes,  \* two DELETE statements have been in progress at once
    stale,       \* a change was requested on a session whose row is not admin
    seedFailed,  \* an INSERT of the bootstrap returned an error
    torn         \* the process died while it was seeding

history == <<overlapped, twoDeletes, stale, seedFailed, torn>>
vars == <<users, serve, browser, req, audit, faults, requests, history>>

Roles == {"admin", "viewer"}
PCs == {"off", "state", "upsert", "cookies", "create", "load", "count", "set",
        "remove", "deleting", "audit"}
Request == [pc : PCs, kind : {"none", "login", "create", "set_role", "delete"},
            actor : Logins \cup {"none"}, target : Logins \cup {"none"},
            role : Roles \cup {"none"}]
Process == [pc : {"down", "seeding", "serving"}, admins : SUBSET AdminLogins,
            viewers : SUBSET ViewerLogins, seeded : BOOLEAN]
NoCookies == [session |-> "none", csrf |-> FALSE]
Off == [pc |-> "off", kind |-> "none", actor |-> "none", target |-> "none",
        role |-> "none"]
Down == [pc |-> "down", admins |-> {}, viewers |-> {}, seeded |-> FALSE]

Exists(l) == users[l] # "none"
CountUsers == Cardinality({l \in Logins : Exists(l)})
CountAdmins == Cardinality({l \in Logins : users[l] = "admin"})
Serving == serve.pc = "serving"
InFlight == {q \in Slots : req[q].pc # "off"}
Goto(q, pc) == req' = [req EXCEPT ![q].pc = pc]
Respond(q) == req' = [req EXCEPT ![q] = Off]

\* A row being deleted is locked until the statement commits.
Locked(l) == \E q \in Slots : req[q].pc = "deleting" /\ req[q].target = l

Init ==
    /\ users = [l \in Logins |-> "none"]
    /\ serve = Down
    /\ browser = [l \in Logins |-> NoCookies]
    /\ req = [q \in Slots |-> Off]
    /\ audit = <<"none", "none">>
    /\ faults = 0 /\ requests = 0
    /\ overlapped = FALSE /\ twoDeletes = FALSE /\ stale = FALSE
    /\ seedFailed = FALSE /\ torn = FALSE

-----------------------------------------------------------------------------
(* The bootstrap.                                                           *)

\* CountUsers: the environment is read into the table only when it is empty.
StartServe ==
    /\ serve.pc = "down"
    /\ serve' = IF CountUsers = 0
                THEN [pc |-> "seeding", admins |-> AdminLogins,
                      viewers |-> ViewerLogins, seeded |-> FALSE]
                ELSE [Down EXCEPT !.pc = "serving"]
    /\ UNCHANGED <<users, browser, req, audit, faults, requests, history>>

\* CreateUser, ON CONFLICT DO NOTHING.
CreateUser(l, role) == users' = IF Exists(l) THEN users ELSE [users EXCEPT ![l] = role]

\* Mutant of SeedOne: the viewers are seeded before the admins.
SeedViewersFirst(l, ok) ==
    /\ serve.pc = "seeding"
    /\ \/ /\ l \in serve.viewers
          /\ IF ok THEN CreateUser(l, "viewer") ELSE users' = users
          /\ serve' = [serve EXCEPT !.viewers = @ \ {l}]
       \/ /\ serve.viewers = {} /\ l \in serve.admins
          /\ IF ok THEN CreateUser(l, "admin") ELSE users' = users
          /\ serve' = [serve EXCEPT !.admins = @ \ {l}, !.seeded = @ \/ ok]
    /\ ~ok => faults < MaxFaults
    /\ faults' = IF ok THEN faults ELSE faults + 1
    /\ seedFailed' = (seedFailed \/ ~ok)
    /\ UNCHANGED <<browser, req, audit, overlapped, twoDeletes, stale, torn, requests>>

\* seedOne: an error is logged and the next login follows; a conflict counts
\* as seeded.
SeedOne(l, ok) ==
    /\ serve.pc = "seeding"
    /\ \/ /\ l \in serve.admins
          /\ IF ok THEN CreateUser(l, "admin") ELSE users' = users
          /\ serve' = [serve EXCEPT !.admins = @ \ {l}, !.seeded = @ \/ ok]
       \/ /\ serve.admins = {} /\ l \in serve.viewers
          /\ IF ok THEN CreateUser(l, "viewer") ELSE users' = users
          /\ serve' = [serve EXCEPT !.viewers = @ \ {l}]
    /\ ~ok => faults < MaxFaults
    /\ faults' = IF ok THEN faults ELSE faults + 1
    /\ seedFailed' = (seedFailed \/ ~ok)
    /\ UNCHANGED <<browser, req, audit, overlapped, twoDeletes, stale, torn, requests>>

\* With admins asked for and none seeded the process refuses to start.
FinishSeeding ==
    /\ serve.pc = "seeding" /\ serve.admins = {} /\ serve.viewers = {}
    /\ serve' = [Down EXCEPT !.pc = IF serve.seeded \/ AdminLogins = {}
                                   THEN "serving" ELSE "down"]
    /\ UNCHANGED <<users, browser, req, audit, faults, requests, history>>

\* The process dies: requests go unanswered, and a DELETE in progress may
\* have committed or not.  A browser at GitHub's page notices nothing.
Crash ==
    /\ serve.pc # "down" /\ faults < MaxFaults
    /\ serve' = Down
    /\ \E gone \in SUBSET {l \in Logins : Locked(l)} :
           users' = [l \in Logins |-> IF l \in gone THEN "none" ELSE users[l]]
    /\ req' = [q \in Slots |-> IF req[q].pc = "state" THEN req[q] ELSE Off]
    /\ faults' = faults + 1
    /\ torn' = (torn \/ serve.pc = "seeding")
    /\ UNCHANGED <<browser, audit, overlapped, twoDeletes, stale, seedFailed, requests>>

-----------------------------------------------------------------------------
(* Login and logout.                                                        *)

\* GET /oauth/login: the browser leaves with a signed state cookie.
Login(q, l) ==
    /\ Serving /\ req[q].pc = "off"
    /\ req' = [req EXCEPT ![q] = [Off EXCEPT !.pc = "state", !.kind = "login", !.actor = l]]
    /\ overlapped' = (overlapped \/ InFlight # {})
    /\ UNCHANGED <<users, serve, browser, audit, faults, twoDeletes, stale,
                   seedFailed, torn, requests>>

\* The visit to GitHub comes to nothing: it is abandoned, the state cookie is
\* missing, expired or another one, or GitHub refuses the code or the token.
LoginAbandoned(q) ==
    /\ req[q].pc = "state"
    /\ Respond(q)
    /\ UNCHANGED <<users, serve, browser, audit, faults, requests, history>>

\* callback: exchangeCode, fetchLogin, then resolveRole.  Without a row the
\* answer is 403.
ResolveRole(q) ==
    /\ Serving /\ req[q].pc = "state"
    /\ IF Exists(req[q].actor)
       THEN req' = [req EXCEPT ![q].pc = "upsert", ![q].role = users[req[q].actor]]
       ELSE Respond(q)
    /\ UNCHANGED <<users, serve, browser, audit, faults, requests, history>>

\* Mutant of UpsertUserOnLogin: the conflict branch writes the role it read.
UpsertUserRole(q) ==
    /\ req[q].pc = "upsert" /\ ~Locked(req[q].actor)
    /\ users' = [users EXCEPT ![req[q].actor] = req[q].role]
    /\ Goto(q, "cookies")
    /\ UNCHANGED <<serve, browser, audit, faults, requests, history>>

\* callback: the upsert sets last_login_at and keeps the role of a row that
\* is there; a row deleted since resolveRole is inserted again.
UpsertUserOnLogin(q) ==
    /\ req[q].pc = "upsert" /\ ~Locked(req[q].actor)
    /\ CreateUser(req[q].actor, req[q].role)
    /\ Goto(q, "cookies")
    /\ UNCHANGED <<serve, browser, audit, faults, requests, history>>

\* SignSession: the role is fixed for the life of the cookie.
SignSession(role) == [session |-> role, csrf |-> TRUE]

\* callback: SignSession and NewCSRFToken first, then both cookies, with the
\* same lifetime; when either cannot be made, neither cookie is set.
SetCookies(q) ==
    /\ req[q].pc = "cookies"
    /\ \E minted \in BOOLEAN :
           browser' = IF minted
               THEN [browser EXCEPT ![req[q].actor] = SignSession(req[q].role)]
               ELSE browser
    /\ Respond(q)
    /\ UNCHANGED <<users, serve, audit, faults, requests, history>>

\* Logout clears both cookies, and so does the end of their seven days.
Logout(l) ==
    /\ browser[l] # NoCookies
    /\ browser' = [browser EXCEPT ![l] = NoCookies]
    /\ UNCHANGED <<users, serve, req, audit, faults, requests, history>>

-----------------------------------------------------------------------------
(* /api/users.                                                              *)

\* VerifySession: what was signed into the cookie at the login.
VerifySession(a) == browser[a].session

\* RequireRole looks at the signed claims only, not at the table.
RequireRole(a) == VerifySession(a) = "admin"

\* CSRF asks for the cookie that the page echoes in its header.
CSRF(a) == browser[a].csrf

AdminOnly(a) == CSRF(a) /\ RequireRole(a)

\* A request passes the middleware and is about to run its first statement.
Admit(q, a, kind, pc, target, role) ==
    /\ Serving /\ req[q].pc = "off" /\ AdminOnly(a)
    /\ requests < MaxRequests /\ requests' = requests + 1
    /\ req' = [req EXCEPT ![q] = [pc |-> pc, kind |-> kind, actor |-> a,
                                  target |-> target, role |-> role]]
    /\ overlapped' = (overlapped \/ InFlight # {})
    /\ stale' = (stale \/ users[a] # "admin")
    /\ UNCHANGED <<users, serve, browser, audit, faults, twoDeletes, seedFailed,
                   torn>>

Create(q, a, l, role) == Admit(q, a, "create", "create", l, role)
UpdateRole(q, a, l, role) == Admit(q, a, "set_role", "load", l, role)
\* delete: one's own row is refused (409 self_delete).
Delete(q, a, l) == a # l /\ Admit(q, a, "delete", "load", l, "none")

\* create: 409 when the row is there.
DoCreate(q) ==
    /\ req[q].pc = "create" /\ ~Locked(req[q].target)
    /\ CreateUser(req[q].target, req[q].role)
    /\ IF Exists(req[q].target) THEN Respond(q) ELSE Goto(q, "audit")
    /\ UNCHANGED <<serve, browser, audit, faults, overlapped, twoDeletes, stale,
                   seedFailed, torn, requests>>

\* GetUserRole: 404 without a row; only a demotion goes on to the count.
LoadTarget(q) ==
    /\ req[q].pc = "load"
    /\ IF ~Exists(req[q].target) THEN Respond(q)
       ELSE Goto(q, IF req[q].kind = "delete" THEN "remove"
                    ELSE IF users[req[q].target] = "admin" /\ req[q].role # "admin"
                    THEN "count" ELSE "set")
    /\ UNCHANGED <<users, serve, browser, audit, faults, requests, history>>

\* Mutant of GuardLastAdmin: the count is of users, not of admins.
GuardLastUser(q) ==
    /\ req[q].pc = "count"
    /\ IF CountUsers <= 1 THEN Respond(q) ELSE Goto(q, "set")
    /\ UNCHANGED <<users, serve, browser, audit, faults, requests, history>>

\* CountAdmins: 409 last_admin when it says one.
GuardLastAdmin(q) ==
    /\ req[q].pc = "count"
    /\ IF CountAdmins <= 1 THEN Respond(q) ELSE Goto(q, "set")
    /\ UNCHANGED <<users, serve, browser, audit, faults, requests, history>>

\* SetUserRole: a blind UPDATE, of no row when the row is gone.
SetUserRole(q) ==
    /\ req[q].pc = "set" /\ ~Locked(req[q].target)
    /\ users' = IF Exists(req[q].target)
                THEN [users EXCEPT ![req[q].target] = req[q].role] ELSE users
    /\ Goto(q, "audit")
    /\ UNCHANGED <<serve, browser, audit, faults, overlapped, twoDeletes, stale,
                   seedFailed, torn, requests>>

\* Mutant of DeleteUserIfNotLast: DeleteUser, without the count.
DeleteUser(q) ==
    /\ req[q].pc = "remove" /\ ~Locked(req[q].target)
    /\ IF Exists(req[q].target) THEN Goto(q, "deleting") ELSE Respond(q)
    /\ twoDeletes' = (twoDeletes \/ \E l \in Logins : Locked(l))
    /\ UNCHANGED <<users, serve, browser, audit, faults, overlapped, stale,
                   seedFailed, torn, requests>>

\* DeleteUserIfNotLast starts: it waits for the row, and its subquery counts
\* the users committed by now.  No row to delete is answered 409 last_user.
DeleteUserIfNotLast(q) ==
    /\ req[q].pc = "remove" /\ ~Locked(req[q].target)
    /\ IF Exists(req[q].target) /\ CountUsers > 1 THEN Goto(q, "deleting") ELSE Respond(q)
    /\ twoDeletes' = (twoDeletes \/ \E l \in Logins : Locked(l))
    /\ UNCHANGED <<users, serve, browser, audit, faults, overlapped, stale,
                   seedFailed, torn, requests>>

\* The DELETE commits.
DeleteCommits(q) ==
    /\ req[q].pc = "deleting"
    /\ users' = [users EXCEPT ![req[q].target] = "none"]
    /\ Goto(q, "audit")
    /\ UNCHANGED <<serve, browser, audit, faults, overlapped, twoDeletes, stale,
                   seedFailed, torn, requests>>

\* auditLog, after the change: the entry names the target and the role asked for.
AuditLog(q) ==
    /\ req[q].pc = "audit"
    /\ audit' = <<req[q].target, req[q].role>>
    /\ Respond(q)
    /\ UNCHANGED <<users, serve, browser, faults, requests, history>>

\* A statement fails: 500 and nothing more, but a login goes on without its
\* upsert, and a failed audit entry is only logged.
RequestFails(q) ==
    /\ req[q].pc \notin {"off", "state", "cookies"} /\ faults < MaxFaults
    /\ IF req[q].pc = "upsert" THEN Goto(q, "cookies") ELSE Respond(q)
    /\ faults' = faults + 1
    /\ UNCHANGED <<users, serve, browser, audit, requests, history>>

Bootstrap ==
    \/ StartServe \/ FinishSeeding
    \/ \E l \in Logins, ok \in BOOLEAN : SeedOne(l, ok)

Step(q) ==
    \/ ResolveRole(q) \/ UpsertUserOnLogin(q) \/ SetCookies(q)
    \/ DoCreate(q) \/ LoadTarget(q) \/ GuardLastAdmin(q) \/ SetUserRole(q)
    \/ DeleteUserIfNotLast(q) \/ DeleteCommits(q) \/ AuditLog(q)

Arrive(q) ==
    \E l \in Logins :
        \/ Login(q, l)
        \/ \E a \in Logins :
            \/ Delete(q, a, l)
            \/ \E role \in Roles : Create(q, a, l, role) \/ UpdateRole(q, a, l, role)

Next ==
    \/ Bootstrap
    \/ Crash
    \/ \E l \in Logins : Logout(l)
    \/ \E q \in Slots : Arrive(q) \/ LoginAbandoned(q) \/ Step(q) \/ RequestFails(q)

Spec == Init /\ [][Next]_vars

-----------------------------------------------------------------------------
(* Properties.                                                              *)

\* Rows, cookies and requests are well formed.
TypeOK ==
    /\ users \in [Logins -> Roles \cup {"none"}]
    /\ serve \in Process /\ req \in [Slots -> Request]
    /\ browser \in [Logins -> [session : Roles \cup {"none"}, csrf : BOOLEAN]]
    /\ audit \in (Logins \cup {"none"}) \X (Roles \cup {"none"})
    /\ faults \in 0..MaxFaults /\ requests \in 0..MaxRequests
    /\ {overlapped, twoDeletes, stale, seedFailed, torn} \subseteq BOOLEAN

\* A serving installation whose environment names an administrator keeps one
\* ("the UI would become unreachable for /api/users and /api/audit until
\* someone re-seeds"), as long as requests do not overlap, nobody acts on a
\* session older than the loss of the role, and no INSERT of the bootstrap
\* failed.  Each of the three exceptions does lose the last admin.
AdminRemains ==
    /\ AdminLogins # {} /\ Serving
    /\ ~overlapped /\ ~stale /\ ~seedFailed
    => CountAdmins > 0

\* A serving installation whose environment names an administrator keeps a
\* user, whatever the requests, sessions, crashes and failed statements, unless
\* two DELETEs were in progress at once: the bootstrap's gate then never opens
\* on a table somebody emptied.
UserRemains == AdminLogins # {} /\ Serving /\ ~twoDeletes => CountUsers > 0

\* "At most one wins, the loser sees affected=0" (DeleteUserIfNotLast): two
\* users who delete each other cannot both succeed.
LoserSeesNothing == Serving => CountUsers > 0

\* A login, however long it takes between resolveRole and the upsert, a
\* bootstrap or a restart never changes the role of a row: only SetUserRole
\* does, to what its request asked for.
RoleStableAcrossLogins ==
    [][\A l \in Logins :
         Exists(l) /\ users'[l] \notin {"none", users[l]}
         => \E q \in Slots : req[q].kind = "set_role" /\ req[q].pc = "set"
                             /\ req[q].target = l /\ req[q].role = users'[l]]_vars

\* Until somebody edits the users, a serving installation has exactly those of
\* the environment, a login of both lists as admin, unless an INSERT failed or
\* the process died between two of them (the next start then finds the table
\* non-empty and seeds no more).
EnvironmentSeeded ==
    Serving /\ requests = 0 /\ ~seedFailed /\ ~torn
    => users = [l \in Logins |-> IF l \in AdminLogins THEN "admin"
                                 ELSE IF l \in ViewerLogins THEN "viewer" ELSE "none"]

=============================================================================
