----------------------------- MODULE UsersProofs -----------------------------
(***************************************************************************)
(* Theorems about Users, for every set of logins, every environment, any   *)
(* number of requests in flight and every value of the bounds.             *)
(***************************************************************************)
EXTENDS Users, FiniteSetTheorems, TLAPS

-----------------------------------------------------------------------------
(* The invariants.                                                          *)

\* What a request in flight at step pc is.
Shape(x) ==
    /\ x.pc \in {"state", "upsert", "cookies"} => x.kind = "login" /\ x.actor \in Logins
    /\ x.pc \in {"upsert", "cookies"} => x.role \in Roles
    /\ x.pc \notin {"off", "state", "upsert", "cookies"} =>
           x.kind # "login" /\ x.actor \in Logins /\ x.target \in Logins
    /\ x.pc \in {"count", "set"} => x.kind = "set_role"
    /\ x.pc \in {"create", "count", "set"} => x.role \in Roles
    /\ x.pc = "load" => (x.kind = "set_role" /\ x.role \in Roles) \/ x.kind = "delete"
    /\ x.pc \in {"remove", "deleting"} => x.kind = "delete"
    /\ x.kind = "delete" => x.actor # x.target

\* Requests are of their shape, and a process that does not serve has none
\* but the browsers that are at GitHub's page.
RequestInv ==
    /\ TypeOK
    /\ \A q \in Slots : Shape(req[q])
    /\ ~Serving => \A q \in Slots : req[q].pc \in {"off", "state"}

\* A user nobody is deleting.
SafeUser(l) == Exists(l) /\ ~Locked(l)

\* With administrators in the environment and one DELETE at a time, a serving
\* installation has a user whom the DELETE in progress leaves alone; a
\* bootstrap that counts a login as seeded has its row.
UserInv ==
    /\ AdminLogins # {} /\ ~twoDeletes /\ Serving => \E l \in Logins : SafeUser(l)
    /\ serve.pc = "seeding" /\ serve.seeded => \E l \in Logins : Exists(l)

IsAdmin(l) == users[l] = "admin"
Steady == AdminLogins # {} /\ ~overlapped /\ ~stale /\ ~seedFailed

\* One request at a time; whoever deletes is an admin; a role about to be
\* written is admin's, or leaves an admin.
OneAtATime == \A p, q \in Slots : req[p].pc # "off" /\ req[q].pc # "off" => p = q
DeleterIsAdmin(q) ==
    req[q].pc \in {"load", "remove", "deleting"} /\ req[q].kind = "delete" =>
        IsAdmin(req[q].actor)
RoleLeavesAdmin(q) ==
    req[q].pc = "set" =>
        req[q].role = "admin" \/ \E l \in Logins : l # req[q].target /\ IsAdmin(l)

\* Every table but the empty one has an admin: the bootstrap begins with them.
TableHasAdmin ==
    /\ Serving => \E l \in Logins : IsAdmin(l)
    /\ serve.pc = "down" => (\A l \in Logins : ~Exists(l)) \/ (\E l \in Logins : IsAdmin(l))
    /\ serve.pc = "seeding" =>
           /\ \/ serve.admins = AdminLogins /\ \A l \in Logins : ~Exists(l)
              \/ serve.admins # AdminLogins /\ \E l \in Logins : IsAdmin(l)
           /\ serve.admins # {} => \A l \in Logins : Exists(l) => IsAdmin(l)

AdminInv ==
    Steady =>
        /\ OneAtATime
        /\ \A q \in Slots : DeleterIsAdmin(q) /\ RoleLeavesAdmin(q)
        /\ TableHasAdmin

Environment == [l \in Logins |-> IF l \in AdminLogins THEN "admin"
                                 ELSE IF l \in ViewerLogins THEN "viewer" ELSE "none"]
Untouched == requests = 0 /\ ~seedFailed /\ ~torn

\* Until somebody edits the users, only logins are in flight, and none of them
\* is about to insert a row.
OnlyLogin(q) ==
    /\ req[q].pc \in {"off", "state", "upsert", "cookies"}
    /\ req[q].pc = "upsert" => Exists(req[q].actor)

\* The row of a login while the environment is being read into the table.
SeededSoFar(l) ==
    IF l \in AdminLogins \ serve.admins THEN "admin"
    ELSE IF l \in ViewerLogins \ (serve.viewers \cup AdminLogins) THEN "viewer" ELSE "none"

\* The table is then empty, or what the bootstrap has seeded so far, or the
\* environment.
TableSeeded ==
    /\ Serving => users = Environment
    /\ serve.pc = "down" => users = Environment \/ \A l \in Logins : ~Exists(l)
    /\ serve.pc = "seeding" =>
           /\ \A l \in Logins : users[l] = SeededSoFar(l)
           /\ serve.admins # {} => serve.viewers = ViewerLogins

SeedInv == Untouched => (\A q \in Slots : OnlyLogin(q)) /\ TableSeeded

-----------------------------------------------------------------------------
(* How the steps of a request change it.                                    *)

\* A request that goes on changes its pc only.
LEMMA GotoStep ==
    ASSUME req \in [Slots -> Request], NEW q \in Slots, NEW pc \in PCs, Goto(q, pc)
    PROVE  /\ req' \in [Slots -> Request]
           /\ req'[q] \in Request
           /\ req'[q].pc = pc /\ req'[q].kind = req[q].kind
           /\ req'[q].actor = req[q].actor /\ req'[q].target = req[q].target
           /\ req'[q].role = req[q].role
           /\ \A p \in Slots : p # q => req'[p] = req[p]
<1> DEFINE x == [req[q] EXCEPT !.pc = pc]
<1>1. req' = [req EXCEPT ![q] = x]
  BY DEF Goto
<1>2. /\ x \in Request /\ x.pc = pc /\ x.kind = req[q].kind
      /\ x.actor = req[q].actor /\ x.target = req[q].target /\ x.role = req[q].role
  BY DEF Request
<1> HIDE DEF x
<1> QED
  BY <1>1, <1>2

\* No request.
LEMMA OffType ==
    /\ Off \in Request /\ Off.pc = "off" /\ Off.kind = "none" /\ Shape(Off)
BY DEF Off, Request, PCs, Shape

\* A request that is answered leaves its slot.
LEMMA RespondStep ==
    ASSUME req \in [Slots -> Request], NEW q \in Slots, Respond(q)
    PROVE  /\ req' \in [Slots -> Request] /\ req'[q] = Off /\ req'[q].pc = "off"
           /\ \A p \in Slots : p # q => req'[p] = req[p]
BY OffType DEF Respond

\* CreateUser changes no row that is there.
LEMMA CreateUserStep ==
    ASSUME users \in [Logins -> Roles \cup {"none"}], NEW l \in Logins, NEW role \in Roles,
           CreateUser(l, role)
    PROVE  /\ users' \in [Logins -> Roles \cup {"none"}]
           /\ \A x \in Logins : Exists(x) => users'[x] = users[x]
           /\ \A x \in Logins : x # l => users'[x] = users[x]
           /\ users'[l] = IF Exists(l) THEN users[l] ELSE role
           /\ users'[l] # "none"
BY DEF CreateUser, Exists, Roles

\* Sets of logins are finite: a count says whether there is one.
LEMMA Counting ==
    ASSUME NEW S \in SUBSET Logins
    PROVE  /\ Cardinality(S) \in Nat
           /\ Cardinality(S) > 0 <=> \E l \in Logins : l \in S
           /\ Cardinality(S) > 1 => \A t : \E l \in Logins : l \in S /\ l # t
<1>1. IsFiniteSet(S)
  BY EnvAssumption, FS_Subset, Zenon
<1>2. Cardinality(S) \in Nat
  BY <1>1, FS_CardinalityType, Zenon
<1>3. Cardinality(S) > 0 <=> \E l \in Logins : l \in S
  BY <1>1, <1>2, FS_EmptySet
<1>4. ASSUME NEW t, ~ \E l \in Logins : l \in S /\ l # t
      PROVE  ~(Cardinality(S) > 1)
  <2>1. S \subseteq {t}
    BY <1>4
  <2>2. IsFiniteSet({t}) /\ Cardinality({t}) = 1
    BY FS_Singleton
  <2>3. Cardinality(S) <= Cardinality({t})
    BY <2>1, <2>2, FS_Subset, Zenon
  <2> QED
    BY <1>2, <2>2, <2>3
<1> QED
  BY <1>2, <1>3, <1>4

\* What the three counts of the handlers say.
LEMMA Counts ==
    /\ CountUsers > 0 <=> \E l \in Logins : Exists(l)
    /\ CountUsers = 0 <=> \A l \in Logins : ~Exists(l)
    /\ CountUsers > 1 => \A t : \E l \in Logins : Exists(l) /\ l # t
    /\ CountAdmins > 0 <=> \E l \in Logins : IsAdmin(l)
    /\ ~(CountAdmins <= 1) => \A t : \E l \in Logins : IsAdmin(l) /\ l # t
<1> DEFINE U == {l \in Logins : Exists(l)}
           A == {l \in Logins : users[l] = "admin"}
<1>1. /\ Cardinality(U) \in Nat
      /\ Cardinality(U) > 0 <=> \E l \in Logins : l \in U
      /\ Cardinality(U) > 1 => \A t : \E l \in Logins : l \in U /\ l # t
  BY Counting
<1>2. /\ Cardinality(A) \in Nat
      /\ Cardinality(A) > 0 <=> \E l \in Logins : l \in A
      /\ Cardinality(A) > 1 => \A t : \E l \in Logins : l \in A /\ l # t
  BY Counting
<1> QED
  BY <1>1, <1>2 DEF CountUsers, CountAdmins, IsAdmin

-----------------------------------------------------------------------------
(* Requests are well formed.                                                *)

\* RequestInv holds initially.
LEMMA InitRequest == Init => RequestInv
<1> SUFFICES ASSUME Init PROVE RequestInv
  OBVIOUS
<1>1. serve \in Process /\ serve.pc = "down"
  BY DEF Init, Down, Process
<1>2. browser \in [Logins -> [session : Roles \cup {"none"}, csrf : BOOLEAN]]
  BY DEF Init, NoCookies
<1>3. /\ req \in [Slots -> Request]
      /\ \A q \in Slots : req[q].pc = "off" /\ Shape(req[q])
  BY OffType DEF Init
<1>4. users \in [Logins -> Roles \cup {"none"}]
  BY DEF Init
<1>5. faults \in 0..MaxFaults /\ requests \in 0..MaxRequests
  BY BoundsAssumption DEF Init
<1>6. {overlapped, twoDeletes, stale, seedFailed, torn} \subseteq BOOLEAN
  BY DEF Init
<1>7. audit \in (Logins \cup {"none"}) \X (Roles \cup {"none"})
  BY DEF Init
<1> QED
  BY <1>1, <1>2, <1>3, <1>4, <1>5, <1>6, <1>7 DEF RequestInv, TypeOK

\* What seeding one login leaves to seed.
LEMMA SeedOneServe ==
    ASSUME TypeOK, NEW l \in Logins, NEW ok \in BOOLEAN, SeedOne(l, ok)
    PROVE  /\ serve' \in Process /\ serve.pc = "seeding" /\ serve'.pc = "seeding"
           /\ \/ /\ l \in serve.admins /\ serve'.admins = serve.admins \ {l}
                 /\ serve'.viewers = serve.viewers
                 /\ serve'.seeded = (serve.seeded \/ ok)
                 /\ IF ok THEN CreateUser(l, "admin") ELSE users' = users
              \/ /\ serve.admins = {} /\ l \in serve.viewers
                 /\ serve'.admins = {} /\ serve'.viewers = serve.viewers \ {l}
                 /\ serve'.seeded = serve.seeded
                 /\ IF ok THEN CreateUser(l, "viewer") ELSE users' = users
<1>1. serve \in Process /\ serve.pc = "seeding"
  BY DEF TypeOK, SeedOne
<1>2. CASE /\ l \in serve.admins
           /\ IF ok THEN CreateUser(l, "admin") ELSE users' = users
           /\ serve' = [serve EXCEPT !.admins = @ \ {l}, !.seeded = @ \/ ok]
  <2>1. serve.admins \ {l} \in SUBSET AdminLogins /\ (serve.seeded \/ ok) \in BOOLEAN
    BY <1>1 DEF Process
  <2>2. ASSUME NEW A \in SUBSET AdminLogins, NEW b \in BOOLEAN
        PROVE  LET x == [serve EXCEPT !.admins = A, !.seeded = b]
               IN  /\ x \in Process /\ x.pc = "seeding" /\ x.admins = A
                   /\ x.viewers = serve.viewers /\ x.seeded = b
    BY <1>1 DEF Process
  <2>3. serve' = [serve EXCEPT !.admins = serve.admins \ {l}, !.seeded = (serve.seeded \/ ok)]
    BY <1>2
  <2>4. /\ serve' \in Process /\ serve'.pc = "seeding"
        /\ serve'.admins = serve.admins \ {l} /\ serve'.viewers = serve.viewers
        /\ serve'.seeded = (serve.seeded \/ ok)
    BY <2>1, <2>2, <2>3, Zenon
  <2> QED
    BY <1>1, <1>2, <2>4, Zenon
<1>3. CASE /\ serve.admins = {} /\ l \in serve.viewers
           /\ IF ok THEN CreateUser(l, "viewer") ELSE users' = users
           /\ serve' = [serve EXCEPT !.viewers = @ \ {l}]
  <2>1. /\ serve' \in Process /\ serve'.pc = "seeding" /\ serve'.admins = {}
        /\ serve'.viewers = serve.viewers \ {l} /\ serve'.seeded = serve.seeded
    BY <1>1, <1>3 DEF Process
  <2> QED
    BY <1>1, <1>3, <2>1, Zenon
<1> QED
  BY <1>2, <1>3, Zenon DEF SeedOne

\* A step of the bootstrap touches no request.
LEMMA BootstrapRequest ==
    ASSUME RequestInv, Bootstrap
    PROVE  RequestInv'
<1> USE DEF RequestInv, TypeOK, Serving
<1>1. CASE StartServe
  <2>1. serve' \in Process
    BY <1>1 DEF StartServe, Process, Down
  <2> QED
    BY <1>1, <2>1 DEF StartServe, history
<1>2. CASE FinishSeeding
  <2>1. serve' \in Process
    BY <1>2 DEF FinishSeeding, Process, Down
  <2> QED
    BY <1>2, <2>1 DEF FinishSeeding, history
<1>3. ASSUME NEW l \in Logins, NEW ok \in BOOLEAN, SeedOne(l, ok) PROVE RequestInv'
  <2>1. serve' \in Process /\ serve'.pc = "seeding"
    BY <1>3, SeedOneServe
  <2>2. users' \in [Logins -> Roles \cup {"none"}]
    BY <1>3, CreateUserStep DEF SeedOne, Roles
  <2>3. faults' \in 0..MaxFaults
    BY <1>3, BoundsAssumption DEF SeedOne
  <2>4. seedFailed' \in BOOLEAN
    BY <1>3 DEF SeedOne
  <2> QED
    BY <1>3, <2>1, <2>2, <2>3, <2>4 DEF SeedOne
<1> QED
  BY <1>1, <1>2, <1>3 DEF Bootstrap

\* A crash leaves the browsers that are at GitHub's page.
LEMMA CrashRequest ==
    ASSUME RequestInv, Crash
    PROVE  RequestInv'
<1> USE DEF RequestInv, TypeOK, Serving
<1>1. serve' \in Process /\ serve'.pc = "down"
  BY DEF Crash, Down, Process
<1>2. users' \in [Logins -> Roles \cup {"none"}]
  BY DEF Crash
<1>3. \A q \in Slots : req'[q] = req[q] \/ req'[q] = Off
  BY DEF Crash
<1>4. /\ req' \in [Slots -> Request]
      /\ \A q \in Slots : req'[q].pc \in {"off", "state"} /\ Shape(req'[q])
  BY <1>3, OffType DEF Crash
<1>5. faults' \in 0..MaxFaults /\ torn' \in BOOLEAN
  BY BoundsAssumption DEF Crash
<1> QED
  BY <1>1, <1>2, <1>4, <1>5 DEF Crash

\* A request that arrives has the shape of its kind.
LEMMA ArriveRequest ==
    ASSUME RequestInv, NEW q \in Slots, Arrive(q)
    PROVE  RequestInv'
<1> USE DEF RequestInv, TypeOK
<1>1. ASSUME NEW x \in Request, Shape(x), req' = [req EXCEPT ![q] = x], Serving,
             UNCHANGED <<users, serve, browser, audit, faults>>,
             requests' \in 0..MaxRequests,
             {overlapped', twoDeletes', stale', seedFailed', torn'} \subseteq BOOLEAN
      PROVE  RequestInv'
  BY <1>1 DEF Serving
<1>2. ASSUME NEW l \in Logins, Login(q, l) PROVE RequestInv'
  <2> DEFINE x == [Off EXCEPT !.pc = "state", !.kind = "login", !.actor = l]
  <2>1. x \in Request /\ Shape(x)
    BY DEF Off, Request, PCs, Shape
  <2> HIDE DEF x
  <2>2. {overlapped', twoDeletes', stale', seedFailed', torn'} \subseteq BOOLEAN
    BY <1>2 DEF Login
  <2> QED
    BY <1>1, <1>2, <2>1, <2>2 DEF Login, x
<1>3. ASSUME NEW kind \in {"create", "set_role", "delete"}, NEW pc \in {"create", "load"},
             NEW a \in Logins, NEW l \in Logins, NEW role \in Roles \cup {"none"},
             kind = "create" => pc = "create" /\ role \in Roles,
             kind = "set_role" => pc = "load" /\ role \in Roles,
             kind = "delete" => pc = "load" /\ a # l,
             Admit(q, a, kind, pc, l, role)
      PROVE  RequestInv'
  <2> DEFINE x == [pc |-> pc, kind |-> kind, actor |-> a, target |-> l, role |-> role]
  <2>1. x \in Request /\ Shape(x)
    BY <1>3 DEF Request, PCs, Shape
  <2>2. req' = [req EXCEPT ![q] = x]
    BY <1>3 DEF Admit
  <2> HIDE DEF x
  <2>3. {overlapped', twoDeletes', stale', seedFailed', torn'} \subseteq BOOLEAN
    BY <1>3 DEF Admit
  <2>4. requests' \in 0..MaxRequests
    BY <1>3, BoundsAssumption DEF Admit
  <2> QED
    BY <1>1, <1>3, <2>1, <2>2, <2>3, <2>4 DEF Admit
<1>4. ASSUME NEW l \in Logins, NEW a \in Logins, Delete(q, a, l) PROVE RequestInv'
  BY <1>3, <1>4 DEF Delete
<1>5. ASSUME NEW l \in Logins, NEW a \in Logins, NEW role \in Roles,
             Create(q, a, l, role) \/ UpdateRole(q, a, l, role)
      PROVE  RequestInv'
  BY <1>3, <1>5 DEF Create, UpdateRole
<1> QED
  BY <1>2, <1>4, <1>5 DEF Arrive

\* A step of a request keeps its shape.
LEMMA StepRequest ==
    ASSUME RequestInv, NEW q \in Slots, Step(q) \/ LoginAbandoned(q) \/ RequestFails(q)
    PROVE  RequestInv'
<1> USE DEF RequestInv, TypeOK
<1>1. ASSUME req' \in [Slots -> Request], Shape(req'[q]),
             \A p \in Slots : p # q => req'[p] = req[p],
             Serving \/ req'[q].pc \in {"off", "state"},
             users' \in [Logins -> Roles \cup {"none"}], serve' = serve,
             browser' \in [Logins -> [session : Roles \cup {"none"}, csrf : BOOLEAN]],
             audit' \in (Logins \cup {"none"}) \X (Roles \cup {"none"}),
             faults' \in 0..MaxFaults, requests' = requests,
             {overlapped', twoDeletes', stale', seedFailed', torn'} \subseteq BOOLEAN
      PROVE  RequestInv'
  BY <1>1 DEF Serving
<1>2. req[q] \in Request /\ Shape(req[q])
  OBVIOUS
<1>3. req[q].pc \notin {"off", "state"} => Serving
  OBVIOUS
<1>4. CASE LoginAbandoned(q)
  BY <1>1, <1>4, RespondStep, OffType DEF LoginAbandoned, history
<1>5. CASE RequestFails(q)
  <2>1. faults' \in 0..MaxFaults
    BY <1>5, BoundsAssumption DEF RequestFails
  <2>2. CASE req[q].pc = "upsert"
    <3>1. Shape(req'[q])
      BY <1>2, <1>5, <2>2, GotoStep DEF RequestFails, Shape, PCs
    <3> QED
      BY <1>1, <1>3, <1>5, <2>1, <2>2, <3>1, GotoStep DEF RequestFails, history, PCs
  <2>3. CASE req[q].pc # "upsert"
    BY <1>1, <1>5, <2>1, <2>3, RespondStep, OffType DEF RequestFails, history
  <2> QED
    BY <2>2, <2>3
<1>6. CASE ResolveRole(q)
  <2>1. CASE ~Exists(req[q].actor)
    BY <1>1, <1>6, <2>1, RespondStep, OffType DEF ResolveRole, history
  <2>2. CASE Exists(req[q].actor)
    <3> DEFINE x == [req[q] EXCEPT !.pc = "upsert", !.role = users[req[q].actor]]
    <3>1. req' = [req EXCEPT ![q] = x] /\ Serving /\ req[q].pc = "state"
      BY <1>6, <2>2 DEF ResolveRole
    <3>2. users[req[q].actor] \in Roles
      BY <1>2, <2>2, <3>1 DEF Shape, Exists
    <3>3. x \in Request /\ Shape(x)
      BY <1>2, <3>1, <3>2 DEF Request, PCs, Shape
    <3> HIDE DEF x
    <3> QED
      BY <1>1, <1>6, <3>1, <3>3 DEF ResolveRole, history
  <2> QED
    BY <2>1, <2>2
<1>7. CASE UpsertUserOnLogin(q)
  <2>1. req[q].actor \in Logins /\ req[q].role \in Roles /\ req[q].pc = "upsert"
    BY <1>2, <1>7 DEF UpsertUserOnLogin, Shape
  <2>2. users' \in [Logins -> Roles \cup {"none"}]
    BY <1>7, <2>1, CreateUserStep DEF UpsertUserOnLogin
  <2>3. Shape(req'[q])
    BY <1>2, <1>7, <2>1, GotoStep DEF UpsertUserOnLogin, Shape, PCs
  <2> QED
    BY <1>1, <1>3, <1>7, <2>1, <2>2, <2>3, GotoStep DEF UpsertUserOnLogin, history, PCs
<1>8. CASE SetCookies(q)
  <2>1. req[q].actor \in Logins /\ req[q].role \in Roles
    BY <1>2, <1>8 DEF SetCookies, Shape
  <2>2. SignSession(req[q].role) \in [session : Roles \cup {"none"}, csrf : BOOLEAN]
    BY <2>1 DEF SignSession
  <2>3. browser' \in [Logins -> [session : Roles \cup {"none"}, csrf : BOOLEAN]]
    BY <1>8, <2>2 DEF SetCookies
  <2> QED
    BY <1>1, <1>8, <2>3, RespondStep, OffType DEF SetCookies, history
<1>9. CASE DoCreate(q)
  <2>1. req[q].target \in Logins /\ req[q].role \in Roles /\ req[q].pc = "create"
    BY <1>2, <1>9 DEF DoCreate, Shape
  <2>2. users' \in [Logins -> Roles \cup {"none"}]
    BY <1>9, <2>1, CreateUserStep DEF DoCreate
  <2>3. CASE Exists(req[q].target)
    BY <1>1, <1>9, <2>2, <2>3, RespondStep, OffType DEF DoCreate
  <2>4. CASE ~Exists(req[q].target)
    <3>1. Shape(req'[q])
      BY <1>2, <1>9, <2>1, <2>4, GotoStep DEF DoCreate, Shape, PCs
    <3> QED
      BY <1>1, <1>3, <1>9, <2>1, <2>2, <2>4, <3>1, GotoStep DEF DoCreate, PCs
  <2> QED
    BY <2>3, <2>4
<1>10. CASE LoadTarget(q)
  <2>1. CASE ~Exists(req[q].target)
    BY <1>1, <1>10, <2>1, RespondStep, OffType DEF LoadTarget, history
  <2>2. CASE Exists(req[q].target)
    <3>1. PICK pc \in {"remove", "count", "set"} :
              /\ Goto(q, pc)
              /\ pc = "remove" <=> req[q].kind = "delete"
      BY <1>10, <2>2 DEF LoadTarget
    <3>2. Shape(req'[q])
      BY <1>2, <1>10, <3>1, GotoStep DEF LoadTarget, Shape, PCs
    <3> QED
      BY <1>1, <1>3, <1>10, <3>1, <3>2, GotoStep DEF LoadTarget, history, PCs
  <2> QED
    BY <2>1, <2>2
<1>11. CASE GuardLastAdmin(q)
  <2>1. CASE Respond(q)
    BY <1>1, <1>11, <2>1, RespondStep, OffType DEF GuardLastAdmin, history
  <2>2. CASE Goto(q, "set")
    <3>1. Shape(req'[q])
      BY <1>2, <1>11, <2>2, GotoStep DEF GuardLastAdmin, Shape, PCs
    <3> QED
      BY <1>1, <1>3, <1>11, <2>2, <3>1, GotoStep DEF GuardLastAdmin, history, PCs
  <2> QED
    BY <1>11, <2>1, <2>2 DEF GuardLastAdmin
<1>12. CASE SetUserRole(q)
  <2>1. req[q].target \in Logins /\ req[q].role \in Roles /\ req[q].pc = "set"
    BY <1>2, <1>12 DEF SetUserRole, Shape
  <2>2. users' \in [Logins -> Roles \cup {"none"}]
    BY <1>12, <2>1 DEF SetUserRole
  <2>3. Shape(req'[q])
    BY <1>2, <1>12, <2>1, GotoStep DEF SetUserRole, Shape, PCs
  <2> QED
    BY <1>1, <1>3, <1>12, <2>1, <2>2, <2>3, GotoStep DEF SetUserRole, PCs
<1>13. CASE DeleteUserIfNotLast(q)
  <2>1. {overlapped', twoDeletes', stale', seedFailed', torn'} \subseteq BOOLEAN
    BY <1>13 DEF DeleteUserIfNotLast
  <2>2. CASE Respond(q)
    BY <1>1, <1>13, <2>1, <2>2, RespondStep, OffType DEF DeleteUserIfNotLast
  <2>3. CASE Goto(q, "deleting")
    <3>1. Shape(req'[q])
      BY <1>2, <1>13, <2>3, GotoStep DEF DeleteUserIfNotLast, Shape, PCs
    <3> QED
      BY <1>1, <1>3, <1>13, <2>1, <2>3, <3>1, GotoStep DEF DeleteUserIfNotLast, PCs
  <2> QED
    BY <1>13, <2>2, <2>3 DEF DeleteUserIfNotLast
<1>14. CASE DeleteCommits(q)
  <2>1. users' \in [Logins -> Roles \cup {"none"}]
    BY <1>14 DEF DeleteCommits
  <2>2. Shape(req'[q])
    BY <1>2, <1>14, GotoStep DEF DeleteCommits, Shape, PCs
  <2> QED
    BY <1>1, <1>3, <1>14, <2>1, <2>2, GotoStep DEF DeleteCommits, PCs
<1>15. CASE AuditLog(q)
  <2>1. audit' \in (Logins \cup {"none"}) \X (Roles \cup {"none"})
    BY <1>2, <1>15 DEF AuditLog, Request
  <2> QED
    BY <1>1, <1>15, <2>1, RespondStep, OffType DEF AuditLog, history
<1> QED
  BY <1>4, <1>5, <1>6, <1>7, <1>8, <1>9, <1>10, <1>11, <1>12, <1>13, <1>14, <1>15 DEF Step

\* Every step keeps requests well formed.
LEMMA NextRequest ==
    ASSUME RequestInv, [Next]_vars
    PROVE  RequestInv'
<1>1. CASE UNCHANGED vars
  BY <1>1 DEF vars, history, RequestInv, TypeOK, Serving
<1>2. ASSUME NEW l \in Logins, Logout(l) PROVE RequestInv'
  <2>1. browser' \in [Logins -> [session : Roles \cup {"none"}, csrf : BOOLEAN]]
    BY <1>2 DEF Logout, RequestInv, TypeOK, NoCookies
  <2> QED
    BY <1>2, <2>1 DEF Logout, history, RequestInv, TypeOK, Serving
<1> QED
  BY <1>1, <1>2, BootstrapRequest, CrashRequest, ArriveRequest, StepRequest DEF Next

-----------------------------------------------------------------------------
(* Who changes a role.                                                      *)

\* Steps that leave the table alone.
LEMMA TableUnchanged ==
    ASSUME [Next]_vars,
           ~(\E l \in Logins, ok \in BOOLEAN : SeedOne(l, ok)), ~Crash,
           ~(\E q \in Slots : UpsertUserOnLogin(q) \/ DoCreate(q) \/ SetUserRole(q)
                              \/ DeleteCommits(q))
    PROVE  users' = users
<1>1. ASSUME NEW q \in Slots, Arrive(q) PROVE users' = users
  BY <1>1 DEF Arrive, Login, Delete, Create, UpdateRole, Admit
<1>2. ASSUME NEW q \in Slots, LoginAbandoned(q) \/ RequestFails(q) PROVE users' = users
  BY <1>2 DEF LoginAbandoned, RequestFails
<1>3. ASSUME NEW q \in Slots, Step(q) PROVE users' = users
  BY <1>3 DEF Step, ResolveRole, SetCookies, LoadTarget, GuardLastAdmin,
              DeleteUserIfNotLast, AuditLog
<1>4. CASE Bootstrap \/ \E l \in Logins : Logout(l)
  BY <1>4 DEF Bootstrap, StartServe, FinishSeeding, Logout
<1> QED
  BY <1>1, <1>2, <1>3, <1>4 DEF Next, vars

\* What a step may do to the row of one login: nothing, an insert of a row that
\* was not there, the commit of a DELETE in progress, or the UPDATE that a
\* role change asked for.
RowChange(l) ==
    \/ users'[l] = users[l]
    \/ ~Exists(l)
    \/ Locked(l) /\ users'[l] = "none"
    \/ \E q \in Slots : /\ req[q].pc = "set" /\ req[q].target = l
                        /\ SetUserRole(q) /\ users'[l] = req[q].role

\* Every change of a row of app_user has one of the causes RowChange lists.
LEMMA RowChanges ==
    ASSUME RequestInv, [Next]_vars
    PROVE  \A l \in Logins : RowChange(l)
<1>1. TypeOK /\ \A q \in Slots : Shape(req[q])
  BY DEF RequestInv
<1>2. CASE users' = users
  BY <1>2 DEF RowChange
<1>3. ASSUME NEW l \in Logins, NEW ok \in BOOLEAN, SeedOne(l, ok)
      PROVE  \A x \in Logins : RowChange(x)
  <2>1. CASE users' = users
    BY <1>2, <2>1
  <2>2. CASE CreateUser(l, "admin") \/ CreateUser(l, "viewer")
    BY <1>1, <2>2, CreateUserStep DEF TypeOK, Roles, RowChange
  <2> QED
    BY <1>1, <1>3, <2>1, <2>2, SeedOneServe
<1>4. CASE Crash
  BY <1>4 DEF Crash, RowChange
<1>5. ASSUME NEW q \in Slots, UpsertUserOnLogin(q) PROVE \A x \in Logins : RowChange(x)
  <2>1. req[q].actor \in Logins /\ req[q].role \in Roles
    BY <1>1, <1>5 DEF UpsertUserOnLogin, Shape
  <2> QED
    BY <1>1, <1>5, <2>1, CreateUserStep DEF UpsertUserOnLogin, TypeOK, RowChange
<1>6. ASSUME NEW q \in Slots, DoCreate(q) PROVE \A x \in Logins : RowChange(x)
  <2>1. req[q].target \in Logins /\ req[q].role \in Roles
    BY <1>1, <1>6 DEF DoCreate, Shape
  <2> QED
    BY <1>1, <1>6, <2>1, CreateUserStep DEF DoCreate, TypeOK, RowChange
<1>7. ASSUME NEW q \in Slots, SetUserRole(q) PROVE \A x \in Logins : RowChange(x)
  BY <1>1, <1>7 DEF SetUserRole, TypeOK, RowChange
<1>8. ASSUME NEW q \in Slots, DeleteCommits(q) PROVE \A x \in Logins : RowChange(x)
  BY <1>1, <1>8 DEF DeleteCommits, TypeOK, RowChange, Locked
<1> QED
  BY <1>2, <1>3, <1>4, <1>5, <1>6, <1>7, <1>8, TableUnchanged

-----------------------------------------------------------------------------
(* A user remains.                                                          *)

\* The requests a step can leave in DELETE: those that were, and the one that
\* starts it, which found another user and notes whether it is the only DELETE.
LEMMA Deleting ==
    ASSUME RequestInv, [Next]_vars, NEW q \in Slots, req'[q].pc = "deleting"
    PROVE  \/ req'[q] = req[q]
           \/ /\ DeleteUserIfNotLast(q) /\ CountUsers > 1 /\ Exists(req[q].target)
              /\ req'[q].target = req[q].target
              /\ \A p \in Slots : p # q => req'[p] = req[p]
              /\ ~twoDeletes' => \A l \in Logins : ~Locked(l)
<1> SUFFICES ASSUME req'[q] # req[q]
             PROVE  /\ DeleteUserIfNotLast(q) /\ CountUsers > 1 /\ Exists(req[q].target)
                    /\ req'[q].target = req[q].target
                    /\ \A p \in Slots : p # q => req'[p] = req[p]
                    /\ ~twoDeletes' => \A l \in Logins : ~Locked(l)
  OBVIOUS
<1>1. req \in [Slots -> Request] /\ TypeOK
  BY DEF RequestInv, TypeOK
<1>2. ASSUME NEW p \in Slots, Respond(p) PROVE FALSE
  BY <1>1, <1>2, RespondStep
<1>3. ASSUME NEW p \in Slots, NEW pc \in PCs \ {"deleting"}, Goto(p, pc) PROVE FALSE
  BY <1>1, <1>3, GotoStep
<1>4. ASSUME NEW p \in Slots, Goto(p, "deleting") PROVE p = q
  BY <1>1, <1>4, GotoStep DEF PCs
<1>5. CASE \E p \in Slots : DeleteUserIfNotLast(p)
  <2>1. PICK p \in Slots : DeleteUserIfNotLast(p)
    BY <1>5
  <2>2. /\ p = q /\ Goto(q, "deleting") /\ CountUsers > 1 /\ Exists(req[q].target)
    BY <1>2, <1>4, <2>1 DEF DeleteUserIfNotLast
  <2>3. /\ req'[q].target = req[q].target
        /\ \A x \in Slots : x # q => req'[x] = req[x]
    BY <1>1, <2>2, GotoStep DEF PCs
  <2>4. ~twoDeletes' => \A l \in Logins : ~Locked(l)
    BY <2>1 DEF DeleteUserIfNotLast
  <2> QED
    BY <2>1, <2>2, <2>3, <2>4
<1>6. ASSUME NEW p \in Slots, ResolveRole(p) PROVE FALSE
  <2>1. req' = [req EXCEPT ![p] = [req[p] EXCEPT !.pc = "upsert", !.role = users[req[p].actor]]]
    BY <1>2, <1>6 DEF ResolveRole
  <2>2. [req[p] EXCEPT !.pc = "upsert", !.role = users[req[p].actor]].pc = "upsert"
    BY <1>1 DEF Request
  <2> QED
    BY <1>1, <2>1, <2>2
<1>7. ASSUME NEW p \in Slots, Arrive(p) PROVE FALSE
  <2>1. \E x : req' = [req EXCEPT ![p] = x] /\ x.pc \in {"state", "create", "load"}
    <3>1. ASSUME NEW l \in Logins, Login(p, l)
          PROVE  \E x : req' = [req EXCEPT ![p] = x] /\ x.pc \in {"state", "create", "load"}
      BY <3>1 DEF Login, Off
    <3>2. ASSUME NEW l, NEW a, NEW kind, NEW role, NEW pc \in {"create", "load"},
                 Admit(p, a, kind, pc, l, role)
          PROVE  \E x : req' = [req EXCEPT ![p] = x] /\ x.pc \in {"state", "create", "load"}
      BY <3>2 DEF Admit
    <3> QED
      BY <1>7, <3>1, <3>2 DEF Arrive, Delete, Create, UpdateRole
  <2> QED
    BY <1>1, <2>1
<1>8. CASE Crash
  BY <1>8, OffType DEF Crash
<1>9. ASSUME NEW p \in Slots, LoadTarget(p) PROVE FALSE
  <2>1. \E pc \in PCs \ {"deleting"} : Goto(p, pc)
    BY <1>2, <1>9 DEF LoadTarget, PCs
  <2> QED
    BY <1>3, <2>1
<1>10. ASSUME NEW p \in Slots,
              LoginAbandoned(p) \/ UpsertUserOnLogin(p) \/ SetCookies(p) \/ DoCreate(p)
              \/ GuardLastAdmin(p) \/ SetUserRole(p) \/ DeleteCommits(p) \/ AuditLog(p)
              \/ RequestFails(p)
       PROVE  FALSE
  BY <1>2, <1>3, <1>10
  DEF LoginAbandoned, UpsertUserOnLogin, SetCookies, DoCreate, GuardLastAdmin,
      SetUserRole, DeleteCommits, AuditLog, RequestFails, PCs
<1> QED
  BY <1>5, <1>6, <1>7, <1>8, <1>9, <1>10
  DEF Next, vars, Bootstrap, StartServe, FinishSeeding, SeedOne, Logout, Step

\* A row that no DELETE has locked stays.
LEMMA RowStays ==
    ASSUME RequestInv, [Next]_vars, NEW l \in Logins, Exists(l), ~Locked(l)
    PROVE  Exists(l)'
<1>1. RowChange(l)
  BY RowChanges
<1>2. \A q \in Slots : req[q].pc = "set" => req[q].role \in Roles
  BY DEF RequestInv, Shape
<1> QED
  BY <1>1, <1>2 DEF RowChange, Exists, Roles

\* The process changes in the bootstrap and by crashing only.
LEMMA ServeChange ==
    ASSUME [Next]_vars
    PROVE  \/ serve' = serve \/ StartServe \/ FinishSeeding \/ Crash
           \/ \E l \in Logins, ok \in BOOLEAN : SeedOne(l, ok)
<1>1. ASSUME NEW q \in Slots, Arrive(q) PROVE serve' = serve
  BY <1>1 DEF Arrive, Login, Delete, Create, UpdateRole, Admit
<1>2. ASSUME NEW q \in Slots, LoginAbandoned(q) \/ RequestFails(q) PROVE serve' = serve
  BY <1>2 DEF LoginAbandoned, RequestFails
<1>3. ASSUME NEW q \in Slots, Step(q) PROVE serve' = serve
  BY <1>3 DEF Step, ResolveRole, UpsertUserOnLogin, SetCookies, DoCreate, LoadTarget,
              GuardLastAdmin, SetUserRole, DeleteUserIfNotLast, DeleteCommits, AuditLog
<1>4. ASSUME NEW l \in Logins, Logout(l) PROVE serve' = serve
  BY <1>4 DEF Logout
<1> QED
  BY <1>1, <1>2, <1>3, <1>4 DEF Next, vars, Bootstrap

\* What the history variables have recorded stays recorded.
LEMMA HistoryStays ==
    ASSUME [Next]_vars
    PROVE  /\ overlapped => overlapped'
           /\ twoDeletes => twoDeletes'
           /\ stale => stale'
           /\ seedFailed => seedFailed'
           /\ torn => torn'
<1> USE DEF history
<1>1. CASE UNCHANGED history
  BY <1>1
<1>2. ASSUME NEW l \in Logins, NEW ok \in BOOLEAN, SeedOne(l, ok)
      PROVE  UNCHANGED <<overlapped, twoDeletes, stale, torn>> /\ (seedFailed => seedFailed')
  BY <1>2 DEF SeedOne
<1>3. CASE Crash
  BY <1>3 DEF Crash
<1>4. ASSUME NEW q \in Slots, NEW l \in Logins, Login(q, l)
      PROVE  UNCHANGED <<twoDeletes, stale, seedFailed, torn>> /\ (overlapped => overlapped')
  BY <1>4 DEF Login
<1>5. ASSUME NEW q, NEW a, NEW kind, NEW pc, NEW l, NEW role, Admit(q, a, kind, pc, l, role)
      PROVE  /\ UNCHANGED <<twoDeletes, seedFailed, torn>>
             /\ (overlapped => overlapped') /\ (stale => stale')
  BY <1>5 DEF Admit
<1>6. ASSUME NEW q \in Slots, DeleteUserIfNotLast(q)
      PROVE  UNCHANGED <<overlapped, stale, seedFailed, torn>> /\ (twoDeletes => twoDeletes')
  BY <1>6 DEF DeleteUserIfNotLast
<1>7. ASSUME NEW q \in Slots, Step(q), ~DeleteUserIfNotLast(q) PROVE UNCHANGED history
  BY <1>7 DEF Step, ResolveRole, UpsertUserOnLogin, SetCookies, DoCreate, LoadTarget,
              GuardLastAdmin, SetUserRole, DeleteCommits, AuditLog
<1>8. ASSUME NEW q \in Slots, LoginAbandoned(q) \/ RequestFails(q) PROVE UNCHANGED history
  BY <1>8 DEF LoginAbandoned, RequestFails
<1>9. ASSUME NEW l \in Logins, Logout(l) PROVE UNCHANGED history
  BY <1>9 DEF Logout
<1>10. CASE StartServe \/ FinishSeeding
  BY <1>10 DEF StartServe, FinishSeeding
<1>11. CASE UNCHANGED vars
  BY <1>11 DEF vars
<1>12. ASSUME NEW q \in Slots, Arrive(q)
       PROVE  /\ UNCHANGED <<twoDeletes, seedFailed, torn>>
              /\ (overlapped => overlapped') /\ (stale => stale')
  BY <1>4, <1>5, <1>12 DEF Arrive, Delete, Create, UpdateRole
<1> QED
  BY <1>1, <1>2, <1>3, <1>6, <1>7, <1>8, <1>9, <1>10, <1>11, <1>12 DEF Next, Bootstrap

\* Every step leaves a user whom no DELETE in progress touches.
LEMMA NextUser ==
    ASSUME RequestInv, UserInv, [Next]_vars
    PROVE  UserInv'
<1>1. TypeOK /\ serve \in Process
  BY DEF RequestInv, TypeOK
<1>2. ~Serving => \A l \in Logins : ~Locked(l)
  BY DEF RequestInv, Locked
<1>3. ASSUME NEW l \in Logins, Exists(l), ~Serving PROVE Exists(l)'
  BY <1>2, <1>3, RowStays
<1>4. ASSUME AdminLogins # {}, serve' = serve, ~twoDeletes', Serving'
      PROVE  \E l \in Logins : SafeUser(l)'
  <2>1. Serving /\ ~twoDeletes
    BY <1>4, HistoryStays DEF Serving
  <2>2. PICK l \in Logins : SafeUser(l)
    BY <1>4, <2>1 DEF UserInv
  <2>3. CASE \A q \in Slots : req'[q].pc = "deleting" => req'[q] = req[q]
    <3>1. Locked(l)' => Locked(l)
      BY <2>3 DEF Locked
    <3> QED
      BY <2>2, <3>1, RowStays DEF SafeUser
  <2>4. ASSUME NEW q \in Slots, req'[q].pc = "deleting", req'[q] # req[q]
        PROVE  \E x \in Logins : SafeUser(x)'
    <3>1. /\ DeleteUserIfNotLast(q) /\ CountUsers > 1
          /\ req'[q].target = req[q].target
          /\ \A p \in Slots : p # q => req'[p] = req[p]
          /\ \A x \in Logins : ~Locked(x)
      BY <1>4, <2>4, Deleting
    <3>2. PICK x \in Logins : Exists(x) /\ x # req[q].target
      BY <3>1, Counts
    <3>3. ~Locked(x)'
      BY <3>1, <3>2 DEF Locked
    <3>4. Exists(x)'
      BY <3>1, <3>2, RowStays
    <3> QED
      BY <3>3, <3>4 DEF SafeUser
  <2> QED
    BY <2>3, <2>4
<1>5. ASSUME serve' = serve, serve'.pc = "seeding", serve'.seeded
      PROVE  \E l \in Logins : Exists(l)'
  BY <1>3, <1>5 DEF UserInv, Serving
<1>6. ASSUME ~Serving, users' = users, req' = req, NEW x \in Logins, Exists(x)
      PROVE  SafeUser(x)'
  BY <1>2, <1>6 DEF SafeUser, Exists, Locked
<1>7. CASE serve' = serve
  BY <1>4, <1>5, <1>7 DEF UserInv
<1>8. CASE StartServe
  <2>1. ~Serving /\ users' = users /\ req' = req
    BY <1>8 DEF StartServe, Serving
  <2>2. Serving' => \E x \in Logins : Exists(x)
    BY <1>8, Counts DEF StartServe, Serving
  <2>3. ~(serve'.pc = "seeding" /\ serve'.seeded)
    BY <1>8 DEF StartServe, Down
  <2> QED
    BY <1>6, <2>1, <2>2, <2>3 DEF UserInv
<1>9. CASE FinishSeeding
  <2>1. ~Serving /\ users' = users /\ req' = req /\ serve.pc = "seeding"
    BY <1>9 DEF FinishSeeding, Serving
  <2>2. AdminLogins # {} /\ Serving' => \E x \in Logins : Exists(x)
    BY <1>9, <2>1 DEF FinishSeeding, Serving, UserInv, Down
  <2>3. serve'.pc # "seeding"
    BY <1>9 DEF FinishSeeding, Down
  <2> QED
    BY <1>6, <2>1, <2>2, <2>3 DEF UserInv
<1>10. CASE Crash
  BY <1>10 DEF Crash, Down, UserInv, Serving
<1>11. ASSUME NEW l \in Logins, NEW ok \in BOOLEAN, SeedOne(l, ok) PROVE UserInv'
  <2>1. serve.pc = "seeding" /\ serve'.pc = "seeding"
    BY <1>1, <1>11, SeedOneServe
  <2>2. CASE serve.seeded
    <3>1. PICK x \in Logins : Exists(x)
      BY <2>1, <2>2 DEF UserInv
    <3> QED
      BY <1>3, <2>1, <3>1 DEF UserInv, Serving
  <2>3. CASE ~serve.seeded /\ serve'.seeded
    <3>1. CreateUser(l, "admin")
      BY <1>1, <1>11, <2>3, SeedOneServe
    <3>2. Exists(l)'
      BY <1>1, <3>1, CreateUserStep DEF TypeOK, Roles, Exists
    <3> QED
      BY <2>1, <3>2 DEF UserInv, Serving
  <2> QED
    BY <2>1, <2>2, <2>3 DEF UserInv, Serving
<1> QED
  BY <1>7, <1>8, <1>9, <1>10, <1>11, ServeChange

-----------------------------------------------------------------------------
(* An admin remains.                                                        *)

\* A step of a request in flight, which is the only one.
LEMMA StepAdmin ==
    ASSUME RequestInv, OneAtATime, TableHasAdmin,
           \A p \in Slots : DeleterIsAdmin(p) /\ RoleLeavesAdmin(p),
           NEW q \in Slots, Step(q) \/ LoginAbandoned(q) \/ RequestFails(q)
    PROVE  /\ OneAtATime' /\ TableHasAdmin'
           /\ \A p \in Slots : DeleterIsAdmin(p)' /\ RoleLeavesAdmin(p)'
<1>1. /\ TypeOK /\ req \in [Slots -> Request] /\ req[q] \in Request
      /\ Shape(req[q]) /\ users \in [Logins -> Roles \cup {"none"}]
      /\ ~Serving => req[q].pc \in {"off", "state"}
  BY DEF RequestInv, TypeOK
<1>2. req[q].pc # "off"
  BY DEF Step, LoginAbandoned, RequestFails, ResolveRole, UpsertUserOnLogin, SetCookies,
         DoCreate, LoadTarget, GuardLastAdmin, SetUserRole, DeleteUserIfNotLast,
         DeleteCommits, AuditLog
<1>3. \A p \in Slots : p # q => req[p].pc = "off"
  BY <1>2 DEF OneAtATime
<1>4. ASSUME \A p \in Slots : p # q => req'[p] = req[p],
             DeleterIsAdmin(q)', RoleLeavesAdmin(q)', TableHasAdmin'
      PROVE  /\ OneAtATime' /\ TableHasAdmin'
             /\ \A p \in Slots : DeleterIsAdmin(p)' /\ RoleLeavesAdmin(p)'
  <2>1. \A p \in Slots : p # q => req'[p].pc = "off"
    BY <1>3, <1>4
  <2>2. \A p \in Slots : p # q => DeleterIsAdmin(p)' /\ RoleLeavesAdmin(p)'
    BY <2>1 DEF DeleterIsAdmin, RoleLeavesAdmin
  <2> QED
    BY <1>4, <2>1, <2>2 DEF OneAtATime
<1>5. ASSUME users' = users, serve' = serve PROVE TableHasAdmin'
  BY <1>5 DEF TableHasAdmin, Serving, Exists, IsAdmin
<1>6. ASSUME serve' = serve, Serving, \E l \in Logins : IsAdmin(l)'
      PROVE  TableHasAdmin'
  BY <1>6 DEF TableHasAdmin, Serving
<1>7. ASSUME Respond(q), TableHasAdmin'
      PROVE  /\ OneAtATime' /\ TableHasAdmin'
             /\ \A p \in Slots : DeleterIsAdmin(p)' /\ RoleLeavesAdmin(p)'
  <2>1. req'[q].pc = "off" /\ \A p \in Slots : p # q => req'[p] = req[p]
    BY <1>1, <1>7, RespondStep
  <2>2. DeleterIsAdmin(q)' /\ RoleLeavesAdmin(q)'
    BY <2>1 DEF DeleterIsAdmin, RoleLeavesAdmin
  <2> QED
    BY <1>4, <1>7, <2>1, <2>2
<1>8. ASSUME NEW pc \in PCs \ {"load", "remove", "deleting", "set"}, Goto(q, pc),
             TableHasAdmin'
      PROVE  /\ OneAtATime' /\ TableHasAdmin'
             /\ \A p \in Slots : DeleterIsAdmin(p)' /\ RoleLeavesAdmin(p)'
  <2>1. req'[q].pc = pc /\ \A p \in Slots : p # q => req'[p] = req[p]
    BY <1>1, <1>8, GotoStep
  <2>2. DeleterIsAdmin(q)' /\ RoleLeavesAdmin(q)'
    BY <1>8, <2>1 DEF DeleterIsAdmin, RoleLeavesAdmin
  <2> QED
    BY <1>4, <1>8, <2>1, <2>2
<1>9. ASSUME NEW pc \in {"remove", "deleting", "set"}, Goto(q, pc),
             users' = users, serve' = serve,
             pc \in {"remove", "deleting"} => req[q].pc \in {"load", "remove"},
             pc = "set" => \/ req[q].role = "admin"
                           \/ \E l \in Logins : l # req[q].target /\ IsAdmin(l)
      PROVE  /\ OneAtATime' /\ TableHasAdmin'
             /\ \A p \in Slots : DeleterIsAdmin(p)' /\ RoleLeavesAdmin(p)'
  <2>1. /\ req'[q].pc = pc /\ req'[q].kind = req[q].kind
        /\ req'[q].actor = req[q].actor /\ req'[q].target = req[q].target
        /\ req'[q].role = req[q].role
        /\ \A p \in Slots : p # q => req'[p] = req[p]
    BY <1>1, <1>9, GotoStep DEF PCs
  <2>2. DeleterIsAdmin(q)'
    BY <1>9, <2>1 DEF DeleterIsAdmin, IsAdmin
  <2>3. RoleLeavesAdmin(q)'
    BY <1>9, <2>1 DEF RoleLeavesAdmin, IsAdmin
  <2> QED
    BY <1>4, <1>5, <1>9, <2>1, <2>2, <2>3
<1>10. CASE LoginAbandoned(q)
  BY <1>5, <1>7, <1>10 DEF LoginAbandoned
<1>11. CASE RequestFails(q)
  <2>1. Respond(q) \/ Goto(q, "cookies")
    BY <1>11 DEF RequestFails
  <2> QED
    BY <1>5, <1>7, <1>8, <1>11, <2>1 DEF RequestFails, PCs
<1>12. CASE ResolveRole(q)
  <2>1. users' = users /\ serve' = serve
    BY <1>12 DEF ResolveRole
  <2>2. CASE ~Exists(req[q].actor)
    BY <1>5, <1>7, <1>12, <2>1, <2>2 DEF ResolveRole
  <2>3. CASE Exists(req[q].actor)
    <3> DEFINE x == [req[q] EXCEPT !.pc = "upsert", !.role = users[req[q].actor]]
    <3>1. req' = [req EXCEPT ![q] = x]
      BY <1>12, <2>3 DEF ResolveRole
    <3>2. x.pc = "upsert"
      BY <1>1 DEF Request
    <3> HIDE DEF x
    <3>3. req'[q].pc = "upsert" /\ \A p \in Slots : p # q => req'[p] = req[p]
      BY <1>1, <3>1, <3>2
    <3>4. DeleterIsAdmin(q)' /\ RoleLeavesAdmin(q)'
      BY <3>3 DEF DeleterIsAdmin, RoleLeavesAdmin
    <3> QED
      BY <1>4, <1>5, <2>1, <3>3, <3>4
  <2> QED
    BY <2>2, <2>3
<1>13. CASE UpsertUserOnLogin(q)
  <2>1. req[q].actor \in Logins /\ req[q].role \in Roles /\ Serving
    BY <1>1, <1>13 DEF UpsertUserOnLogin, Shape
  <2>2. \A x \in Logins : Exists(x) => users'[x] = users[x]
    BY <1>1, <1>13, <2>1, CreateUserStep DEF UpsertUserOnLogin
  <2>3. \E l \in Logins : IsAdmin(l)'
    BY <2>1, <2>2 DEF TableHasAdmin, IsAdmin, Exists
  <2> QED
    BY <1>6, <1>8, <1>13, <2>1, <2>3 DEF UpsertUserOnLogin, PCs
<1>14. CASE SetCookies(q) \/ AuditLog(q)
  BY <1>5, <1>7, <1>14 DEF SetCookies, AuditLog
<1>15. CASE DoCreate(q)
  <2>1. req[q].target \in Logins /\ req[q].role \in Roles /\ Serving
    BY <1>1, <1>15 DEF DoCreate, Shape
  <2>2. \A x \in Logins : Exists(x) => users'[x] = users[x]
    BY <1>1, <1>15, <2>1, CreateUserStep DEF DoCreate
  <2>3. \E l \in Logins : IsAdmin(l)'
    BY <2>1, <2>2 DEF TableHasAdmin, IsAdmin, Exists
  <2>4. Respond(q) \/ Goto(q, "audit")
    BY <1>15 DEF DoCreate
  <2> QED
    BY <1>6, <1>7, <1>8, <1>15, <2>1, <2>3, <2>4 DEF DoCreate, PCs
<1>16. CASE LoadTarget(q)
  <2>1. users' = users /\ serve' = serve /\ req[q].pc = "load"
    BY <1>16 DEF LoadTarget
  <2>2. CASE Respond(q)
    BY <1>5, <1>7, <2>1, <2>2
  <2>3. CASE Goto(q, "remove") \/ Goto(q, "count")
    BY <1>5, <1>8, <1>9, <2>1, <2>3 DEF PCs
  <2>4. CASE Goto(q, "set") /\ ~(users[req[q].target] = "admin" /\ req[q].role # "admin")
    <3>1. Serving
      BY <1>1, <2>1
    <3>2. req[q].role = "admin" \/ \E l \in Logins : l # req[q].target /\ IsAdmin(l)
      BY <2>4, <3>1 DEF TableHasAdmin, IsAdmin
    <3> QED
      BY <1>9, <2>1, <2>4, <3>2
  <2> QED
    BY <1>16, <2>2, <2>3, <2>4 DEF LoadTarget
<1>17. CASE GuardLastAdmin(q)
  <2>1. users' = users /\ serve' = serve
    BY <1>17 DEF GuardLastAdmin
  <2>2. CASE Respond(q)
    BY <1>5, <1>7, <2>1, <2>2
  <2>3. CASE ~(CountAdmins <= 1) /\ Goto(q, "set")
    <3>1. \E l \in Logins : l # req[q].target /\ IsAdmin(l)
      BY <2>3, Counts
    <3> QED
      BY <1>9, <2>1, <2>3, <3>1
  <2> QED
    BY <1>17, <2>2, <2>3 DEF GuardLastAdmin
<1>18. CASE SetUserRole(q)
  <2>1. req[q].target \in Logins /\ req[q].role \in Roles /\ Serving
    BY <1>1, <1>18 DEF SetUserRole, Shape
  <2>2. req[q].role = "admin" \/ \E l \in Logins : l # req[q].target /\ IsAdmin(l)
    BY <1>18 DEF SetUserRole, RoleLeavesAdmin
  <2>3. \E l \in Logins : IsAdmin(l)'
    BY <1>1, <1>18, <2>1, <2>2 DEF SetUserRole, TableHasAdmin, IsAdmin
  <2> QED
    BY <1>6, <1>8, <1>18, <2>1, <2>3 DEF SetUserRole, PCs
<1>19. CASE DeleteUserIfNotLast(q)
  <2>1. Respond(q) \/ Goto(q, "deleting")
    BY <1>19 DEF DeleteUserIfNotLast
  <2> QED
    BY <1>5, <1>7, <1>9, <1>19, <2>1 DEF DeleteUserIfNotLast
<1>20. CASE DeleteCommits(q)
  <2>1. /\ req[q].actor \in Logins /\ req[q].target # req[q].actor /\ Serving
        /\ IsAdmin(req[q].actor)
    BY <1>1, <1>20 DEF DeleteCommits, Shape, DeleterIsAdmin
  <2>2. \E l \in Logins : IsAdmin(l)'
    BY <1>1, <1>20, <2>1 DEF DeleteCommits, IsAdmin
  <2> QED
    BY <1>6, <1>8, <1>20, <2>1, <2>2 DEF DeleteCommits, PCs
<1> QED
  BY <1>10, <1>11, <1>12, <1>13, <1>14, <1>15, <1>16, <1>17, <1>18, <1>19, <1>20 DEF Step

\* A request that arrives alone, from an admin.
LEMMA ArriveAdmin ==
    ASSUME RequestInv, OneAtATime, TableHasAdmin, NEW q \in Slots, Arrive(q),
           ~overlapped', ~stale'
    PROVE  /\ OneAtATime' /\ TableHasAdmin'
           /\ \A p \in Slots : DeleterIsAdmin(p)' /\ RoleLeavesAdmin(p)'
<1>1. req \in [Slots -> Request]
  BY DEF RequestInv, TypeOK
<1>2. ASSUME NEW x, req' = [req EXCEPT ![q] = x], InFlight = {},
             UNCHANGED <<users, serve>>, x.pc # "set",
             x.pc \in {"load", "remove", "deleting"} /\ x.kind = "delete" =>
                 IsAdmin(x.actor)
      PROVE  /\ OneAtATime' /\ TableHasAdmin'
             /\ \A p \in Slots : DeleterIsAdmin(p)' /\ RoleLeavesAdmin(p)'
  <2>1. req'[q] = x /\ \A p \in Slots : p # q => req'[p].pc = "off"
    BY <1>1, <1>2 DEF InFlight
  <2>2. DeleterIsAdmin(q)' /\ RoleLeavesAdmin(q)'
    BY <1>2, <2>1 DEF DeleterIsAdmin, RoleLeavesAdmin, IsAdmin
  <2>3. \A p \in Slots : p # q => DeleterIsAdmin(p)' /\ RoleLeavesAdmin(p)'
    BY <2>1 DEF DeleterIsAdmin, RoleLeavesAdmin
  <2>4. OneAtATime'
    BY <2>1 DEF OneAtATime
  <2>5. TableHasAdmin'
    BY <1>2 DEF TableHasAdmin, Serving, Exists, IsAdmin
  <2> QED
    BY <2>2, <2>3, <2>4, <2>5
<1>3. ASSUME NEW l \in Logins, Login(q, l)
      PROVE  /\ OneAtATime' /\ TableHasAdmin'
             /\ \A p \in Slots : DeleterIsAdmin(p)' /\ RoleLeavesAdmin(p)'
  <2> DEFINE x == [Off EXCEPT !.pc = "state", !.kind = "login", !.actor = l]
  <2>1. x.pc = "state"
    BY DEF Off
  <2>2. req' = [req EXCEPT ![q] = x] /\ InFlight = {} /\ UNCHANGED <<users, serve>>
    BY <1>3 DEF Login
  <2> HIDE DEF x
  <2> QED
    BY <1>2, <2>1, <2>2
<1>4. ASSUME NEW l, NEW a, NEW kind, NEW role, NEW pc \in {"create", "load"},
             Admit(q, a, kind, pc, l, role)
      PROVE  /\ OneAtATime' /\ TableHasAdmin'
             /\ \A p \in Slots : DeleterIsAdmin(p)' /\ RoleLeavesAdmin(p)'
  <2> DEFINE x == [pc |-> pc, kind |-> kind, actor |-> a, target |-> l, role |-> role]
  <2>1. req' = [req EXCEPT ![q] = x] /\ InFlight = {} /\ UNCHANGED <<users, serve>>
    BY <1>4 DEF Admit
  <2>2. x.pc # "set" /\ IsAdmin(x.actor)
    BY <1>4 DEF Admit, IsAdmin
  <2> HIDE DEF x
  <2> QED
    BY <1>2, <2>1, <2>2
<1> QED
  BY <1>3, <1>4 DEF Arrive, Delete, Create, UpdateRole

\* Every step leaves an admin.
LEMMA NextAdmin ==
    ASSUME RequestInv, AdminInv, [Next]_vars
    PROVE  AdminInv'
<1> SUFFICES ASSUME Steady'
             PROVE  /\ OneAtATime' /\ TableHasAdmin'
                    /\ \A p \in Slots : DeleterIsAdmin(p)' /\ RoleLeavesAdmin(p)'
  BY DEF AdminInv
<1>1. /\ TypeOK /\ serve \in Process /\ req \in [Slots -> Request]
      /\ \A q \in Slots : Shape(req[q])
  BY DEF RequestInv, TypeOK
<1>2. Steady
  BY HistoryStays DEF Steady
<1>3. /\ OneAtATime /\ TableHasAdmin
      /\ \A p \in Slots : DeleterIsAdmin(p) /\ RoleLeavesAdmin(p)
  BY <1>2 DEF AdminInv
<1>4. ~Serving => \A q \in Slots : req[q].pc \in {"off", "state"}
  BY DEF RequestInv
<1>5. ASSUME req' = req, users' = users, TableHasAdmin'
      PROVE  /\ OneAtATime' /\ TableHasAdmin'
             /\ \A p \in Slots : DeleterIsAdmin(p)' /\ RoleLeavesAdmin(p)'
  BY <1>3, <1>5 DEF OneAtATime, DeleterIsAdmin, RoleLeavesAdmin, IsAdmin
<1>6. ASSUME \A q \in Slots : req'[q].pc \in {"off", "state"}, OneAtATime', TableHasAdmin'
      PROVE  /\ OneAtATime' /\ TableHasAdmin'
             /\ \A p \in Slots : DeleterIsAdmin(p)' /\ RoleLeavesAdmin(p)'
  BY <1>6 DEF DeleterIsAdmin, RoleLeavesAdmin
<1>7. CASE UNCHANGED vars \/ \E l \in Logins : Logout(l)
  <2>1. UNCHANGED <<users, req, serve>>
    BY <1>7 DEF vars, Logout
  <2>2. TableHasAdmin'
    BY <1>3, <2>1 DEF TableHasAdmin, Serving, Exists, IsAdmin
  <2> QED
    BY <1>5, <2>1, <2>2
<1>8. CASE StartServe
  <2>1. UNCHANGED <<users, req>> /\ serve.pc = "down"
    BY <1>8 DEF StartServe
  <2>2. CASE CountUsers = 0
    <3>1. \A l \in Logins : ~Exists(l)
      BY <2>2, Counts
    <3>2. serve'.pc = "seeding" /\ serve'.admins = AdminLogins
      BY <1>8, <2>2 DEF StartServe
    <3>3. TableHasAdmin'
      BY <2>1, <3>1, <3>2 DEF TableHasAdmin, Serving, Exists
    <3> QED
      BY <1>5, <2>1, <3>3
  <2>3. CASE CountUsers # 0
    <3>1. \E l \in Logins : IsAdmin(l)
      BY <1>3, <2>1, <2>3, Counts DEF TableHasAdmin
    <3>2. serve'.pc = "serving"
      BY <1>8, <2>3 DEF StartServe, Down
    <3>3. TableHasAdmin'
      BY <2>1, <3>1, <3>2 DEF TableHasAdmin, IsAdmin
    <3> QED
      BY <1>5, <2>1, <3>3
  <2> QED
    BY <2>2, <2>3
<1>9. CASE FinishSeeding
  <2>1. UNCHANGED <<users, req>> /\ serve.pc = "seeding" /\ serve.admins = {}
    BY <1>9 DEF FinishSeeding
  <2>2. \E l \in Logins : IsAdmin(l)
    BY <1>3, <2>1, <1>2 DEF TableHasAdmin, Steady
  <2>3. serve'.pc # "seeding"
    BY <1>9 DEF FinishSeeding, Down
  <2>4. TableHasAdmin'
    BY <2>1, <2>2, <2>3 DEF TableHasAdmin, IsAdmin
  <2> QED
    BY <1>5, <2>1, <2>4
<1>10. ASSUME NEW l \in Logins, NEW ok \in BOOLEAN, SeedOne(l, ok)
       PROVE  /\ OneAtATime' /\ TableHasAdmin'
              /\ \A p \in Slots : DeleterIsAdmin(p)' /\ RoleLeavesAdmin(p)'
  <2>1. ok /\ req' = req
    BY <1>10 DEF SeedOne, Steady
  <2>2. serve.pc = "seeding" /\ serve'.pc = "seeding"
    BY <1>1, <1>10, SeedOneServe
  <2>3. \A q \in Slots : req'[q].pc \in {"off", "state"}
    BY <1>4, <2>1, <2>2 DEF Serving
  <2>4. OneAtATime'
    BY <1>3, <2>1 DEF OneAtATime
  <2>5. CASE l \in serve.admins /\ serve'.admins = serve.admins \ {l} /\ CreateUser(l, "admin")
    <3>1. \A x \in Logins : Exists(x) => IsAdmin(x)
      BY <1>3, <2>2, <2>5 DEF TableHasAdmin
    <3>2. IsAdmin(l)' /\ \A x \in Logins : x # l => users'[x] = users[x]
      BY <1>1, <2>5, <3>1, CreateUserStep DEF TypeOK, Roles, IsAdmin, Exists
    <3>3. serve'.admins # AdminLogins
      BY <1>1, <2>5 DEF Process
    <3>4. \A x \in Logins : Exists(x)' => IsAdmin(x)'
      BY <3>1, <3>2 DEF Exists, IsAdmin
    <3>5. TableHasAdmin'
      BY <2>2, <3>2, <3>3, <3>4 DEF TableHasAdmin, Serving
    <3> QED
      BY <1>6, <2>3, <2>4, <3>5
  <2>6. CASE serve.admins = {} /\ serve'.admins = {} /\ CreateUser(l, "viewer")
    <3>1. \E x \in Logins : IsAdmin(x)
      BY <1>3, <2>2, <2>6, <1>2 DEF TableHasAdmin, Steady
    <3>2. \A x \in Logins : Exists(x) => users'[x] = users[x]
      BY <1>1, <2>6, CreateUserStep DEF TypeOK, Roles
    <3>3. \E x \in Logins : IsAdmin(x)'
      BY <3>1, <3>2 DEF IsAdmin, Exists
    <3>4. TableHasAdmin'
      BY <2>2, <2>6, <3>3, <1>2 DEF TableHasAdmin, Serving, Steady
    <3> QED
      BY <1>6, <2>3, <2>4, <3>4
  <2> QED
    BY <1>1, <1>10, <2>1, <2>5, <2>6, SeedOneServe
<1>11. CASE Crash
  <2>1. /\ serve'.pc = "down" /\ req' = [q \in Slots |-> IF req[q].pc = "state" THEN req[q] ELSE Off]
        /\ \A l \in Logins : ~Locked(l) => users'[l] = users[l]
        /\ \A l \in Logins : users'[l] \in {users[l], "none"}
    BY <1>11 DEF Crash, Down
  <2>2. \A q \in Slots : req'[q].pc \in {"off", "state"}
    BY <2>1, OffType
  <2>3. OneAtATime'
    BY <1>3, <2>1, OffType DEF OneAtATime
  <2>4. CASE \A l \in Logins : ~Locked(l)
    <3>1. \A l \in Logins : users'[l] = users[l]
      BY <2>1, <2>4
    <3>2. serve.pc \in {"down", "seeding", "serving"}
      BY <1>1 DEF Process
    <3>3. (\A l \in Logins : ~Exists(l)) \/ (\E l \in Logins : IsAdmin(l))
      BY <1>3, <3>2 DEF TableHasAdmin, Serving
    <3>4. TableHasAdmin'
      BY <2>1, <3>1, <3>3 DEF TableHasAdmin, Serving, IsAdmin, Exists
    <3> QED
      BY <1>6, <2>2, <2>3, <3>4
  <2>5. CASE \E l \in Logins : Locked(l)
    <3>1. PICK q \in Slots : req[q].pc = "deleting"
      BY <2>5 DEF Locked
    <3>2. /\ req[q].actor \in Logins /\ req[q].actor # req[q].target
          /\ IsAdmin(req[q].actor)
      BY <1>1, <1>3, <3>1 DEF Shape, DeleterIsAdmin
    <3>3. ~Locked(req[q].actor)
      BY <1>3, <3>1, <3>2 DEF Locked, OneAtATime
    <3>4. \E l \in Logins : IsAdmin(l)'
      BY <2>1, <3>2, <3>3 DEF IsAdmin
    <3>5. TableHasAdmin'
      BY <2>1, <3>4 DEF TableHasAdmin, Serving
    <3> QED
      BY <1>6, <2>2, <2>3, <3>5
  <2> QED
    BY <2>4, <2>5
<1>12. ASSUME NEW q \in Slots, Arrive(q)
       PROVE  /\ OneAtATime' /\ TableHasAdmin'
              /\ \A p \in Slots : DeleterIsAdmin(p)' /\ RoleLeavesAdmin(p)'
  BY <1>3, <1>12, ArriveAdmin DEF Steady
<1>13. ASSUME NEW q \in Slots, Step(q) \/ LoginAbandoned(q) \/ RequestFails(q)
       PROVE  /\ OneAtATime' /\ TableHasAdmin'
              /\ \A p \in Slots : DeleterIsAdmin(p)' /\ RoleLeavesAdmin(p)'
  BY <1>3, <1>13, StepAdmin
<1> QED
  BY <1>7, <1>8, <1>9, <1>10, <1>11, <1>12, <1>13 DEF Next, Bootstrap

-----------------------------------------------------------------------------
(* The environment.                                                         *)

\* Every step before the first edit leaves what the environment asks for.
LEMMA NextSeed ==
    ASSUME RequestInv, SeedInv, [Next]_vars
    PROVE  SeedInv'
<1> SUFFICES ASSUME Untouched' PROVE (\A q \in Slots : OnlyLogin(q)') /\ TableSeeded'
  BY DEF SeedInv
<1>1. /\ TypeOK /\ serve \in Process /\ req \in [Slots -> Request]
      /\ users \in [Logins -> Roles \cup {"none"}]
      /\ \A q \in Slots : Shape(req[q])
  BY DEF RequestInv, TypeOK
<1>2. ASSUME NEW q \in Slots, NEW a, NEW kind, NEW pc, NEW l, NEW role,
             Admit(q, a, kind, pc, l, role)
      PROVE  FALSE
  BY <1>1, <1>2, BoundsAssumption DEF Admit, Untouched, TypeOK
<1>3. ASSUME NEW q \in Slots, Arrive(q) PROVE \E l \in Logins : Login(q, l)
  BY <1>2, <1>3 DEF Arrive, Delete, Create, UpdateRole
<1>4. requests' = requests
  <2>1. ASSUME NEW q \in Slots, Step(q) PROVE requests' = requests
    BY <2>1 DEF Step, ResolveRole, UpsertUserOnLogin, SetCookies, DoCreate, LoadTarget,
                GuardLastAdmin, SetUserRole, DeleteUserIfNotLast, DeleteCommits, AuditLog
  <2>2. ASSUME NEW q \in Slots, Arrive(q) PROVE requests' = requests
    BY <1>3, <2>2 DEF Login
  <2>3. ASSUME NEW q \in Slots, LoginAbandoned(q) \/ RequestFails(q) PROVE requests' = requests
    BY <2>3 DEF LoginAbandoned, RequestFails
  <2>4. CASE Bootstrap \/ Crash \/ \E l \in Logins : Logout(l)
    BY <2>4 DEF Bootstrap, StartServe, FinishSeeding, SeedOne, Crash, Logout
  <2> QED
    BY <2>1, <2>2, <2>3, <2>4 DEF Next, vars
<1>5. Untouched
  BY <1>4, HistoryStays DEF Untouched
<1>6. (\A q \in Slots : OnlyLogin(q)) /\ TableSeeded
  BY <1>5 DEF SeedInv
<1>7. ~Serving => \A q \in Slots : req[q].pc \in {"off", "state"}
  BY DEF RequestInv
<1>8. ASSUME UNCHANGED <<users, serve>> PROVE TableSeeded'
  BY <1>6, <1>8 DEF TableSeeded, Serving, Exists, SeededSoFar
<1>9. ASSUME UNCHANGED <<users, req>> PROVE \A q \in Slots : OnlyLogin(q)'
  BY <1>6, <1>9 DEF OnlyLogin, Exists
<1>10. ASSUME NEW q \in Slots, UNCHANGED <<users, serve>>,
              \A p \in Slots : p # q => req'[p] = req[p], OnlyLogin(q)'
       PROVE  (\A p \in Slots : OnlyLogin(p)') /\ TableSeeded'
  <2>1. ASSUME NEW p \in Slots, p # q PROVE OnlyLogin(p)'
    BY <1>6, <1>10, <2>1 DEF OnlyLogin, Exists
  <2> QED
    BY <1>8, <1>10, <2>1
<1>11. ASSUME NEW q \in Slots, UNCHANGED <<users, serve>>, Respond(q)
       PROVE  (\A p \in Slots : OnlyLogin(p)') /\ TableSeeded'
  <2>1. req'[q].pc = "off" /\ \A p \in Slots : p # q => req'[p] = req[p]
    BY <1>1, <1>11, RespondStep
  <2>2. OnlyLogin(q)'
    BY <2>1 DEF OnlyLogin
  <2> QED
    BY <1>10, <1>11, <2>1, <2>2
<1>12. ASSUME NEW q \in Slots, UNCHANGED <<users, serve>>, Goto(q, "cookies")
       PROVE  (\A p \in Slots : OnlyLogin(p)') /\ TableSeeded'
  <2>1. req'[q].pc = "cookies" /\ \A p \in Slots : p # q => req'[p] = req[p]
    BY <1>1, <1>12, GotoStep DEF PCs
  <2>2. OnlyLogin(q)'
    BY <2>1 DEF OnlyLogin
  <2> QED
    BY <1>10, <1>12, <2>1, <2>2
<1>13. CASE UNCHANGED vars \/ \E l \in Logins : Logout(l)
  BY <1>8, <1>9, <1>13 DEF vars, Logout
<1>14. CASE StartServe
  <2>1. UNCHANGED <<users, req>> /\ serve.pc = "down"
    BY <1>14 DEF StartServe
  <2>2. CASE CountUsers = 0
    <3>1. \A l \in Logins : users[l] = "none"
      BY <2>2, Counts DEF Exists
    <3>2. /\ serve'.pc = "seeding" /\ serve'.admins = AdminLogins
          /\ serve'.viewers = ViewerLogins
      BY <1>14, <2>2 DEF StartServe
    <3>3. TableSeeded'
      BY <2>1, <3>1, <3>2 DEF TableSeeded, Serving, SeededSoFar
    <3> QED
      BY <1>9, <2>1, <3>3
  <2>3. CASE CountUsers # 0
    <3>1. users = Environment
      BY <1>6, <2>1, <2>3, Counts DEF TableSeeded
    <3>2. serve'.pc = "serving"
      BY <1>14, <2>3 DEF StartServe, Down
    <3>3. TableSeeded'
      BY <2>1, <3>1, <3>2 DEF TableSeeded
    <3> QED
      BY <1>9, <2>1, <3>3
  <2> QED
    BY <2>2, <2>3
<1>15. CASE FinishSeeding
  <2>1. /\ UNCHANGED <<users, req>> /\ serve.pc = "seeding"
        /\ serve.admins = {} /\ serve.viewers = {}
    BY <1>15 DEF FinishSeeding
  <2>2. \A l \in Logins : users[l] = Environment[l]
    BY <1>6, <2>1 DEF TableSeeded, SeededSoFar, Environment
  <2>3. users = Environment
    BY <1>1, <2>2 DEF Environment
  <2>4. serve'.pc # "seeding"
    BY <1>15 DEF FinishSeeding, Down
  <2>5. TableSeeded'
    BY <2>1, <2>3, <2>4 DEF TableSeeded
  <2> QED
    BY <1>9, <2>1, <2>5
<1>16. ASSUME NEW l \in Logins, NEW ok \in BOOLEAN, SeedOne(l, ok)
       PROVE  (\A q \in Slots : OnlyLogin(q)') /\ TableSeeded'
  <2>1. ok /\ req' = req
    BY <1>16 DEF SeedOne, Untouched
  <2>2. serve.pc = "seeding" /\ serve'.pc = "seeding"
    BY <1>1, <1>16, SeedOneServe
  <2>3. \A q \in Slots : OnlyLogin(q)'
    BY <1>7, <2>1, <2>2 DEF Serving, OnlyLogin
  <2>4. /\ \A x \in Logins : users[x] = SeededSoFar(x)
        /\ serve.admins # {} => serve.viewers = ViewerLogins
    BY <1>6, <2>2 DEF TableSeeded
  <2>5. CASE /\ l \in serve.admins /\ serve'.admins = serve.admins \ {l}
             /\ serve'.viewers = serve.viewers /\ CreateUser(l, "admin")
    <3>1. /\ l \in AdminLogins /\ ~Exists(l) /\ serve.viewers = ViewerLogins
      BY <1>1, <2>4, <2>5 DEF Process, SeededSoFar, Exists
    <3>2. users'[l] = "admin" /\ \A x \in Logins : x # l => users'[x] = users[x]
      BY <1>1, <2>5, <3>1, CreateUserStep DEF Roles
    <3>3. \A x \in Logins : users'[x] = SeededSoFar(x)'
      BY <2>4, <2>5, <3>1, <3>2 DEF SeededSoFar
    <3>4. TableSeeded'
      BY <2>2, <2>5, <3>1, <3>3 DEF TableSeeded, Serving
    <3> QED
      BY <2>3, <3>4
  <2>6. CASE /\ serve.admins = {} /\ l \in serve.viewers /\ serve'.admins = {}
             /\ serve'.viewers = serve.viewers \ {l} /\ CreateUser(l, "viewer")
    <3>1. l \in ViewerLogins
      BY <1>1, <2>6 DEF Process
    <3>2. /\ users'[l] = IF Exists(l) THEN users[l] ELSE "viewer"
          /\ \A x \in Logins : x # l => users'[x] = users[x]
      BY <1>1, <2>6, CreateUserStep DEF Roles
    <3>3. \A x \in Logins : x # l => SeededSoFar(x)' = SeededSoFar(x)
      BY <2>6 DEF SeededSoFar
    <3>4. users'[l] = SeededSoFar(l)'
      BY <2>4, <2>6, <3>1, <3>2 DEF SeededSoFar, Exists
    <3>5. TableSeeded'
      BY <2>2, <2>4, <2>6, <3>2, <3>3, <3>4 DEF TableSeeded, Serving
    <3> QED
      BY <2>3, <3>5
  <2> QED
    BY <1>1, <1>16, <2>1, <2>5, <2>6, SeedOneServe
<1>17. CASE Crash
  <2>1. \A l \in Logins : ~Locked(l)
    BY <1>6 DEF Locked, OnlyLogin
  <2>2. PICK gone \in SUBSET {l \in Logins : Locked(l)} :
            users' = [l \in Logins |-> IF l \in gone THEN "none" ELSE users[l]]
    BY <1>17 DEF Crash
  <2>3. \A l \in Logins : users'[l] = users[l]
    BY <2>1, <2>2
  <2>4. users' = users
    BY <1>1, <2>2, <2>3
  <2>5. serve.pc # "seeding" /\ serve.pc # "down" /\ serve'.pc = "down"
    BY <1>17 DEF Crash, Untouched, Down
  <2>6. users = Environment
    BY <1>1, <1>6, <2>5 DEF TableSeeded, Serving, Process
  <2>7. TableSeeded'
    BY <2>4, <2>5, <2>6 DEF TableSeeded, Serving
  <2>8. \A q \in Slots : req'[q].pc \in {"off", "state"}
    BY <1>17, OffType DEF Crash
  <2> QED
    BY <2>7, <2>8 DEF OnlyLogin
<1>18. ASSUME NEW q \in Slots, Arrive(q)
       PROVE  (\A p \in Slots : OnlyLogin(p)') /\ TableSeeded'
  <2>1. PICK l \in Logins : Login(q, l)
    BY <1>3, <1>18
  <2> DEFINE x == [Off EXCEPT !.pc = "state", !.kind = "login", !.actor = l]
  <2>2. x.pc = "state" /\ req' = [req EXCEPT ![q] = x]
    BY <2>1 DEF Off, Login
  <2> HIDE DEF x
  <2>3. OnlyLogin(q)' /\ \A p \in Slots : p # q => req'[p] = req[p]
    BY <1>1, <2>2 DEF OnlyLogin
  <2> QED
    BY <1>10, <2>1, <2>3 DEF Login
<1>19. ASSUME NEW q \in Slots, Step(q) \/ LoginAbandoned(q) \/ RequestFails(q)
       PROVE  (\A p \in Slots : OnlyLogin(p)') /\ TableSeeded'
  <2>1. req[q].pc \in {"off", "state", "upsert", "cookies"}
    BY <1>6 DEF OnlyLogin
  <2>2. CASE LoginAbandoned(q)
    BY <1>11, <2>2 DEF LoginAbandoned
  <2>3. CASE RequestFails(q)
    BY <1>11, <1>12, <2>3 DEF RequestFails
  <2>4. CASE SetCookies(q)
    BY <1>11, <2>4 DEF SetCookies
  <2>5. CASE ResolveRole(q)
    <3>1. UNCHANGED <<users, serve>>
      BY <2>5 DEF ResolveRole
    <3>2. CASE ~Exists(req[q].actor)
      BY <1>11, <2>5, <3>1, <3>2 DEF ResolveRole
    <3>3. CASE Exists(req[q].actor)
      <4> DEFINE x == [req[q] EXCEPT !.pc = "upsert", !.role = users[req[q].actor]]
      <4>1. req' = [req EXCEPT ![q] = x]
        BY <2>5, <3>3 DEF ResolveRole
      <4>2. x.pc = "upsert" /\ x.actor = req[q].actor
        BY <1>1 DEF Request
      <4> HIDE DEF x
      <4>3. OnlyLogin(q)' /\ \A p \in Slots : p # q => req'[p] = req[p]
        BY <1>1, <3>1, <3>3, <4>1, <4>2 DEF OnlyLogin, Exists
      <4> QED
        BY <1>10, <3>1, <4>3
    <3> QED
      BY <3>2, <3>3
  <2>6. CASE UpsertUserOnLogin(q)
    <3>1. Exists(req[q].actor)
      BY <1>6, <2>6 DEF OnlyLogin, UpsertUserOnLogin
    <3>2. UNCHANGED <<users, serve>> /\ Goto(q, "cookies")
      BY <2>6, <3>1 DEF UpsertUserOnLogin, CreateUser
    <3> QED
      BY <1>12, <3>2
  <2>7. CASE \/ DoCreate(q) \/ LoadTarget(q) \/ GuardLastAdmin(q) \/ SetUserRole(q)
             \/ DeleteUserIfNotLast(q) \/ DeleteCommits(q) \/ AuditLog(q)
    BY <2>1, <2>7 DEF DoCreate, LoadTarget, GuardLastAdmin, SetUserRole,
                      DeleteUserIfNotLast, DeleteCommits, AuditLog
  <2> QED
    BY <1>19, <2>2, <2>3, <2>4, <2>5, <2>6, <2>7 DEF Step
<1> QED
  BY <1>13, <1>14, <1>15, <1>16, <1>17, <1>18, <1>19 DEF Next, Bootstrap

-----------------------------------------------------------------------------
(* The theorems.                                                            *)

\* An installation starts with no rows, no requests and no process.
LEMMA InitUsers == Init => RequestInv /\ UserInv /\ AdminInv /\ SeedInv
<1> SUFFICES ASSUME Init PROVE UserInv /\ AdminInv /\ SeedInv
  BY InitRequest
<1>1. /\ serve.pc = "down" /\ \A q \in Slots : req[q].pc = "off"
      /\ \A l \in Logins : ~Exists(l)
  BY DEF Init, Down, Off, Exists
<1>2. UserInv
  BY <1>1 DEF UserInv, Serving
<1>3. AdminInv
  BY <1>1 DEF AdminInv, OneAtATime, DeleterIsAdmin, RoleLeavesAdmin, TableHasAdmin, Serving
<1>4. SeedInv
  BY <1>1 DEF SeedInv, OnlyLogin, TableSeeded, Serving
<1> QED
  BY <1>2, <1>3, <1>4

\* The four invariants hold together.
LEMMA UsersInvariants == Spec => [](RequestInv /\ UserInv /\ AdminInv /\ SeedInv)
<1>1. RequestInv /\ UserInv /\ AdminInv /\ SeedInv /\ [Next]_vars
          => (RequestInv /\ UserInv /\ AdminInv /\ SeedInv)'
  BY NextRequest, NextUser, NextAdmin, NextSeed
<1> QED
  BY InitUsers, <1>1, PTL DEF Spec

\* A serving installation has a user as long as no two DELETE statements of
\* DeleteUserIfNotLast (user.sql) overlapped, whatever requests, sessions,
\* crashes and failed statements there were.
THEOREM AUserRemains == Spec => []UserRemains
<1>1. UserInv => UserRemains
  BY Counts DEF UserInv, UserRemains, SafeUser
<1> QED
  BY UsersInvariants, <1>1, PTL

\* A serving installation has an administrator as long as requests came one at
\* a time, from sessions whose row was still admin, and the bootstrap's inserts
\* succeeded: the guards of updateRole and delete (users.go) are enough then.
THEOREM AnAdminRemains == Spec => []AdminRemains
<1>1. AdminInv => AdminRemains
  BY Counts DEF AdminInv, AdminRemains, Steady, TableHasAdmin
<1> QED
  BY UsersInvariants, <1>1, PTL

\* Until somebody edits the users, a serving installation has exactly those of
\* the environment (BootstrapUsersFromEnv), whatever logins and restarts came.
THEOREM TheEnvironmentIsSeeded == Spec => []EnvironmentSeeded
<1>1. SeedInv => EnvironmentSeeded
  BY DEF SeedInv, EnvironmentSeeded, Untouched, TableSeeded, Environment
<1> QED
  BY UsersInvariants, <1>1, PTL

\* No login, bootstrap or restart changes the role of a row: every change of a
\* role is the UPDATE of a role change request, to the role it asked for.
THEOREM RolesAreStable == Spec => RoleStableAcrossLogins
<1>1. ASSUME RequestInv, [Next]_vars, NEW l \in Logins, Exists(l),
             users'[l] \notin {"none", users[l]}
      PROVE  \E q \in Slots : /\ req[q].kind = "set_role" /\ req[q].pc = "set"
                              /\ req[q].target = l /\ req[q].role = users'[l]
  <2>1. PICK q \in Slots : /\ req[q].pc = "set" /\ req[q].target = l
                           /\ users'[l] = req[q].role
    BY <1>1, RowChanges DEF RowChange
  <2>2. req[q].kind = "set_role"
    BY <1>1, <2>1 DEF RequestInv, Shape
  <2> QED
    BY <2>1, <2>2
<1>2. RequestInv /\ [Next]_vars =>
          [\A l \in Logins :
             Exists(l) /\ users'[l] \notin {"none", users[l]}
             => \E q \in Slots : req[q].kind = "set_role" /\ req[q].pc = "set"
                                 /\ req[q].target = l /\ req[q].role = users'[l]]_vars
  BY <1>1
<1> QED
  BY UsersInvariants, <1>2, PTL DEF Spec, RoleStableAcrossLogins
=============================================================================
