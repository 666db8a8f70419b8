------------------------------- MODULE RepoSync -------------------------------
(***************************************************************************)
(* Repository sync (internal/sync): SyncOne, started by a push webhook or  *)
(* by `cronfoundry admin trigger-sync`, brings the skill and schedule rows *)
(* of a connection to the head of its default branch.  Nothing keeps two   *)
(* syncs of one connection apart.                                          *)
(*                                                                         *)
(* Every statement and every request to GitHub is one step.  The rows are  *)
(* written in one READ COMMITTED transaction: the model keeps the paths    *)
(* whose skill rows it holds locked, makes other transactions wait for     *)
(* them, and shows its writes at the commit.  The statements that delete   *)
(* missing skills and disable missing schedules see the rows committed     *)
(* when they run, not those of the commit.                                 *)
(*                                                                         *)
(* A schedule row is "on" or "off" by what syncs wrote last.  The pause    *)
(* and resume endpoints and auto-pause write schedule.enabled as well;     *)
(* they are in Scheduler and AutoPause, and are left out here.             *)
(***************************************************************************)
EXTENDS SkillRepo

CONSTANTS
    Syncs,       \* SyncOne calls that may be in flight at the same time
    MaxConnects, \* bound: connections made
    MaxEvents    \* bound: trigger-syncs, disconnects, failed calls, cancelled
                 \* requests and lost webhooks, all together

ASSUME SyncAssumption == MaxConnects \in Nat /\ MaxEvents \in Nat

VARIABLES
    conn,        \* the repo_connection row: id (0: none), last_synced_head_sha, error
    rows,        \* skill rows with their schedules, by path
    sync,        \* the SyncOne calls
    connects,    \* connections made so far
    events,      \* bounded by MaxEvents
    (* History variables: *)
    overlapped,  \* two syncs have been in flight at the same time
    disturbed    \* since a webhook was lost, a sync failed or overlapped another,
                 \* or the connection was made, none has begun alone with the
                 \* recorded commit behind the head

syncVars == <<conn, rows, sync, connects, events, overlapped, disturbed>>

Null == 0     \* SQL NULL, and no commit
NoConn == [id |-> 0, sha |-> Null, err |-> FALSE]
NoSkill == [sha |-> Null, sch |-> [n \in Names |-> "none"]]
Idle == [pc |-> "off", conn |-> 0, seen |-> Null, head |-> Null, next |-> 0,
         held |-> {}, del |-> {}, off |-> {}]

\* Whether the repository has a row (GetRepoConnectionByOwnerName).
Connected == conn.id # 0

InFlight == {s \in Syncs : sync[s].pc # "off"}
Manifest(s) == commits[sync[s].head].manifest
Held(s) == sync[s].held \cup sync[s].del
Set(s, r) == sync' = [sync EXCEPT ![s] = r]

Event == events < MaxEvents /\ events' = events + 1

\* A SyncOne call ends, or fails with its transaction rolled back.
Return(s) == Set(s, Idle)
Fail(s) == Set(s, [sync[s] EXCEPT !.pc = "markErr", !.held = {}, !.del = {}, !.off = {}])

SyncInit ==
    /\ conn = NoConn
    /\ rows = [p \in Paths |-> NoSkill]
    /\ sync = [s \in Syncs |-> Idle]
    /\ connects = 0 /\ events = 0
    /\ overlapped = FALSE /\ disturbed = FALSE

-----------------------------------------------------------------------------
(* SyncOne.                                                                 *)

\* GetRepoConnection: the row is read once and used to the end.
GetRepoConnection(s) ==
    /\ sync[s].pc = "off" /\ Connected
    /\ Set(s, [Idle EXCEPT !.pc = "head", !.conn = conn.id, !.seen = conn.sha])
    /\ overlapped' = (overlapped \/ InFlight # {})
    /\ disturbed' = (InFlight # {} \/ (disturbed /\ conn.sha = Head_))

\* Mutant of Deliver: the push is taken for one to another branch.
DeliverOtherRef(s) ==
    /\ hooks > 0
    /\ hooks' = hooks - 1
    /\ UNCHANGED <<commits, conn, rows, sync, connects, events, overlapped, disturbed>>

\* The webhook handler: a push to the default branch of a known repository
\* runs SyncOne in the request; for an unknown one it answers 200.
Deliver(s) ==
    /\ hooks > 0
    /\ hooks' = hooks - 1
    /\ \/ GetRepoConnection(s)
       \/ ~Connected /\ UNCHANGED <<sync, overlapped, disturbed>>
    /\ UNCHANGED <<commits, conn, rows, connects, events>>

TriggerSync(s) ==
    /\ Event
    /\ GetRepoConnection(s)
    /\ UNCHANGED <<commits, hooks, conn, rows, connects>>

\* An installation token, then GetBranchHead; a head equal to the recorded
\* one goes straight to MarkRepoSyncedOK.
GetBranchHead(s) ==
    /\ sync[s].pc = "head"
    /\ Set(s, [sync[s] EXCEPT !.head = Head_,
                              !.pc = IF sync[s].seen = Head_ THEN "markOK" ELSE "clone"])
    /\ UNCHANGED <<commits, hooks, conn, rows, connects, events, overlapped, disturbed>>

\* CloneAtSHA fetches depth one of the branch, so a commit is only there
\* while it is still the head.
CloneAtSHA(sha) == sha = Head_

\* The clone, then LoadManifest.
CloneAndLoad(s) ==
    /\ sync[s].pc = "clone"
    /\ IF CloneAtSHA(sync[s].head) /\ LoadManifest(commits[sync[s].head])
       THEN Set(s, [sync[s] EXCEPT !.pc = "skills", !.next = 1])
       ELSE Fail(s)
    /\ UNCHANGED <<commits, hooks, conn, rows, connects, events, overlapped, disturbed>>

\* Who holds the row of path p, or is about to create it.
Holders(p) == {t \in Syncs : p \in Held(t)}

\* Mutant of UpsertSkill: no row lock is taken.
UpsertSkillUnlocked(s) ==
    /\ sync[s].pc = "skills" /\ sync[s].next <= Len(Manifest(s).skills)
    /\ IF sync[s].conn = conn.id
       THEN Set(s, [sync[s] EXCEPT !.next = @ + 1])
       ELSE Fail(s)
    /\ UNCHANGED <<commits, hooks, conn, rows, connects, events, overlapped, disturbed>>

\* Mutant of UpsertSkill: no foreign key to the connection.
UpsertSkillNoKey(s) ==
    /\ sync[s].pc = "skills" /\ sync[s].next <= Len(Manifest(s).skills)
    /\ LET p == Manifest(s).skills[sync[s].next].path
       IN  /\ Holders(p) \subseteq {s}
           /\ Set(s, [sync[s] EXCEPT !.next = @ + 1, !.held = @ \cup {p}])
    /\ UNCHANGED <<commits, hooks, conn, rows, connects, events, overlapped, disturbed>>

\* UpsertSkill for the next entry of the manifest: waits for the row, and
\* fails on its foreign key when the connection is gone.
UpsertSkill(s) ==
    /\ sync[s].pc = "skills" /\ sync[s].next <= Len(Manifest(s).skills)
    /\ LET p == Manifest(s).skills[sync[s].next].path
       IN  /\ Holders(p) \subseteq {s}
           /\ IF sync[s].conn = conn.id
              THEN Set(s, [sync[s] EXCEPT !.next = @ + 1, !.held = @ \cup {p}])
              ELSE Fail(s)
    /\ UNCHANGED <<commits, hooks, conn, rows, connects, events, overlapped, disturbed>>

\* Committed skill rows of the connection that the manifest does not name.
Missing(s) ==
    IF sync[s].conn # conn.id THEN {}
    ELSE {p \in Paths : rows[p] # NoSkill /\ p \notin PathsOf(Manifest(s))}

\* DeleteMissingSkills, which waits for the rows it deletes.  (The statement
\* looks for them once, before it waits; here rows that another sync adds while
\* it waits are deleted as well.)
DeleteMissingSkills(s) ==
    /\ sync[s].pc = "skills" /\ sync[s].next > Len(Manifest(s).skills)
    /\ \A p \in Missing(s) : Holders(p) \subseteq {s}
    /\ Set(s, [sync[s] EXCEPT !.pc = "schedules", !.del = Missing(s)])
    /\ UNCHANGED <<commits, hooks, conn, rows, connects, events, overlapped, disturbed>>

\* What s waits for: the holders of the rows its next statement writes.
WaitsFor(s) ==
    IF sync[s].pc # "skills" THEN {}
    ELSE LET next == IF sync[s].next <= Len(Manifest(s).skills)
                     THEN {Manifest(s).skills[sync[s].next].path}
                     ELSE Missing(s)
         IN  UNION {Holders(p) : p \in next} \ {s}

\* Two transactions that wait for each other: Postgres aborts one of them.
DeadlockDetected(s) ==
    /\ \E t \in WaitsFor(s) : s \in WaitsFor(t)
    /\ Fail(s)
    /\ UNCHANGED <<commits, hooks, conn, rows, connects, events, overlapped, disturbed>>

\* DisableMissingSchedules: the skill's rows whose names the entry dropped;
\* they stay, with their history.
MissingNames(s, p) ==
    {n \in Names : rows[p].sch[n] # "none"} \ NamesOf(Manifest(s), p)

\* The cross-file checks, then UpsertSchedule for each name of an entry and
\* DisableMissingSchedules for the others, skill by skill.
UpsertSchedules(s) ==
    /\ sync[s].pc = "schedules"
    /\ IF CrossChecks(commits[sync[s].head])
       THEN Set(s, [sync[s] EXCEPT !.pc = "commit",
                        !.off = UNION {{p} \X MissingNames(s, p) : p \in PathsOf(Manifest(s))}])
       ELSE Fail(s)
    /\ UNCHANGED <<commits, hooks, conn, rows, connects, events, overlapped, disturbed>>

\* The schedule rows of skill p after UpsertSchedule (always enabled) and
\* DisableMissingSchedules; a row neither of them wrote keeps its value.
ScheduleRows(s, p) ==
    [n \in Names |-> IF n \in NamesOf(Manifest(s), p) THEN "on"
                     ELSE IF <<p, n>> \in sync[s].off THEN "off" ELSE rows[p].sch[n]]

\* UpsertSkill's row, with the schedules its skill ends up with.
SkillRow(s, p) == [sha |-> sync[s].head, sch |-> ScheduleRows(s, p)]

\* The commit makes all of it visible and lets go of the rows.
Commit(s) ==
    /\ sync[s].pc = "commit"
    /\ rows' = [p \in Paths |->
           IF p \in PathsOf(Manifest(s))
           THEN SkillRow(s, p)
           ELSE IF p \in sync[s].del THEN NoSkill ELSE rows[p]]
    /\ Set(s, [sync[s] EXCEPT !.pc = "markOK", !.held = {}, !.del = {}, !.off = {}])
    /\ UNCHANGED <<commits, hooks, conn, connects, events, overlapped, disturbed>>

\* The two UPDATEs, of the row with the connection's id if it still exists.
MarkRepoSyncedOK(id, sha) ==
    IF conn.id = id THEN [conn EXCEPT !.sha = sha, !.err = FALSE] ELSE conn
MarkRepoSyncError(id) == IF conn.id = id THEN [conn EXCEPT !.err = TRUE] ELSE conn

\* SyncOne ends well.
MarkOK(s) ==
    /\ sync[s].pc = "markOK"
    /\ conn' = MarkRepoSyncedOK(sync[s].conn, sync[s].head)
    /\ Return(s)
    /\ UNCHANGED <<commits, hooks, rows, connects, events, overlapped, disturbed>>

\* Mutant of MarkErr: the commit that failed is recorded as seen.
MarkErrAsSeen(s) ==
    /\ sync[s].pc = "markErr"
    /\ conn' = [MarkRepoSyncedOK(sync[s].conn, sync[s].head) EXCEPT !.err = TRUE]
    /\ Return(s)
    /\ UNCHANGED <<commits, hooks, rows, connects, events, overlapped, disturbed>>

\* markErr: the error is stored, the recorded commit stays.
MarkErr(s) ==
    /\ sync[s].pc = "markErr"
    /\ conn' = MarkRepoSyncError(sync[s].conn)
    /\ Return(s)
    /\ UNCHANGED <<commits, hooks, rows, connects, events, overlapped, disturbed>>

\* A call of SyncOne fails: up to the commit the error is recorded; a failed
\* mark, a cancelled request (GitHub waits ten seconds for its webhook) or the
\* death of the process records nothing.
SyncFails(s) ==
    /\ Event /\ s \in InFlight
    /\ \/ sync[s].pc \in {"head", "clone", "skills", "schedules", "commit"} /\ Fail(s)
       \/ Return(s)
    /\ disturbed' = TRUE
    /\ UNCHANGED <<commits, hooks, conn, rows, connects, overlapped>>

\* GitHub delivers a webhook at most once.
LoseWebhook ==
    /\ Event /\ hooks > 0
    /\ hooks' = hooks - 1
    /\ disturbed' = TRUE
    /\ UNCHANGED <<commits, conn, rows, sync, connects, overlapped>>

\* InsertRepoConnection.  For a repository that is connected, ON CONFLICT keeps
\* the id and the recorded commit.
InsertRepoConnection ==
    IF Connected THEN UNCHANGED <<conn, connects, disturbed>>
    ELSE /\ conn' = [NoConn EXCEPT !.id = connects + 1] /\ connects' = connects + 1
         /\ disturbed' = TRUE

\* POST /api/repos, and `cronfoundry admin connect-repo`.
Connect ==
    /\ Connected \/ connects < MaxConnects
    /\ InsertRepoConnection
    /\ UNCHANGED <<commits, hooks, rows, sync, events, overlapped>>

\* DeleteRepoConnection cascades to skills, schedules and runs, and so waits
\* for the transactions that hold some of them.
DeleteRepoConnection ==
    /\ \A s \in Syncs : Held(s) = {}
    /\ conn' = NoConn
    /\ rows' = [p \in Paths |-> NoSkill]

\* DELETE /api/repos/{id}.
Disconnect ==
    /\ Event /\ Connected
    /\ DeleteRepoConnection
    /\ UNCHANGED <<commits, hooks, sync, connects, overlapped, disturbed>>

SyncStep(s) ==
    \/ GetBranchHead(s) \/ CloneAndLoad(s) \/ UpsertSkill(s) \/ DeleteMissingSkills(s)
    \/ DeadlockDetected(s) \/ UpsertSchedules(s) \/ Commit(s)
    \/ MarkOK(s) \/ MarkErr(s)

SyncNext ==
    \/ \E s \in Syncs : Deliver(s) \/ TriggerSync(s) \/ SyncStep(s) \/ SyncFails(s)
    \/ LoseWebhook \/ Connect \/ Disconnect

-----------------------------------------------------------------------------
(* Properties.                                                              *)

\* A connection, a skill row with its schedules, and a SyncOne call.
Connection == [id : 0..MaxConnects, sha : 0..MaxCommits, err : BOOLEAN]
SkillRows == [sha : 0..MaxCommits, sch : [Names -> {"none", "on", "off"}]]
SyncCall == [pc : {"off", "head", "clone", "skills", "schedules", "commit", "markOK", "markErr"},
             conn : 0..MaxConnects, seen : 0..MaxCommits, head : 0..MaxCommits, next : Nat,
             held : SUBSET Paths, del : SUBSET Paths, off : SUBSET (Paths \X Names)]

SyncTypeOK ==
    /\ conn \in Connection
    /\ rows \in [Paths -> SkillRows]
    /\ sync \in [Syncs -> SyncCall]
    /\ connects \in 0..MaxConnects /\ events \in 0..MaxEvents
    /\ overlapped \in BOOLEAN /\ disturbed \in BOOLEAN

\* What the table holds for path p once commit c has been synced.
IsSynced(p, c) ==
    IF p \in PathsOf(commits[c].manifest)
    THEN /\ rows[p].sha = c
         /\ {n \in Names : rows[p].sch[n] = "on"} = NamesOf(commits[c].manifest, p)
    ELSE rows[p] = NoSkill

\* However many syncs overlap, fail or deadlock, the schedules they leave
\* enabled under a skill row are those the manifest of its own current_sha
\* names: the row is locked from UpsertSkill to the commit, so no other sync's
\* schedules mix in.
SkillRowConsistent ==
    \A p \in Paths : rows[p].sha # Null => IsSynced(p, rows[p].sha)

\* As long as syncs of the connection do not overlap, the rows together are
\* those of one commit: no failure, crash, disconnect or invalid manifest
\* leaves skills of two commits side by side.  And the cheap path is right:
\* while the recorded commit is the head, the rows are already those of the
\* head, so a sync may skip the clone.
RowsOfOneCommit ==
    ~overlapped =>
        /\ \/ \A p \in Paths : rows[p] = NoSkill
           \/ \E c \in 1..Head_ : \A p \in Paths : IsSynced(p, c)
        /\ Connected /\ conn.sha = Head_ => \A p \in Paths : IsSynced(p, Head_)

\* A disconnected repository has no rows, whatever was in flight.
NoOrphanRows == ~Connected => \A p \in Paths : rows[p] = NoSkill

\* The recorded commit and the rows catch up with the branch, whatever went
\* wrong before: once the next push (or trigger-sync) behind the head is synced
\* alone, with no failure, and nothing goes wrong after it, the rows come to be
\* those of a head that passes the checks and stay so.  What is excepted is a
\* loss, failure or overlap with no push after it: SyncOne is not tried again,
\* and after an overlap a sync of the same head takes the cheap path.
Undisturbed == Connected /\ ~disturbed /\ Syncable(commits[Head_])
SyncCatchesUp ==
    <>[]Undisturbed
        => <>[](conn.sha = Head_ /\ ~conn.err /\ \A p \in Paths : IsSynced(p, Head_))
=============================================================================
