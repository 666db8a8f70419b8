----------------------------- MODULE JobProposal -----------------------------
(***************************************************************************)
(* POST /api/skill-repo/jobs (webapi/skill_repo_jobs.go): a schedule is    *)
(* added to the manifest on a branch of its own and offered as a pull      *)
(* request.  The handler is a chain of GitHub calls: read the file, read   *)
(* the head of the branch, create a branch there, put the edited file,     *)
(* open the pull request.  The default branch may move between any two of  *)
(* them, any of them may fail, and nothing is undone.                      *)
(*                                                                         *)
(* A file's blob sha is a hash of its content, so the model compares the   *)
(* contents themselves.                                                    *)
(***************************************************************************)
EXTENDS SkillRepo

CONSTANTS
    Requests,     \* requests that may be in flight at the same time
    Jobs,         \* what is asked for: a path and a schedule
    MaxProposals  \* bound: requests

\* A new schedule and the skill it is for.
JobRequests == [path : Paths, sch : ScheduleEntries]

ASSUME ProposalAssumption ==
    /\ MaxProposals \in Nat
    /\ Jobs # {} /\ Jobs \subseteq JobRequests

VARIABLES
    prop,         \* the requests
    branches,     \* job branches: base commit, manifest on it, request, pull request
    audit,        \* schedule.proposed entries of the audit log, by branch
    proposed      \* requests made so far

propVars == <<prop, branches, audit, proposed>>

NoManifest == [version |-> 0, skills |-> <<>>]
NoRequest == [pc |-> "off", job |-> CHOOSE j \in Jobs : TRUE, file |-> NoManifest,
              base |-> 0, branch |-> 0]

ProposalInit ==
    /\ prop = [r \in Requests |-> NoRequest]
    /\ branches = <<>>
    /\ audit = {}
    /\ proposed = 0

SetProp(r, x) == prop' = [prop EXCEPT ![r] = x]

\* The handler answers, with an error or with the pull request.
Answer(r) == SetProp(r, NoRequest)

\* The request is well formed (else 400).
Propose(r) ==
    /\ prop[r].pc = "off" /\ proposed < MaxProposals
    /\ \E j \in Jobs : SetProp(r, [NoRequest EXCEPT !.pc = "contents", !.job = j])
    /\ proposed' = proposed + 1
    /\ UNCHANGED <<commits, hooks, branches, audit>>

\* GetFile, first call: the manifest of the default branch and its blob sha.
GetContents(r) ==
    /\ prop[r].pc = "contents"
    /\ SetProp(r, [prop[r] EXCEPT !.pc = "head", !.file = commits[Head_].manifest])
    /\ UNCHANGED <<commits, hooks, branches, audit, proposed>>

\* AppendScheduleToSkill: the skill must be listed (ErrSkillNotFound) and must
\* not have a schedule of that name (ErrDuplicateScheduleName).
CanAppend(m, job) == job.path \in PathsOf(m) /\ job.sch.name \notin NamesOf(m, job.path)
AppendSchedule(m, job) ==
    [m EXCEPT !.skills[EntryAt(m, job.path)].schedules = Append(@, job.sch)]

\* GetFile, second call: the head of the branch, which may be newer than the
\* file.  Then the edit and Validate; their errors end the request.
GetBranch(r) ==
    /\ prop[r].pc = "head"
    /\ IF CanAppend(prop[r].file, prop[r].job)
          /\ Validate(AppendSchedule(prop[r].file, prop[r].job))
       THEN SetProp(r, [prop[r] EXCEPT !.pc = "branch", !.base = Head_])
       ELSE Answer(r)
    /\ UNCHANGED <<commits, hooks, branches, audit, proposed>>

\* CreateRef at the head read before.
CreateBranch(r) ==
    /\ prop[r].pc = "branch"
    /\ branches' = Append(branches, [base |-> prop[r].base, job |-> prop[r].job,
                          manifest |-> commits[prop[r].base].manifest, pr |-> "none"])
    /\ SetProp(r, [prop[r] EXCEPT !.pc = "put", !.branch = Len(branches) + 1])
    /\ UNCHANGED <<commits, hooks, audit, proposed>>

\* Mutant of PutFile: the blob sha of the file that was read is not checked.
PutFileBlind(r) ==
    /\ prop[r].pc = "put"
    /\ LET b == prop[r].branch
       IN  /\ branches' = [branches EXCEPT ![b].manifest = AppendSchedule(prop[r].file, prop[r].job)]
           /\ SetProp(r, [prop[r] EXCEPT !.pc = "pr"])
    /\ UNCHANGED <<commits, hooks, audit, proposed>>

\* UpdateFile with the blob sha that was read: GitHub refuses it when the file
\* on the branch is another one (409, the branch stays).
PutFile(r) ==
    /\ prop[r].pc = "put"
    /\ LET b == prop[r].branch
       IN  IF branches[b].manifest = prop[r].file
           THEN /\ branches' = [branches EXCEPT ![b].manifest =
                                    AppendSchedule(prop[r].file, prop[r].job)]
                /\ SetProp(r, [prop[r] EXCEPT !.pc = "pr"])
           ELSE Answer(r) /\ branches' = branches
    /\ UNCHANGED <<commits, hooks, audit, proposed>>

\* PullRequests.Create.
CreatePR(r) ==
    /\ prop[r].pc = "pr"
    /\ branches' = [branches EXCEPT ![prop[r].branch].pr = "open"]
    /\ SetProp(r, [prop[r] EXCEPT !.pc = "audit"])
    /\ UNCHANGED <<commits, hooks, audit, proposed>>

\* auditLog, then the answer.
Audit(r) ==
    /\ prop[r].pc = "audit"
    /\ audit' = audit \cup {prop[r].branch}
    /\ Answer(r)
    /\ UNCHANGED <<commits, hooks, branches, proposed>>

\* A call fails (a missing permission, 5xx, a cancelled request, or a branch of
\* that name made in the same second): the handler answers with an error and
\* leaves what it has done.
RequestFails(r) ==
    /\ prop[r].pc # "off"
    /\ Answer(r)
    /\ UNCHANGED <<commits, hooks, branches, audit, proposed>>

\* Somebody merges the pull request.  Git refuses when the manifest has
\* changed since the branch was made (it would merge changes to other lines of
\* it; the model has the merges that take the manifest as the branch left it).
Merge(b) ==
    /\ branches[b].pr = "open"
    /\ commits[Head_].manifest = commits[branches[b].base].manifest
    /\ NewHead([commits[Head_] EXCEPT !.manifest = branches[b].manifest])
    /\ branches' = [branches EXCEPT ![b].pr = "merged"]
    /\ UNCHANGED <<prop, audit, proposed>>

ProposalStep(r) ==
    \/ GetContents(r) \/ GetBranch(r) \/ CreateBranch(r) \/ PutFile(r) \/ CreatePR(r)
    \/ Audit(r)

ProposalNext ==
    \/ \E r \in Requests : ProposalStep(r) \/ RequestFails(r)
    \/ \E b \in DOMAIN branches : Merge(b)

-----------------------------------------------------------------------------
(* Properties.                                                              *)

\* A request, and a job branch.
Request == [pc : {"off", "contents", "head", "branch", "put", "pr", "audit"},
            job : Jobs, file : Manifests, base : 0..MaxCommits, branch : Nat]
JobBranch == [base : 0..MaxCommits, job : Jobs, manifest : Manifests,
              pr : {"none", "open", "merged"}]

ProposalTypeOK ==
    /\ prop \in [Requests -> Request]
    /\ branches \in Seq(JobBranch)
    /\ audit \subseteq Nat
    /\ proposed \in 0..MaxProposals

\* A pull request adds its schedule to the manifest of its base commit and
\* changes nothing else: what was pushed between the two reads of GetFile is
\* not taken out again by the edited copy of the older file.
ProposalOnlyAdds ==
    \A b \in DOMAIN branches : branches[b].pr # "none" =>
        LET m == commits[branches[b].base].manifest
        IN  /\ CanAppend(m, branches[b].job)
            /\ branches[b].manifest = AppendSchedule(m, branches[b].job)

=============================================================================
