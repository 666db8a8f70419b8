------------------------------ MODULE SkillRepo ------------------------------
(***************************************************************************)
(* The connected repository on GitHub: what a commit of its default branch *)
(* holds, what the checks of internal/config say of it, and how people     *)
(* move the branch.  RepoSync and JobProposal both work on it.             *)
(*                                                                         *)
(* A commit holds the manifest cronfoundry.yaml (a version and a list of   *)
(* skill entries with their schedules) and the SKILL.md files, each by the *)
(* MCP servers it declares.  A schedule keeps its name, whether its cron   *)
(* expression parses, whether its other required fields are well formed,   *)
(* its provider and the servers its mcp_env names.  Commits are numbered   *)
(* in the order in which they become the head; a push always adds one.     *)
(***************************************************************************)
EXTENDS Integers, FiniteSets, Sequences

CONSTANTS
    Paths,       \* skill paths
    Names,       \* schedule names
    McpServers,  \* names of MCP servers
    First,       \* the content of the repository when it is connected
    Contents,    \* what people push: contents of a commit
    MaxCommits   \* bound: commits of the default branch

ASSUME CommitsAssumption == MaxCommits \in Nat \ {0}

\* What a manifest and a commit can hold.
ScheduleEntries == [name : Names, cron : {"parses", "bad"}, complete : BOOLEAN,
                    provider : STRING, env : SUBSET McpServers]
SkillEntries == [path : Paths, schedules : Seq(ScheduleEntries)]
Manifests == [version : Nat, skills : Seq(SkillEntries)]
SkillFiles == UNION {[D -> SUBSET McpServers] : D \in SUBSET Paths}
CommitContents == [manifest : Manifests, files : SkillFiles]

ASSUME ContentAssumption == First \in CommitContents /\ Contents \subseteq CommitContents

VARIABLES
    commits,     \* contents of the commits of the default branch, oldest first
    hooks        \* push webhooks GitHub has yet to deliver

RepoTypeOK ==
    /\ commits \in Seq(CommitContents)
    /\ Len(commits) \in 1..MaxCommits
    /\ hooks \in Nat

\* What GetBranchHead answers: the newest commit.
Head_ == Len(commits)

-----------------------------------------------------------------------------
(* internal/config.                                                         *)

Distinct(keys) == \A i, j \in DOMAIN keys : keys[i] = keys[j] => i = j
SkillPaths(m) == [i \in DOMAIN m.skills |-> m.skills[i].path]
ScheduleNames(entry) == [j \in DOMAIN entry.schedules |-> entry.schedules[j].name]

\* The required fields of a schedule and what Destination.Validate asks of its
\* destinations.
Complete(sch) == sch.complete

\* Manifest.Validate: the version, unique paths, unique names per skill and
\* complete schedules.  A cron expression only has to be there.
Validate(m) ==
    /\ m.version = 1
    /\ Distinct(SkillPaths(m))
    /\ \A i \in DOMAIN m.skills :
         LET entry == m.skills[i]
         IN  /\ Distinct(ScheduleNames(entry))
             /\ \A j \in DOMAIN entry.schedules : Complete(entry.schedules[j])

\* ParseSkillFile: the commit's SKILL.md files that are there and parse.
Parsed(c) == DOMAIN c.files

\* LoadManifest: the manifest is valid and each path it names, which must lie
\* inside the clone, holds a SKILL.md that parses.
LoadManifest(c) ==
    /\ Validate(c.manifest)
    /\ \A i \in DOMAIN c.manifest.skills : c.manifest.skills[i].path \in Parsed(c)

\* What UpsertSkillsAndSchedules checks across the two files, inside its
\* transaction: mcp_env names exactly the servers the skill declares, the
\* azure-foundry provider has none, and the cron expression parses.
CrossChecks(c) ==
    \A i \in DOMAIN c.manifest.skills :
        LET entry == c.manifest.skills[i]
        IN  \A j \in DOMAIN entry.schedules :
              LET sch == entry.schedules[j]
              IN  /\ sch.env = c.files[entry.path]
                  /\ sch.env # {} => sch.provider # "azure-foundry"
                  /\ sch.cron = "parses"

Syncable(c) == LoadManifest(c) /\ CrossChecks(c)

\* The paths a manifest names, and the schedule names under one of them.
PathsOf(m) == {m.skills[i].path : i \in DOMAIN m.skills}
EntryAt(m, p) == CHOOSE i \in DOMAIN m.skills :
                     m.skills[i].path = p /\ \A j \in 1..(i - 1) : m.skills[j].path # p
NamesOf(m, p) == LET s == m.skills[EntryAt(m, p)].schedules
                 IN  {s[j].name : j \in DOMAIN s}

-----------------------------------------------------------------------------
(* The branch.                                                              *)

RepoInit ==
    /\ commits = <<First>>
    /\ hooks = 0

\* A new head; GitHub sends a push webhook for it.
NewHead(c) ==
    /\ Len(commits) < MaxCommits
    /\ commits' = Append(commits, c)
    /\ hooks' = hooks + 1

PeoplePush == \E c \in Contents : NewHead(c)
=============================================================================
