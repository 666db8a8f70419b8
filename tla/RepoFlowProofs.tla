---------------------------- MODULE RepoFlowProofs ----------------------------
(***************************************************************************)
(* Proofs about RepoFlow, for any number of overlapping syncs, proposals,  *)
(* skills, schedules and commits.                                          *)
(*                                                                         *)
(* Three inductive invariants.  LockInv is about row locks: what a sync's  *)
(* transaction has locked no other writes, a sync that holds rows works    *)
(* for the present connection, and by the commit it holds every row it     *)
(* writes and has dealt with every schedule of it.  SoloInv adds what      *)
(* holds while syncs do not overlap: the rows are never older than the     *)
(* recorded commit.  BranchInv is about proposals: until its pull request  *)
(* is open, a branch belongs to one request and differs from its base by   *)
(* that request's schedule at most.                                        *)
(***************************************************************************)
EXTENDS RepoFlow, SequenceTheorems, TLAPS

\* The steps of SyncOne by which it has read the head of the branch, and those
\* of the transaction.
Fetched == {"clone", "skills", "schedules", "commit", "markOK"}
InTransaction == {"skills", "schedules", "commit"}

\* Everything is typed, and what anybody takes for a commit, or for an entry of
\* a manifest, is one.
CommitInv ==
    /\ \A s \in Syncs : sync[s].pc \in Fetched => sync[s].head \in 1..Len(commits)
    /\ \A s \in Syncs : sync[s].pc = "skills" => sync[s].next >= 1
    /\ \A r \in Requests : prop[r].pc = "branch" => prop[r].base \in 1..Len(commits)
    /\ \A b \in DOMAIN branches : branches[b].base \in 1..Len(commits)
    /\ conn.sha \in 0..Len(commits)
    /\ \A s \in Syncs : sync[s].seen \in 0..Len(commits)
    /\ \A p \in Paths : rows[p].sha \in 0..Len(commits)

TypeInv == TypeOK /\ CommitInv

\* Sync s knows the connection it was started for, and holds rows only in its
\* transaction and while that connection is there.
CallInv(s) ==
    /\ sync[s].pc # "off" => sync[s].conn \in 1..connects
    /\ sync[s].pc \notin InTransaction => Held(s) = {}
    /\ Held(s) # {} => sync[s].conn = conn.id

\* What the transaction of sync s has done so far: it holds the rows of the
\* entries it has been through, in the end those of all entries, and every
\* schedule of them that is not in the manifest is off or about to be.
TransactionInv(s) ==
    /\ sync[s].pc \in InTransaction => Validate(Manifest(s))
    /\ sync[s].pc = "skills" =>
         \A i \in DOMAIN Manifest(s).skills :
             i < sync[s].next => Manifest(s).skills[i].path \in sync[s].held
    /\ sync[s].pc \in {"schedules", "commit"} => PathsOf(Manifest(s)) \subseteq sync[s].held
    /\ sync[s].pc = "commit" =>
         \A p \in PathsOf(Manifest(s)), n \in Names :
             \/ rows[p].sch[n] = "none"
             \/ n \in NamesOf(Manifest(s), p)
             \/ <<p, n>> \in sync[s].off

\* No row is locked twice.
Exclusive == \A s, t \in Syncs : s # t => Held(s) \cap Held(t) = {}

LockInv ==
    /\ \A s \in Syncs : CallInv(s) /\ TransactionInv(s)
    /\ Exclusive /\ conn.id <= connects
    /\ SkillRowConsistent /\ NoOrphanRows

\* All rows are those of commit c.
AllSynced(c) == \A p \in Paths : IsSynced(p, c)

\* What one sync s in flight relies on, when the connection it was started for
\* is still there: nobody records another commit, and the skills outside the
\* manifest have no row or will lose it.
SoloCall(s) ==
    sync[s].pc # "off" /\ sync[s].conn = conn.id =>
        /\ sync[s].seen = conn.sha
        /\ sync[s].pc \in Fetched => conn.sha <= sync[s].head
        /\ sync[s].pc \in {"schedules", "commit"} =>
             \A p \in Paths \ PathsOf(Manifest(s)) : p \in sync[s].del \/ rows[p] = NoSkill
        /\ sync[s].pc = "markOK" => \E c \in sync[s].head..Len(commits) : AllSynced(c)

SoloInv ==
    ~overlapped =>
        /\ \A s, t \in InFlight : s = t
        /\ \A s \in Syncs : SoloCall(s)
        /\ \/ \A p \in Paths : rows[p] = NoSkill
           \/ \E c \in 1..Len(commits) : AllSynced(c)
        /\ Connected /\ conn.sha # Null => \E c \in conn.sha..Len(commits) : AllSynced(c)

\* The branch of request r and what is on it.
ProposalInv(r) ==
    LET b == prop[r].branch
    IN  /\ prop[r].pc \in {"branch", "put", "pr"} => CanAppend(prop[r].file, prop[r].job)
        /\ prop[r].pc \in {"put", "pr"} =>
             /\ b \in DOMAIN branches
             /\ branches[b].job = prop[r].job
        /\ prop[r].pc = "put" => branches[b].manifest = commits[branches[b].base].manifest
        /\ prop[r].pc = "pr" =>
             LET m == commits[branches[b].base].manifest
             IN  CanAppend(m, prop[r].job) /\ branches[b].manifest = AppendSchedule(m, prop[r].job)

BranchInv ==
    /\ \A r \in Requests : ProposalInv(r)
    /\ \A q, r \in Requests :
         q # r /\ prop[q].pc \in {"put", "pr"} /\ prop[r].pc \in {"put", "pr"}
             => prop[q].branch # prop[r].branch
    /\ ProposalOnlyAdds

-----------------------------------------------------------------------------
(* Types.                                                                   *)

\* The branch only grows.
Grown ==
    /\ Len(commits) <= Len(commits')
    /\ \A i \in 1..Len(commits) : commits'[i] = commits[i]

\* A new head keeps the commits below it.
LEMMA NewHeadStep ==
    ASSUME RepoTypeOK, NEW c \in CommitContents, NewHead(c)
    PROVE  RepoTypeOK' /\ Grown
BY CommitsAssumption DEF RepoTypeOK, NewHead, Grown

\* Changing one element of a sequence.
LEMMA SeqEdit ==
    ASSUME NEW S, NEW q \in Seq(S), NEW k, NEW e, k \in DOMAIN q => e \in S
    PROVE  /\ [q EXCEPT ![k] = e] \in Seq(S)
           /\ DOMAIN [q EXCEPT ![k] = e] = DOMAIN q
           /\ \A i \in DOMAIN q : [q EXCEPT ![k] = e][i] = IF i = k THEN e ELSE q[i]
<1>1. CASE k \in DOMAIN q
  <2>1. k \in 1..Len(q)
    BY <1>1
  <2> QED
    BY <1>1, <2>1, ExceptSeq
<1>2. CASE k \notin DOMAIN q
  <2>1. [q EXCEPT ![k] = e] = q
    BY <1>2
  <2> QED
    BY <1>2, <2>1
<1> QED
  BY <1>1, <1>2

\* AppendScheduleToSkill makes a manifest of a manifest.
LEMMA AppendType ==
    ASSUME NEW m \in Manifests, NEW job \in JobRequests
    PROVE  AppendSchedule(m, job) \in Manifests
<1> DEFINE k == EntryAt(m, job.path)
           e == [m.skills[k] EXCEPT !.schedules = Append(@, job.sch)]
           skills == [m.skills EXCEPT ![k] = e]
<1>1. m.skills \in Seq(SkillEntries) /\ job.sch \in ScheduleEntries
  BY DEF Manifests, JobRequests
<1>2. ASSUME k \in DOMAIN m.skills
      PROVE  e \in SkillEntries
  <2>1. PICK x \in SkillEntries : x = m.skills[k]
    BY <1>1, <1>2
  <2>2. Append(x.schedules, job.sch) \in Seq(ScheduleEntries)
    BY <1>1 DEF SkillEntries
  <2>3. [x EXCEPT !.schedules = Append(x.schedules, job.sch)] \in SkillEntries
    BY <2>2 DEF SkillEntries
  <2> QED
    BY <2>1, <2>3
<1>3. skills \in Seq(SkillEntries)
  <2> HIDE DEF e, k
  <2> QED
    BY <1>1, <1>2, SeqEdit, Zenon
<1>4. AppendSchedule(m, job) = [m EXCEPT !.skills = skills]
  BY Zenon DEF AppendSchedule
<1>5. [m EXCEPT !.skills = skills] \in Manifests
  <2> HIDE DEF skills
  <2> QED
    BY <1>3 DEF Manifests
<1> QED
  BY <1>4, <1>5

\* The paths and names of a valid manifest's entries.
LEMMA ManifestPaths ==
    ASSUME NEW m \in Manifests
    PROVE  /\ PathsOf(m) \subseteq Paths
           /\ m.skills \in Seq(SkillEntries)
           /\ DOMAIN m.skills = 1..Len(m.skills) /\ Len(m.skills) \in Nat
           /\ \A i \in DOMAIN m.skills : m.skills[i].path \in PathsOf(m)
<1>1. m.skills \in Seq(SkillEntries)
  BY DEF Manifests
<1>2. DOMAIN m.skills = 1..Len(m.skills) /\ Len(m.skills) \in Nat
  BY <1>1
<1>3. \A i \in DOMAIN m.skills : m.skills[i] \in SkillEntries
  BY <1>1
<1>4. \A i \in DOMAIN m.skills : m.skills[i].path \in Paths
  BY <1>3 DEF SkillEntries
<1>5. \A i \in DOMAIN m.skills : m.skills[i].path \in PathsOf(m)
  BY DEF PathsOf
<1>6. PathsOf(m) \subseteq Paths
  BY <1>4 DEF PathsOf
<1> QED
  BY <1>1, <1>2, <1>5, <1>6

\* Manifests of a commit of the branch.
LEMMA CommitManifest ==
    ASSUME RepoTypeOK, NEW c \in 1..Len(commits)
    PROVE  commits[c] \in CommitContents /\ commits[c].manifest \in Manifests
<1>1. commits[c] \in CommitContents
  BY DEF RepoTypeOK
<1> QED
  BY <1>1 DEF CommitContents

\* TypeInv holds initially.
LEMMA InitTypeInv == Init => TypeInv
<1> SUFFICES ASSUME Init
             PROVE  TypeInv
  OBVIOUS
<1> USE DEF Init, RepoInit, SyncInit, ProposalInit
<1>1. RepoTypeOK /\ Len(commits) = 1
  BY CommitsAssumption, ContentAssumption DEF RepoTypeOK
<1>2. SyncTypeOK
  <2>1. Idle \in SyncCall
    BY CommitsAssumption, SyncAssumption DEF Idle, SyncCall, Null
  <2>2. NoSkill \in SkillRows
    BY CommitsAssumption DEF NoSkill, SkillRows, Null
  <2>3. NoConn \in Connection
    BY CommitsAssumption, SyncAssumption DEF NoConn, Connection, Null
  <2>4. rows \in [Paths -> SkillRows] /\ sync \in [Syncs -> SyncCall] /\ conn \in Connection
    BY <2>1, <2>2, <2>3
  <2>5. overlapped \in BOOLEAN /\ disturbed \in BOOLEAN
    BY Zenon
  <2>6. connects \in 0..MaxConnects /\ events \in 0..MaxEvents
    BY SyncAssumption
  <2> QED
    BY <2>4, <2>5, <2>6, Zenon DEF SyncTypeOK
<1>3. ProposalTypeOK
  <2>1. NoRequest \in Request
    BY CommitsAssumption, ProposalAssumption DEF NoRequest, Request, NoManifest, Manifests
  <2> QED
    BY <2>1, ProposalAssumption DEF ProposalTypeOK
<1>4. CommitInv
  BY <1>1 DEF CommitInv, Idle, NoSkill, NoConn, NoRequest, Fetched, Null
<1> QED
  BY <1>1, <1>2, <1>3, <1>4 DEF TypeInv, TypeOK

-----------------------------------------------------------------------------
(* What each step of a sync does to the calls.                              *)

\* Only sync s has moved.
OnlyMoved(s) ==
    /\ sync' \in [Syncs -> SyncCall]
    /\ \A t \in Syncs \ {s} : sync'[t] = sync[t]

\* The call keeps what it was started with and has read.
Keeps(s) ==
    /\ sync'[s].conn = sync[s].conn
    /\ sync'[s].seen = sync[s].seen
    /\ sync'[s].head = sync[s].head

\* It holds nothing any more.
LetsGo(s) == sync'[s].held = {} /\ sync'[s].del = {} /\ sync'[s].off = {}

\* A step that gives sync s a new state.
LEMMA SetStep ==
    ASSUME SyncTypeOK, NEW s \in Syncs, NEW x \in SyncCall, Set(s, x)
    PROVE  OnlyMoved(s) /\ sync'[s] = x
BY DEF SyncTypeOK, Set, OnlyMoved

\* A failed statement rolls back and lets go of the rows.
LEMMA FailStep ==
    ASSUME SyncTypeOK, NEW s \in Syncs, Fail(s)
    PROVE  OnlyMoved(s) /\ Keeps(s) /\ LetsGo(s) /\ sync'[s].pc = "markErr"
<1>1. PICK c \in SyncCall : c = sync[s]
  BY DEF SyncTypeOK
<1>2. PICK x : x = [c EXCEPT !.pc = "markErr", !.held = {}, !.del = {}, !.off = {}]
  OBVIOUS
<1>3. x \in SyncCall
  BY <1>2 DEF SyncCall
<1>4. OnlyMoved(s) /\ sync'[s] = x
  BY <1>1, <1>2, <1>3, SetStep DEF Fail
<1>5. /\ x.pc = "markErr" /\ x.held = {} /\ x.del = {} /\ x.off = {}
      /\ x.conn = c.conn /\ x.seen = c.seen /\ x.head = c.head
  BY <1>2 DEF SyncCall
<1> QED
  BY <1>1, <1>4, <1>5 DEF Keeps, LetsGo

\* SyncOne returns and lets go of everything.
LEMMA ReturnStep ==
    ASSUME SyncTypeOK, NEW s \in Syncs, Return(s)
    PROVE  OnlyMoved(s) /\ LetsGo(s) /\ sync'[s] = Idle /\ sync'[s].pc = "off"
<1>1. Idle \in SyncCall
  BY CommitsAssumption, SyncAssumption DEF Idle, SyncCall, Null
<1>2. OnlyMoved(s) /\ sync'[s] = Idle
  BY <1>1, SetStep DEF Return
<1>3. Idle.pc = "off" /\ Idle.held = {} /\ Idle.del = {} /\ Idle.off = {}
  BY DEF Idle
<1> QED
  BY <1>2, <1>3 DEF LetsGo

\* GetRepoConnection reads the connection.
LEMMA StartStep ==
    ASSUME SyncTypeOK, NEW s \in Syncs, GetRepoConnection(s)
    PROVE  /\ OnlyMoved(s) /\ LetsGo(s)
           /\ sync'[s].pc = "head" /\ sync'[s].conn = conn.id /\ sync'[s].seen = conn.sha
<1>1. PICK x : x = [Idle EXCEPT !.pc = "head", !.conn = conn.id, !.seen = conn.sha]
  OBVIOUS
<1>2. x \in SyncCall
  <2>1. conn.id \in 0..MaxConnects /\ conn.sha \in 0..MaxCommits
    BY DEF SyncTypeOK, Connection
  <2>2. Idle \in SyncCall
    BY CommitsAssumption, SyncAssumption DEF Idle, SyncCall, Null
  <2> QED
    BY <1>1, <2>1, <2>2 DEF SyncCall
<1>3. OnlyMoved(s) /\ sync'[s] = x
  BY <1>1, <1>2, SetStep DEF GetRepoConnection
<1>4. /\ x.held = {} /\ x.del = {} /\ x.off = {}
      /\ x.pc = "head" /\ x.conn = conn.id /\ x.seen = conn.sha
  BY <1>1 DEF Idle
<1> QED
  BY <1>3, <1>4 DEF LetsGo

\* GetBranchHead reads the head and goes to the clone, or straight to the mark
\* when the recorded commit is the head.
LEMMA HeadStep ==
    ASSUME TypeInv, NEW s \in Syncs, GetBranchHead(s)
    PROVE  /\ OnlyMoved(s)
           /\ sync'[s].held = sync[s].held /\ sync'[s].del = sync[s].del
           /\ sync'[s].conn = sync[s].conn /\ sync'[s].seen = sync[s].seen
           /\ sync'[s].head = Len(commits)
           /\ \/ sync'[s].pc = "clone"
              \/ sync'[s].pc = "markOK" /\ sync[s].seen = Len(commits)
<1>1. PICK c \in SyncCall : c = sync[s]
  BY DEF TypeInv, TypeOK, SyncTypeOK
<1>2. PICK pc : pc = IF c.seen = Len(commits) THEN "markOK" ELSE "clone"
  OBVIOUS
<1>3. PICK x : x = [c EXCEPT !.head = Len(commits), !.pc = pc]
  OBVIOUS
<1>4. x \in SyncCall
  <2>1. Len(commits) \in 0..MaxCommits
    BY CommitsAssumption DEF TypeInv, TypeOK, RepoTypeOK
  <2>2. pc \in {"markOK", "clone"}
    BY <1>2
  <2> QED
    BY <1>3, <2>1, <2>2 DEF SyncCall
<1>5. OnlyMoved(s) /\ sync'[s] = x
  BY <1>1, <1>2, <1>3, <1>4, SetStep DEF GetBranchHead, Head_, TypeInv, TypeOK
<1>6. /\ x.held = c.held /\ x.del = c.del /\ x.conn = c.conn /\ x.seen = c.seen
      /\ x.head = Len(commits) /\ x.pc = pc
  BY <1>3 DEF SyncCall
<1> QED
  BY <1>1, <1>2, <1>5, <1>6

\* The clone and LoadManifest let a valid manifest through.
LEMMA CloneStep ==
    ASSUME SyncTypeOK, NEW s \in Syncs, CloneAndLoad(s)
    PROVE  /\ OnlyMoved(s) /\ Keeps(s)
           /\ \/ /\ sync'[s].pc = "skills" /\ sync'[s].next = 1
                 /\ sync'[s].held = sync[s].held /\ sync'[s].del = sync[s].del
                 /\ Validate(Manifest(s))
              \/ sync'[s].pc = "markErr" /\ LetsGo(s)
<1>1. PICK c \in SyncCall : c = sync[s]
  BY DEF SyncTypeOK
<1>2. CASE CloneAtSHA(sync[s].head) /\ LoadManifest(commits[sync[s].head])
  <2>1. PICK x : x = [c EXCEPT !.pc = "skills", !.next = 1]
    OBVIOUS
  <2>2. x \in SyncCall
    BY <2>1 DEF SyncCall
  <2>3. OnlyMoved(s) /\ sync'[s] = x
    BY <1>1, <1>2, <2>1, <2>2, SetStep DEF CloneAndLoad
  <2>4. /\ x.pc = "skills" /\ x.next = 1 /\ x.held = c.held /\ x.del = c.del
        /\ x.conn = c.conn /\ x.seen = c.seen /\ x.head = c.head
    BY <2>1 DEF SyncCall
  <2> QED
    BY <1>1, <1>2, <2>3, <2>4 DEF Keeps, LoadManifest, Manifest
<1>3. CASE ~(CloneAtSHA(sync[s].head) /\ LoadManifest(commits[sync[s].head]))
  BY <1>3, FailStep DEF CloneAndLoad
<1> QED
  BY <1>2, <1>3

\* UpsertSkill takes the row of its entry, which nobody else holds, while its
\* connection is there.
LEMMA SkillStep ==
    ASSUME TypeInv, NEW s \in Syncs, UpsertSkill(s)
    PROVE  /\ OnlyMoved(s) /\ Keeps(s)
           /\ \/ LET p == Manifest(s).skills[sync[s].next].path
                 IN  /\ sync'[s].pc = "skills" /\ sync'[s].next = sync[s].next + 1
                     /\ sync'[s].held = sync[s].held \cup {p} /\ sync'[s].del = sync[s].del
                     /\ sync[s].conn = conn.id
                     /\ \A t \in Syncs \ {s} : p \notin Held(t)
              \/ sync'[s].pc = "markErr" /\ LetsGo(s)
<1>1. PICK c \in SyncCall : c = sync[s]
  BY DEF TypeInv, TypeOK, SyncTypeOK
<1>2. PICK p : p = Manifest(s).skills[sync[s].next].path
  OBVIOUS
<1>3. /\ c.pc = "skills" /\ c.next <= Len(Manifest(s).skills)
      /\ \A t \in Syncs \ {s} : p \notin Held(t)
  BY <1>1, <1>2 DEF UpsertSkill, Holders
<1>4. CASE sync[s].conn = conn.id
  <2>1. PICK x : x = [c EXCEPT !.next = c.next + 1, !.held = c.held \cup {p}]
    OBVIOUS
  <2>2. x \in SyncCall
    <3>1. c.head \in 1..Len(commits)
      BY <1>1, <1>3 DEF TypeInv, CommitInv, Fetched
    <3>2. Manifest(s) \in Manifests
      BY <1>1, <3>1, CommitManifest DEF Manifest, TypeInv, TypeOK
    <3>3. PICK m \in Manifests : m = Manifest(s)
      BY <3>2
    <3>4. c.next \in Nat \ {0}
      BY <1>1, <1>3 DEF TypeInv, CommitInv, SyncCall
    <3>5. c.next \in DOMAIN m.skills
      BY <1>3, <3>3, <3>4, ManifestPaths
    <3>6. p \in Paths
      BY <1>1, <1>2, <3>3, <3>5, ManifestPaths
    <3>7. c.next + 1 \in Nat /\ c.held \cup {p} \in SUBSET Paths
      BY <3>4, <3>6 DEF SyncCall
    <3> QED
      BY <2>1, <3>7 DEF SyncCall
  <2>3. OnlyMoved(s) /\ sync'[s] = x
    BY <1>1, <1>2, <1>4, <2>1, <2>2, SetStep DEF UpsertSkill, TypeInv, TypeOK
  <2>4. /\ x.pc = "skills" /\ x.next = c.next + 1 /\ x.held = c.held \cup {p}
        /\ x.del = c.del /\ x.conn = c.conn /\ x.seen = c.seen /\ x.head = c.head
    BY <1>3, <2>1 DEF SyncCall
  <2> QED
    BY <1>1, <1>2, <1>3, <1>4, <2>3, <2>4 DEF Keeps
<1>5. CASE sync[s].conn # conn.id
  BY <1>5, FailStep DEF UpsertSkill, TypeInv, TypeOK
<1> QED
  BY <1>4, <1>5

\* DeleteMissingSkills takes the rows it deletes, which nobody else holds.
LEMMA DeleteStep ==
    ASSUME SyncTypeOK, NEW s \in Syncs, DeleteMissingSkills(s)
    PROVE  /\ OnlyMoved(s) /\ Keeps(s)
           /\ sync[s].pc = "skills" /\ sync[s].next > Len(Manifest(s).skills)
           /\ sync'[s].pc = "schedules"
           /\ sync'[s].held = sync[s].held /\ sync'[s].del = Missing(s)
           /\ \A t \in Syncs \ {s} : Missing(s) \cap Held(t) = {}
<1>1. PICK c \in SyncCall : c = sync[s]
  BY DEF SyncTypeOK
<1>2. PICK d : d = Missing(s)
  OBVIOUS
<1>3. PICK x : x = [c EXCEPT !.pc = "schedules", !.del = d]
  OBVIOUS
<1>4. x \in SyncCall
  <2>1. d \in SUBSET Paths
    BY <1>2 DEF Missing
  <2> QED
    BY <1>3, <2>1 DEF SyncCall
<1>5. OnlyMoved(s) /\ sync'[s] = x
  BY <1>1, <1>2, <1>3, <1>4, SetStep DEF DeleteMissingSkills
<1>6. /\ x.pc = "schedules" /\ x.held = c.held /\ x.del = d
      /\ x.conn = c.conn /\ x.seen = c.seen /\ x.head = c.head
  BY <1>3 DEF SyncCall
<1>7. \A t \in Syncs \ {s} : d \cap Held(t) = {}
  BY <1>2 DEF DeleteMissingSkills, Holders
<1> QED
  BY <1>1, <1>2, <1>5, <1>6, <1>7 DEF Keeps, DeleteMissingSkills

\* After the cross-file checks every schedule that left the manifest is noted.
LEMMA SchedulesStep ==
    ASSUME TypeInv, NEW s \in Syncs, UpsertSchedules(s)
    PROVE  /\ OnlyMoved(s) /\ Keeps(s)
           /\ sync[s].pc = "schedules"
           /\ \/ /\ sync'[s].pc = "commit"
                 /\ sync'[s].held = sync[s].held /\ sync'[s].del = sync[s].del
                 /\ \A p \in PathsOf(Manifest(s)) : \A n \in MissingNames(s, p) :
                        <<p, n>> \in sync'[s].off
              \/ sync'[s].pc = "markErr" /\ LetsGo(s)
<1>1. PICK c \in SyncCall : c = sync[s]
  BY DEF TypeInv, TypeOK, SyncTypeOK
<1>2. PICK off : off = UNION {{p} \X MissingNames(s, p) : p \in PathsOf(Manifest(s))}
  OBVIOUS
<1>3. c.pc = "schedules"
  BY <1>1 DEF UpsertSchedules
<1>4. PathsOf(Manifest(s)) \subseteq Paths
  <2>1. c.head \in 1..Len(commits)
    BY <1>1, <1>3 DEF TypeInv, CommitInv, Fetched
  <2> QED
    BY <1>1, <2>1, CommitManifest, ManifestPaths DEF Manifest, TypeInv, TypeOK
<1>5. CASE CrossChecks(commits[sync[s].head])
  <2>1. PICK x : x = [c EXCEPT !.pc = "commit", !.off = off]
    OBVIOUS
  <2>2. off \in SUBSET (Paths \X Names)
    BY <1>2, <1>4 DEF MissingNames
  <2>3. x \in SyncCall
    BY <2>1, <2>2 DEF SyncCall
  <2>4. OnlyMoved(s) /\ sync'[s] = x
    BY <1>1, <1>2, <1>5, <2>1, <2>3, SetStep DEF UpsertSchedules, TypeInv, TypeOK
  <2>5. /\ x.pc = "commit" /\ x.held = c.held /\ x.del = c.del /\ x.off = off
        /\ x.conn = c.conn /\ x.seen = c.seen /\ x.head = c.head
    BY <2>1 DEF SyncCall
  <2>6. \A p \in PathsOf(Manifest(s)) : \A n \in MissingNames(s, p) : <<p, n>> \in off
    BY <1>2
  <2> QED
    BY <1>1, <1>3, <2>4, <2>5, <2>6 DEF Keeps
<1>6. CASE ~CrossChecks(commits[sync[s].head])
  BY <1>1, <1>3, <1>6, FailStep DEF UpsertSchedules, TypeInv, TypeOK
<1> QED
  BY <1>5, <1>6

\* The commit lets go of the rows.
LEMMA CommitStep ==
    ASSUME SyncTypeOK, NEW s \in Syncs, Commit(s)
    PROVE  OnlyMoved(s) /\ Keeps(s) /\ LetsGo(s) /\ sync'[s].pc = "markOK"
<1>1. PICK c \in SyncCall : c = sync[s]
  BY DEF SyncTypeOK
<1>2. PICK x : x = [c EXCEPT !.pc = "markOK", !.held = {}, !.del = {}, !.off = {}]
  OBVIOUS
<1>3. x \in SyncCall
  BY <1>2 DEF SyncCall
<1>4. OnlyMoved(s) /\ sync'[s] = x
  BY <1>1, <1>2, <1>3, SetStep DEF Commit
<1>5. /\ x.pc = "markOK" /\ x.held = {} /\ x.del = {} /\ x.off = {}
      /\ x.conn = c.conn /\ x.seen = c.seen /\ x.head = c.head
  BY <1>2 DEF SyncCall
<1> QED
  BY <1>1, <1>4, <1>5 DEF Keeps, LetsGo

\* A sync gives up: it is the victim of a deadlock, or a call of it fails.
LEMMA GivesUpStep ==
    ASSUME SyncTypeOK, NEW s \in Syncs, DeadlockDetected(s) \/ SyncFails(s)
    PROVE  /\ OnlyMoved(s) /\ LetsGo(s)
           /\ sync[s].pc # "off"
           /\ sync'[s].pc = "off" \/ (sync'[s].pc = "markErr" /\ Keeps(s))
<1>1. CASE DeadlockDetected(s)
  <2>1. sync[s].pc = "skills"
    BY <1>1 DEF DeadlockDetected, WaitsFor
  <2> QED
    BY <1>1, <2>1, FailStep DEF DeadlockDetected
<1>2. CASE SyncFails(s)
  <2>1. sync[s].pc # "off" /\ (Fail(s) \/ Return(s))
    BY <1>2 DEF SyncFails, InFlight
  <2> QED
    BY <2>1, FailStep, ReturnStep
<1> QED
  BY <1>1, <1>2

-----------------------------------------------------------------------------
(* Type correctness.                                                        *)

\* Sync s is as CommitInv asks.
CallTyped(s) ==
    /\ sync[s].pc \in Fetched => sync[s].head \in 1..Len(commits)
    /\ sync[s].pc = "skills" => sync[s].next >= 1
    /\ sync[s].seen \in 0..Len(commits)

\* A step of one sync that leaves the tables alone.
LEMMA CallType ==
    ASSUME TypeInv, NEW s \in Syncs, OnlyMoved(s), CallTyped(s)', UNCHANGED <<commits, conn, rows>>,
           hooks' \in Nat, connects' \in 0..MaxConnects, events' \in 0..MaxEvents,
           overlapped' \in BOOLEAN, disturbed' \in BOOLEAN, UNCHANGED propVars
    PROVE  TypeInv'
<1>1. RepoTypeOK'
  BY DEF TypeInv, TypeOK, RepoTypeOK
<1>2. SyncTypeOK'
  BY Zenon DEF TypeInv, TypeOK, SyncTypeOK, OnlyMoved
<1>3. ProposalTypeOK'
  BY DEF TypeInv, TypeOK, ProposalTypeOK, propVars
<1>4. CommitInv'
  <2>1. \A t \in Syncs : CallTyped(t)'
    <3> TAKE t \in Syncs
    <3>1. CASE t # s
      BY <3>1 DEF CallTyped, TypeInv, CommitInv, OnlyMoved
    <3> QED
      BY <3>1
  <2> QED
    BY <2>1 DEF CallTyped, CommitInv, TypeInv, propVars
<1> QED
  BY <1>1, <1>2, <1>3, <1>4 DEF TypeInv, TypeOK

\* A sync that starts, reads the head, clones, locks and checks.
LEMMA ReadingType ==
    ASSUME TypeInv, NEW s \in Syncs, UNCHANGED propVars,
           \/ Deliver(s) \/ TriggerSync(s) \/ GetBranchHead(s) \/ CloneAndLoad(s)
           \/ UpsertSkill(s) \/ DeleteMissingSkills(s) \/ UpsertSchedules(s)
           \/ DeadlockDetected(s) \/ SyncFails(s)
    PROVE  TypeInv'
<1> USE DEF TypeInv, TypeOK
<1>1. SyncTypeOK /\ RepoTypeOK /\ CallTyped(s) /\ Len(commits) \in Nat \ {0}
  BY DEF CallTyped, CommitInv, RepoTypeOK
<1>2. /\ hooks \in Nat /\ connects \in 0..MaxConnects /\ events \in 0..MaxEvents
      /\ overlapped \in BOOLEAN /\ disturbed \in BOOLEAN
  BY DEF SyncTypeOK, RepoTypeOK
<1>3. ASSUME GetRepoConnection(s), UNCHANGED commits
      PROVE  OnlyMoved(s) /\ CallTyped(s)'
  BY <1>1, <1>3, StartStep DEF CallTyped, Fetched, CommitInv
<1>4. CASE Deliver(s)
  <2>1. /\ UNCHANGED <<commits, conn, rows, connects, events>>
        /\ hooks' \in Nat
    BY <1>2, <1>4 DEF Deliver
  <2>2. overlapped' \in BOOLEAN /\ disturbed' \in BOOLEAN
    BY <1>2, <1>4, Zenon DEF Deliver, GetRepoConnection
  <2>3. CASE GetRepoConnection(s)
    BY <1>2, <1>3, <2>1, <2>2, <2>3, CallType
  <2>4. CASE UNCHANGED sync
    <3>1. OnlyMoved(s) /\ CallTyped(s)'
      BY <1>1, <2>1, <2>4 DEF OnlyMoved, CallTyped, SyncTypeOK
    <3> QED
      BY <1>2, <2>1, <2>2, <3>1, CallType
  <2> QED
    BY <1>4, <2>3, <2>4 DEF Deliver
<1>5. CASE TriggerSync(s)
  <2>1. /\ UNCHANGED <<commits, hooks, conn, rows, connects>>
        /\ events' \in 0..MaxEvents
    BY <1>2, <1>5, SyncAssumption DEF TriggerSync, Event
  <2>2. overlapped' \in BOOLEAN /\ disturbed' \in BOOLEAN
    BY <1>2, <1>5, Zenon DEF TriggerSync, GetRepoConnection
  <2> QED
    BY <1>2, <1>3, <1>5, <2>1, <2>2, CallType DEF TriggerSync
<1>6. ASSUME OnlyMoved(s), CallTyped(s)',
             UNCHANGED <<commits, hooks, conn, rows, connects, events, overlapped, disturbed>>
      PROVE  TypeInv'
  BY <1>2, <1>6, CallType
<1>7. CASE GetBranchHead(s)
  <2>1. commits' = commits
    BY <1>7 DEF GetBranchHead
  <2>2. CallTyped(s)'
    BY <1>1, <1>7, <2>1, HeadStep DEF CallTyped
  <2> QED
    BY <1>6, <1>7, <2>2, HeadStep DEF GetBranchHead
<1>8. CASE CloneAndLoad(s)
  <2>1. sync[s].pc \in Fetched /\ commits' = commits
    BY <1>8 DEF CloneAndLoad, Fetched
  <2>2. /\ sync'[s].head = sync[s].head /\ sync'[s].seen = sync[s].seen
        /\ sync'[s].pc = "skills" => sync'[s].next = 1
    BY <1>1, <1>8, CloneStep DEF Keeps
  <2>3. CallTyped(s)'
    BY <1>1, <2>1, <2>2 DEF CallTyped
  <2> QED
    BY <1>1, <1>6, <1>8, <2>3, CloneStep DEF CloneAndLoad
<1>9. CASE UpsertSkill(s)
  <2>1. sync[s].pc = "skills" /\ sync[s].pc \in Fetched /\ commits' = commits /\ sync[s].next \in Nat
    BY <1>1, <1>9 DEF UpsertSkill, Fetched, SyncTypeOK, SyncCall
  <2>2. CallTyped(s)'
    <3>1. Keeps(s) /\ (\/ sync'[s].pc = "skills" /\ sync'[s].next = sync[s].next + 1
                       \/ sync'[s].pc = "markErr")
      BY <1>9, SkillStep, Zenon
    <3>2. /\ sync[s].head \in 1..Len(commits) /\ sync[s].next >= 1
          /\ sync[s].seen \in 0..Len(commits)
      BY <1>1, <2>1 DEF CallTyped
    <3>3. sync'[s].head \in 1..Len(commits') /\ sync'[s].seen \in 0..Len(commits')
      BY <2>1, <3>1, <3>2, Zenon DEF Keeps
    <3>4. sync'[s].pc = "skills" => sync'[s].next >= 1
      BY <2>1, <3>1, <3>2
    <3> QED
      BY <3>3, <3>4, Zenon DEF CallTyped
  <2> QED
    BY <1>1, <1>6, <1>9, <2>2, SkillStep DEF UpsertSkill
<1>10. CASE DeleteMissingSkills(s)
  <2>1. sync[s].pc \in Fetched /\ commits' = commits
    BY <1>10 DEF DeleteMissingSkills, Fetched
  <2>2. CallTyped(s)'
    BY <1>1, <1>10, <2>1, DeleteStep DEF CallTyped, Keeps
  <2> QED
    BY <1>1, <1>6, <1>10, <2>2, DeleteStep DEF DeleteMissingSkills
<1>11. CASE UpsertSchedules(s)
  <2>1. sync[s].pc \in Fetched /\ commits' = commits
    BY <1>11 DEF UpsertSchedules, Fetched
  <2>2. CallTyped(s)'
    BY <1>1, <1>11, <2>1, SchedulesStep DEF CallTyped, Keeps
  <2> QED
    BY <1>1, <1>6, <1>11, <2>2, SchedulesStep DEF UpsertSchedules
<1>12. CASE DeadlockDetected(s) \/ SyncFails(s)
  <2>1. UNCHANGED <<commits, hooks, conn, rows, connects, overlapped>>
    BY <1>12 DEF DeadlockDetected, SyncFails
  <2>2. CallTyped(s)'
    <3>1. sync'[s].seen \in 0..Len(commits)
      BY <1>1, <1>12, GivesUpStep, FailStep, ReturnStep DEF CallTyped, Keeps, Idle, Null, DeadlockDetected, SyncFails
    <3> QED
      BY <1>1, <1>12, <2>1, <3>1, GivesUpStep DEF CallTyped, Fetched
  <2>3. events' \in 0..MaxEvents /\ disturbed' \in BOOLEAN
    <3>1. CASE DeadlockDetected(s)
      BY <1>2, <3>1 DEF DeadlockDetected
    <3>2. CASE SyncFails(s)
      <4>1. events' \in 0..MaxEvents
        BY <1>2, <3>2, SyncAssumption DEF SyncFails, Event
      <4> QED
        BY <3>2, <4>1, Zenon DEF SyncFails
    <3> QED
      BY <1>12, <3>1, <3>2
  <2> QED
    BY <1>1, <1>2, <1>12, <2>1, <2>2, <2>3, CallType, GivesUpStep
<1> QED
  BY <1>4, <1>5, <1>7, <1>8, <1>9, <1>10, <1>11, <1>12

\* The commit writes rows of the commit that was fetched.
LEMMA CommitType ==
    ASSUME TypeInv, NEW s \in Syncs, Commit(s), UNCHANGED propVars
    PROVE  TypeInv'
<1> USE DEF TypeInv, TypeOK
<1>1. SyncTypeOK /\ CallTyped(s)
  BY DEF CallTyped, CommitInv
<1>2. sync[s].head \in 1..Len(commits) /\ Len(commits) \in 1..MaxCommits
  BY <1>1 DEF Commit, CallTyped, Fetched, RepoTypeOK
<1>3. \A p \in Paths : SkillRow(s, p) \in SkillRows /\ SkillRow(s, p).sha = sync[s].head
  <2> TAKE p \in Paths
  <2>1. rows[p].sch \in [Names -> {"none", "on", "off"}]
    BY DEF SyncTypeOK, SkillRows
  <2>2. ScheduleRows(s, p) \in [Names -> {"none", "on", "off"}]
    BY <2>1 DEF ScheduleRows
  <2>3. sync[s].head \in 0..MaxCommits
    BY <1>2, CommitsAssumption
  <2> QED
    BY <2>2, <2>3 DEF SkillRow, SkillRows
<1>4. NoSkill \in SkillRows /\ NoSkill.sha = 0
  BY CommitsAssumption DEF NoSkill, SkillRows, Null
<1>5. \A p \in Paths : rows'[p] \in SkillRows /\ rows'[p].sha \in 0..Len(commits)
  <2> TAKE p \in Paths
  <2>1. rows'[p] \in {SkillRow(s, p), NoSkill, rows[p]}
    BY DEF Commit
  <2>2. rows[p] \in SkillRows /\ rows[p].sha \in 0..Len(commits)
    BY DEF SyncTypeOK, CommitInv
  <2> QED
    BY <1>2, <1>3, <1>4, <2>1, <2>2
<1>6. rows' \in [Paths -> SkillRows]
  BY <1>5 DEF Commit
<1>7. UNCHANGED <<commits, hooks, conn, connects, events, overlapped, disturbed>>
  BY DEF Commit
<1>8. OnlyMoved(s) /\ CallTyped(s)'
  BY <1>1, <1>2, <1>7, CommitStep DEF CallTyped, Keeps
<1>9. RepoTypeOK' /\ ProposalTypeOK'
  BY <1>7 DEF RepoTypeOK, ProposalTypeOK, propVars
<1>10. SyncTypeOK'
  BY <1>6, <1>7, <1>8, Zenon DEF SyncTypeOK, OnlyMoved
<1>11. CommitInv'
  <2>1. \A t \in Syncs : CallTyped(t)'
    <3> TAKE t \in Syncs
    <3>1. CASE t # s
      BY <1>7, <1>8, <3>1 DEF CallTyped, CommitInv, OnlyMoved
    <3> QED
      BY <1>8, <3>1
  <2> QED
    BY <1>5, <1>7, <2>1 DEF CallTyped, CommitInv, propVars
<1> QED
  BY <1>9, <1>10, <1>11

\* The two marks write the connection and end the call.
LEMMA MarkType ==
    ASSUME TypeInv, NEW s \in Syncs, MarkOK(s) \/ MarkErr(s), UNCHANGED propVars
    PROVE  TypeInv'
<1> USE DEF TypeInv, TypeOK
<1>1. SyncTypeOK /\ CallTyped(s) /\ Return(s) /\ Len(commits) \in 1..MaxCommits
  BY DEF CallTyped, CommitInv, MarkOK, MarkErr, RepoTypeOK
<1>2. UNCHANGED <<commits, hooks, rows, connects, events, overlapped, disturbed>>
  BY DEF MarkOK, MarkErr
<1>3. conn' \in Connection /\ conn'.sha \in 0..Len(commits)
  <2>1. PICK c \in Connection : c = conn /\ c.sha \in 0..Len(commits)
    BY DEF SyncTypeOK, CommitInv
  <2>2. CASE MarkOK(s)
    <3>1. PICK h \in 1..Len(commits) : h = sync[s].head
      BY <1>1, <2>2 DEF MarkOK, CallTyped, Fetched
    <3>2. PICK e \in BOOLEAN : e = FALSE
      BY Zenon
    <3>3. conn' = c \/ conn' = [c EXCEPT !.sha = h, !.err = e]
      BY <2>1, <2>2, <3>1, <3>2 DEF MarkOK, MarkRepoSyncedOK
    <3>4. h \in 0..MaxCommits
      BY <1>1, <3>1, CommitsAssumption
    <3>5. /\ [c EXCEPT !.sha = h, !.err = e] \in Connection
          /\ [c EXCEPT !.sha = h, !.err = e].sha = h
      BY <3>4 DEF Connection
    <3>6. h \in 0..Len(commits)
      BY <3>1
    <3> QED
      BY <2>1, <3>3, <3>5, <3>6
  <2>3. CASE MarkErr(s)
    <3>1. PICK e \in BOOLEAN : e = TRUE
      BY Zenon
    <3>2. conn' = c \/ conn' = [c EXCEPT !.err = e]
      BY <2>1, <2>3, <3>1 DEF MarkErr, MarkRepoSyncError
    <3>3. [c EXCEPT !.err = e] \in Connection /\ [c EXCEPT !.err = e].sha = c.sha
      BY DEF Connection
    <3> QED
      BY <2>1, <3>2, <3>3
  <2> QED
    BY <2>2, <2>3
<1>4. OnlyMoved(s) /\ CallTyped(s)'
  BY <1>1, <1>2, ReturnStep DEF CallTyped, Fetched, Idle, Null
<1>5. RepoTypeOK' /\ ProposalTypeOK'
  BY <1>2 DEF RepoTypeOK, ProposalTypeOK, propVars
<1>6. SyncTypeOK'
  BY <1>2, <1>3, <1>4, Zenon DEF SyncTypeOK, OnlyMoved
<1>7. CommitInv'
  <2>1. \A t \in Syncs : CallTyped(t)'
    <3> TAKE t \in Syncs
    <3>1. CASE t # s
      BY <1>2, <1>4, <3>1 DEF CallTyped, CommitInv, OnlyMoved
    <3> QED
      BY <1>4, <3>1
  <2> QED
    BY <1>2, <1>3, <2>1 DEF CallTyped, CommitInv, propVars
<1> QED
  BY <1>5, <1>6, <1>7

\* Webhooks are lost, connections come and go.
LEMMA ConnectionType ==
    ASSUME TypeInv, LoseWebhook \/ Connect \/ Disconnect, UNCHANGED propVars
    PROVE  TypeInv'
<1> USE DEF TypeInv, TypeOK
<1>1. UNCHANGED <<commits, sync, overlapped>>
  BY DEF LoseWebhook, Connect, Disconnect
<1>2. RepoTypeOK' /\ ProposalTypeOK'
  BY <1>1 DEF RepoTypeOK, ProposalTypeOK, propVars, LoseWebhook, Connect, Disconnect
<1>3. NoSkill \in SkillRows /\ NoSkill.sha = 0
  BY CommitsAssumption DEF NoSkill, SkillRows, Null
<1>4. /\ rows' \in [Paths -> SkillRows]
      /\ \A p \in Paths : rows'[p].sha \in 0..Len(commits)
  BY <1>3 DEF LoseWebhook, Connect, Disconnect, DeleteRepoConnection, SyncTypeOK, CommitInv, RepoTypeOK
<1>5. /\ conn' \in Connection /\ conn'.sha \in 0..Len(commits)
      /\ connects' \in 0..MaxConnects
  <2>1. CASE conn' = conn /\ connects' = connects
    BY <2>1 DEF SyncTypeOK, CommitInv
  <2>2. CASE conn' = NoConn /\ connects' = connects
    BY <2>2, CommitsAssumption, SyncAssumption DEF NoConn, Connection, Null, SyncTypeOK, RepoTypeOK
  <2>3. CASE conn' = [NoConn EXCEPT !.id = connects + 1] /\ connects' = connects + 1 /\ connects < MaxConnects
    <3>1. PICK i \in 0..MaxConnects : i = connects + 1
      BY <2>3, SyncAssumption DEF SyncTypeOK
    <3>2. NoConn \in Connection /\ NoConn.sha = 0
      BY CommitsAssumption, SyncAssumption DEF NoConn, Connection, Null
    <3>3. [NoConn EXCEPT !.id = i] \in Connection /\ [NoConn EXCEPT !.id = i].sha = 0
      BY <3>2 DEF Connection
    <3> QED
      BY <2>3, <3>1, <3>3 DEF RepoTypeOK
  <2> QED
    BY <2>1, <2>2, <2>3 DEF LoseWebhook, Connect, InsertRepoConnection, Disconnect, DeleteRepoConnection
<1>6. events' \in 0..MaxEvents
  BY SyncAssumption DEF LoseWebhook, Connect, Disconnect, Event, SyncTypeOK
<1>7. disturbed' \in BOOLEAN /\ overlapped' \in BOOLEAN
  BY <1>1, Zenon DEF LoseWebhook, Connect, InsertRepoConnection, Disconnect, SyncTypeOK
<1>8. SyncTypeOK'
  BY <1>1, <1>4, <1>5, <1>6, <1>7, Zenon DEF SyncTypeOK
<1>9. CommitInv'
  BY <1>1, <1>4, <1>5 DEF CommitInv, propVars
<1> QED
  BY <1>2, <1>8, <1>9

\* Somebody pushes: the commits that were there stay.
LEMMA GrowthType ==
    ASSUME TypeInv, RepoTypeOK', Grown, UNCHANGED syncVars, ProposalTypeOK', UNCHANGED prop,
           \A b \in DOMAIN branches' : branches'[b].base \in 1..Len(commits)
    PROVE  TypeInv'
<1>1. SyncTypeOK'
  BY Zenon DEF TypeInv, TypeOK, SyncTypeOK, syncVars
<1>2. Len(commits) \in Nat /\ Len(commits') \in Nat /\ Len(commits) <= Len(commits')
  BY DEF TypeInv, TypeOK, RepoTypeOK, Grown
<1>3. 1..Len(commits) \subseteq 1..Len(commits') /\ 0..Len(commits) \subseteq 0..Len(commits')
  BY <1>2
<1>4. CommitInv'
  BY <1>3 DEF TypeInv, CommitInv, syncVars
<1> QED
  BY <1>1, <1>4 DEF TypeInv, TypeOK

\* A step of request r on the same branch of the repository.
LEMMA RequestType ==
    ASSUME TypeInv, NEW r \in Requests, NEW x \in Request, SetProp(r, x),
           x.pc = "branch" => x.base \in 1..Len(commits),
           UNCHANGED <<commits, hooks, syncVars>>,
           branches' \in Seq(JobBranch),
           \A b \in DOMAIN branches' : branches'[b].base \in 1..Len(commits),
           audit' \subseteq Nat, proposed' \in 0..MaxProposals
    PROVE  TypeInv'
<1>1. prop' \in [Requests -> Request] /\ prop'[r] = x /\ \A q \in Requests \ {r} : prop'[q] = prop[q]
  BY DEF TypeInv, TypeOK, ProposalTypeOK, SetProp
<1>2. RepoTypeOK' /\ ProposalTypeOK'
  BY <1>1 DEF TypeInv, TypeOK, RepoTypeOK, ProposalTypeOK
<1>3. SyncTypeOK'
  BY Zenon DEF TypeInv, TypeOK, SyncTypeOK, syncVars
<1>4. \A q \in Requests : prop'[q].pc = "branch" => prop'[q].base \in 1..Len(commits)
  BY <1>1 DEF TypeInv, CommitInv
<1>5. CommitInv'
  BY <1>4 DEF TypeInv, CommitInv, syncVars
<1> QED
  BY <1>2, <1>3, <1>5 DEF TypeInv, TypeOK

\* The steps of a proposal.
LEMMA ProposalType ==
    ASSUME TypeInv, NEW r \in Requests, ProposalStep(r) \/ RequestFails(r) \/ Propose(r),
           UNCHANGED syncVars
    PROVE  TypeInv'
<1> USE DEF TypeInv, TypeOK
<1>1. PICK q \in Request : q = prop[r]
  BY DEF ProposalTypeOK
<1>2. NoRequest \in Request /\ NoRequest.pc = "off"
  BY CommitsAssumption, ProposalAssumption DEF NoRequest, Request, NoManifest, Manifests
<1>3. /\ branches \in Seq(JobBranch) /\ audit \subseteq Nat /\ proposed \in 0..MaxProposals
      /\ \A b \in DOMAIN branches : branches[b].base \in 1..Len(commits)
      /\ Len(commits) \in 1..MaxCommits /\ Len(commits) \in 0..MaxCommits
  BY CommitsAssumption DEF ProposalTypeOK, CommitInv, RepoTypeOK
<1>4. ASSUME Answer(r), UNCHANGED <<commits, hooks, branches, proposed>>, audit' \subseteq Nat
      PROVE  TypeInv'
  BY <1>2, <1>3, <1>4, RequestType DEF Answer
<1>5. CASE RequestFails(r)
  BY <1>3, <1>4, <1>5 DEF RequestFails
<1>6. CASE Audit(r)
  <2>1. prop[r].branch \in Nat
    BY <1>1 DEF Request
  <2> QED
    BY <1>3, <1>4, <1>6, <2>1 DEF Audit
<1>7. CASE Propose(r)
  <2>1. PICK j \in Jobs : SetProp(r, [NoRequest EXCEPT !.pc = "contents", !.job = j])
    BY <1>7 DEF Propose
  <2>2. PICK x : x = [NoRequest EXCEPT !.pc = "contents", !.job = j]
    OBVIOUS
  <2>3. x \in Request /\ x.pc = "contents"
    BY <1>2, <2>2 DEF Request
  <2>4. /\ proposed < MaxProposals /\ proposed' = proposed + 1
        /\ UNCHANGED <<commits, hooks, branches, audit>>
    BY <1>7 DEF Propose
  <2>5. proposed' \in 0..MaxProposals
    BY <1>3, <2>4, ProposalAssumption
  <2> QED
    BY <1>3, <2>1, <2>2, <2>3, <2>4, <2>5, RequestType
<1>8. CASE GetContents(r)
  <2>1. PICK m \in Manifests : m = commits[Head_].manifest
    BY <1>3, CommitManifest DEF Head_
  <2>2. PICK x : x = [q EXCEPT !.pc = "head", !.file = m]
    OBVIOUS
  <2>3. x \in Request /\ x.pc = "head"
    BY <2>2 DEF Request
  <2> QED
    BY <1>1, <1>3, <1>8, <2>1, <2>2, <2>3, RequestType DEF GetContents
<1>9. CASE GetBranch(r)
  <2>1. UNCHANGED <<commits, hooks, branches, audit, proposed>>
    BY <1>9 DEF GetBranch
  <2>2. PICK x : x = [q EXCEPT !.pc = "branch", !.base = Len(commits)]
    OBVIOUS
  <2>3. x \in Request /\ x.base = Len(commits)
    BY <1>3, <2>2 DEF Request
  <2>4. SetProp(r, x) \/ Answer(r)
    BY <1>1, <1>9, <2>2 DEF GetBranch, Head_
  <2> QED
    BY <1>3, <1>4, <2>1, <2>3, <2>4, RequestType
<1>10. CASE CreateBranch(r)
  <2>1. q.base \in 1..Len(commits)
    BY <1>1, <1>10 DEF CreateBranch, CommitInv
  <2>2. PICK m \in Manifests : m = commits[prop[r].base].manifest
    BY <1>1, <2>1, CommitManifest
  <2>3. PICK n \in Nat : n = Len(branches) + 1
    BY <1>3
  <2>4. PICK x : x = [q EXCEPT !.pc = "put", !.branch = n]
    OBVIOUS
  <2>5. x \in Request /\ x.pc = "put"
    BY <2>4 DEF Request
  <2>6. PICK b : b = [base |-> q.base, job |-> q.job, manifest |-> m, pr |-> "none"]
    OBVIOUS
  <2>7. b \in JobBranch /\ b.base = q.base
    BY <2>6 DEF JobBranch, Request
  <2>8. branches' = Append(branches, b) /\ SetProp(r, x) /\ UNCHANGED <<commits, hooks, audit, proposed>>
    BY <1>1, <1>10, <2>2, <2>3, <2>4, <2>6 DEF CreateBranch
  <2>9. branches' \in Seq(JobBranch) /\ \A i \in DOMAIN branches' : branches'[i].base \in 1..Len(commits)
    BY <1>3, <2>1, <2>7, <2>8
  <2> QED
    BY <1>3, <2>5, <2>8, <2>9, RequestType
<1>11. CASE PutFile(r) \/ CreatePR(r)
  <2>1. PICK b : b = q.branch
    OBVIOUS
  <2>2. PICK old : old = branches[b]
    OBVIOUS
  <2>3. b \in DOMAIN branches => old \in JobBranch /\ old.base \in 1..Len(commits)
    BY <1>3, <2>2
  <2>4. UNCHANGED <<commits, hooks, audit, proposed>>
    BY <1>11 DEF PutFile, CreatePR
  <2>5. ASSUME NEW e, e \in {"pr", "audit"}, SetProp(r, [q EXCEPT !.pc = e]),
               NEW new, b \in DOMAIN branches => new \in JobBranch /\ new.base = old.base,
               branches' = [branches EXCEPT ![b] = new]
        PROVE  TypeInv'
    <3>1. PICK x : x = [q EXCEPT !.pc = e]
      OBVIOUS
    <3>2. x \in Request /\ x.pc = e
      BY <2>5, <3>1 DEF Request
    <3>3. branches' \in Seq(JobBranch) /\ DOMAIN branches' = DOMAIN branches
      BY <1>3, <2>5, SeqEdit
    <3>4. \A i \in DOMAIN branches' : branches'[i] = IF i = b THEN new ELSE branches[i]
      BY <1>3, <2>5, SeqEdit
    <3>5. \A i \in DOMAIN branches' : branches'[i].base \in 1..Len(commits)
      BY <1>3, <2>3, <2>5, <3>3, <3>4
    <3> QED
      BY <1>3, <2>4, <2>5, <3>1, <3>2, <3>3, <3>5, RequestType
  <2>6. CASE PutFile(r)
    <3>1. CASE branches[prop[r].branch].manifest = prop[r].file
      <4>1. PICK m \in Manifests : m = AppendSchedule(prop[r].file, prop[r].job)
        BY <1>1, AppendType, ProposalAssumption DEF Request
      <4>2. PICK new : new = [old EXCEPT !.manifest = m]
        OBVIOUS
      <4>3. b \in DOMAIN branches => new \in JobBranch /\ new.base = old.base
        BY <2>3, <4>2 DEF JobBranch
      <4>4. branches' = [branches EXCEPT ![b] = new]
        BY <1>1, <2>1, <2>2, <2>6, <3>1, <4>1, <4>2 DEF PutFile
      <4>5. SetProp(r, [q EXCEPT !.pc = "pr"])
        BY <1>1, <2>6, <3>1 DEF PutFile
      <4> QED
        BY <2>5, <4>3, <4>4, <4>5
    <3>2. CASE branches[prop[r].branch].manifest # prop[r].file
      BY <1>3, <1>4, <2>4, <2>6, <3>2 DEF PutFile
    <3> QED
      BY <3>1, <3>2
  <2>7. CASE CreatePR(r)
    <3>1. PICK new : new = [old EXCEPT !.pr = "open"]
      OBVIOUS
    <3>2. b \in DOMAIN branches => new \in JobBranch /\ new.base = old.base
      BY <2>3, <3>1 DEF JobBranch
    <3>3. branches' = [branches EXCEPT ![b] = new] /\ SetProp(r, [q EXCEPT !.pc = "audit"])
      BY <1>1, <2>1, <2>2, <2>7, <3>1 DEF CreatePR
    <3> QED
      BY <2>5, <3>2, <3>3
  <2> QED
    BY <1>11, <2>6, <2>7
<1> QED
  BY <1>5, <1>6, <1>7, <1>8, <1>9, <1>10, <1>11 DEF ProposalStep

\* A merge makes a commit of what is on the job branch.
LEMMA MergeStep ==
    ASSUME TypeInv, NEW b \in DOMAIN branches, Merge(b)
    PROVE  /\ RepoTypeOK' /\ Grown
           /\ branches' \in Seq(JobBranch) /\ DOMAIN branches' = DOMAIN branches
           /\ branches[b].pr = "open"
           /\ \A i \in DOMAIN branches :
                /\ branches'[i].base = branches[i].base
                /\ branches'[i].job = branches[i].job
                /\ branches'[i].manifest = branches[i].manifest
                /\ i # b => branches'[i].pr = branches[i].pr
<1> USE DEF TypeInv, TypeOK
<1>1. PICK old \in JobBranch : old = branches[b]
  BY DEF ProposalTypeOK
<1>2. PICK c \in CommitContents : c = commits[Head_]
  BY CommitManifest, CommitsAssumption DEF Head_, RepoTypeOK
<1>3. PICK m \in Manifests : m = branches[b].manifest
  BY <1>1 DEF JobBranch
<1>4. [c EXCEPT !.manifest = m] \in CommitContents
  BY DEF CommitContents
<1>5. RepoTypeOK' /\ Grown
  <2>1. NewHead([c EXCEPT !.manifest = m])
    BY <1>2, <1>3 DEF Merge
  <2> QED
    BY <1>4, <2>1, NewHeadStep
<1>6. PICK new : new = [old EXCEPT !.pr = "merged"]
  OBVIOUS
<1>7. /\ new \in JobBranch
      /\ new.base = old.base /\ new.job = old.job /\ new.manifest = old.manifest
  BY <1>6 DEF JobBranch
<1>8. branches' = [branches EXCEPT ![b] = new]
  BY <1>1, <1>6 DEF Merge
<1>9. branches \in Seq(JobBranch)
  BY DEF ProposalTypeOK
<1>10. /\ branches' \in Seq(JobBranch) /\ DOMAIN branches' = DOMAIN branches
       /\ \A i \in DOMAIN branches : branches'[i] = IF i = b THEN new ELSE branches[i]
  BY <1>7, <1>8, <1>9, SeqEdit
<1> QED
  BY <1>1, <1>5, <1>7, <1>10 DEF Merge

\* TypeInv is inductive.
LEMMA NextTypeInv == TypeInv /\ [Next]_vars => TypeInv'
<1> SUFFICES ASSUME TypeInv, [Next]_vars
             PROVE  TypeInv'
  OBVIOUS
<1>1. CASE PeoplePush /\ UNCHANGED <<syncVars, propVars>>
  <2>1. PICK c \in CommitContents : NewHead(c)
    BY <1>1, ContentAssumption DEF PeoplePush
  <2>2. RepoTypeOK' /\ Grown
    BY <2>1, NewHeadStep DEF TypeInv, TypeOK
  <2>3. ProposalTypeOK' /\ \A b \in DOMAIN branches' : branches'[b].base \in 1..Len(commits)
    BY <1>1 DEF TypeInv, TypeOK, ProposalTypeOK, propVars, CommitInv
  <2> QED
    BY <1>1, <2>2, <2>3, GrowthType DEF propVars
<1>2. CASE SyncNext /\ UNCHANGED propVars
  <2>1. CASE LoseWebhook \/ Connect \/ Disconnect
    BY <1>2, <2>1, ConnectionType
  <2>2. ASSUME NEW s \in Syncs, Deliver(s) \/ TriggerSync(s) \/ SyncStep(s) \/ SyncFails(s)
        PROVE  TypeInv'
    BY <1>2, <2>2, ReadingType, CommitType, MarkType, Zenon DEF SyncStep
  <2> QED
    BY <1>2, <2>1, <2>2 DEF SyncNext
<1>3. ASSUME NEW r \in Requests, ProposalStep(r) \/ RequestFails(r) \/ Propose(r), UNCHANGED syncVars
      PROVE  TypeInv'
  BY <1>3, ProposalType
<1>4. ASSUME NEW b \in DOMAIN branches, Merge(b), UNCHANGED syncVars
      PROVE  TypeInv'
  <2>1. ProposalTypeOK' /\ UNCHANGED prop
    BY <1>4, MergeStep DEF Merge, TypeInv, TypeOK, ProposalTypeOK
  <2>2. \A i \in DOMAIN branches' : branches'[i].base \in 1..Len(commits)
    BY <1>4, MergeStep DEF TypeInv, CommitInv
  <2> QED
    BY <1>4, <2>1, <2>2, MergeStep, GrowthType
<1>5. CASE UNCHANGED vars
  BY <1>5 DEF vars, syncVars, propVars, TypeInv, TypeOK, RepoTypeOK, SyncTypeOK, ProposalTypeOK, CommitInv
<1> QED
  BY <1>1, <1>2, <1>3, <1>4, <1>5 DEF Next, ProposeJob, ProposalNext

-----------------------------------------------------------------------------
(* Row locks: LockInv is inductive.                                         *)

\* A valid manifest lists a path once, so its entry is the one EntryAt names,
\* and the names under it are schedule names.
LEMMA NamesKnown ==
    ASSUME NEW m \in Manifests, Validate(m), NEW p \in PathsOf(m)
    PROVE  NamesOf(m, p) \subseteq Names
<1>1. PICK k \in DOMAIN m.skills : m.skills[k].path = p
  BY DEF PathsOf
<1>2. \A i, j \in DOMAIN m.skills : m.skills[i].path = m.skills[j].path => i = j
  BY DEF Validate, Distinct, SkillPaths
<1>3. DOMAIN m.skills = 1..Len(m.skills) /\ Len(m.skills) \in Nat
  BY ManifestPaths
<1>4. \A j \in 1..(k - 1) : m.skills[j].path # p
  BY <1>1, <1>2, <1>3
<1>5. EntryAt(m, p) \in DOMAIN m.skills
  BY <1>1, <1>4 DEF EntryAt
<1>6. PICK e \in SkillEntries : e = m.skills[EntryAt(m, p)]
  BY <1>5, ManifestPaths
<1>7. \A j \in DOMAIN e.schedules : e.schedules[j] \in ScheduleEntries
  BY DEF SkillEntries
<1>8. \A j \in DOMAIN e.schedules : e.schedules[j].name \in Names
  BY <1>7 DEF ScheduleEntries
<1> QED
  BY <1>6, <1>8 DEF NamesOf

\* The manifest of a sync that has fetched its commit.
LEMMA FetchedManifest ==
    ASSUME TypeInv, NEW s \in Syncs, sync[s].pc \in Fetched
    PROVE  sync[s].head \in 1..Len(commits) /\ Manifest(s) \in Manifests
<1>1. sync[s].head \in 1..Len(commits)
  BY DEF TypeInv, CommitInv
<1> QED
  BY <1>1, CommitManifest DEF Manifest, TypeInv, TypeOK

\* LockInv holds initially: nothing is locked and there are no rows.
LEMMA InitLockInv == Init => LockInv
<1> SUFFICES ASSUME Init
             PROVE  LockInv
  OBVIOUS
<1>1. \A s \in Syncs : sync[s] = Idle
  BY DEF Init, SyncInit
<1>2. Idle.pc = "off" /\ Idle.held = {} /\ Idle.del = {}
  BY DEF Idle
<1>3. \A s \in Syncs : Held(s) = {}
  BY <1>1, <1>2 DEF Held
<1>4. \A s \in Syncs : CallInv(s) /\ TransactionInv(s)
  BY <1>1, <1>2, <1>3 DEF CallInv, TransactionInv, InTransaction
<1>5. Exclusive /\ conn.id <= connects
  BY <1>3 DEF Exclusive, Init, SyncInit, NoConn
<1>6. SkillRowConsistent /\ NoOrphanRows
  BY DEF SkillRowConsistent, NoOrphanRows, Init, SyncInit, NoSkill
<1> QED
  BY <1>4, <1>5, <1>6 DEF LockInv

\* A step of one sync that writes nothing.
LEMMA CallLock ==
    ASSUME LockInv, NEW s \in Syncs, OnlyMoved(s), CallInv(s)', TransactionInv(s)',
           \A t \in Syncs \ {s} : Held(s)' \cap Held(t) = {},
           UNCHANGED <<commits, rows, connects>>, conn'.id = conn.id
    PROVE  LockInv'
<1>1. \A t \in Syncs \ {s} : sync'[t] = sync[t] /\ Held(t)' = Held(t)
  BY DEF OnlyMoved, Held
<1>2. \A t \in Syncs : CallInv(t)' /\ TransactionInv(t)'
  <2> TAKE t \in Syncs
  <2>1. CASE t # s
    <3>1. CallInv(t)'
      BY <1>1, <2>1 DEF LockInv, CallInv
    <3>2. TransactionInv(t)'
      BY <1>1, <2>1 DEF LockInv, TransactionInv, Manifest
    <3> QED
      BY <3>1, <3>2
  <2> QED
    BY <2>1
<1>3. Exclusive'
  BY <1>1 DEF LockInv, Exclusive
<1>4. SkillRowConsistent' /\ NoOrphanRows' /\ conn'.id <= connects'
  BY DEF LockInv, SkillRowConsistent, IsSynced, NoOrphanRows, Connected
<1> QED
  BY <1>2, <1>3, <1>4 DEF LockInv

\* A sync that holds no row afterwards.
LEMMA FreeLock ==
    ASSUME LockInv, NEW s \in Syncs, OnlyMoved(s), LetsGo(s), sync'[s].pc \notin InTransaction,
           sync'[s].pc # "off" => sync'[s].conn \in 1..connects,
           UNCHANGED <<commits, rows, connects>>, conn'.id = conn.id
    PROVE  LockInv'
<1>1. Held(s)' = {}
  BY DEF Held, LetsGo
<1>2. CallInv(s)' /\ TransactionInv(s)'
  BY <1>1 DEF CallInv, TransactionInv, InTransaction
<1> QED
  BY <1>1, <1>2, CallLock

\* The steps of a sync that end it, fail it or come before the transaction.
LEMMA OutsideLock ==
    ASSUME TypeInv, LockInv, NEW s \in Syncs,
           \/ Deliver(s) \/ TriggerSync(s) \/ GetBranchHead(s) \/ MarkOK(s) \/ MarkErr(s)
           \/ DeadlockDetected(s) \/ SyncFails(s)
    PROVE  LockInv'
<1>1. SyncTypeOK /\ CallInv(s)
  BY DEF TypeInv, TypeOK, LockInv
<1>2. UNCHANGED <<commits, rows, connects>>
  BY DEF Deliver, TriggerSync, GetBranchHead, MarkOK, MarkErr, DeadlockDetected, SyncFails
<1>3. conn'.id = conn.id
  <2>1. PICK c \in Connection : c = conn
    BY <1>1 DEF SyncTypeOK
  <2>2. \A sha : [c EXCEPT !.sha = sha, !.err = FALSE].id = c.id
    BY DEF Connection
  <2>3. [c EXCEPT !.err = TRUE].id = c.id
    BY DEF Connection
  <2> QED
    BY <2>1, <2>2, <2>3 DEF Deliver, TriggerSync, GetBranchHead, MarkOK, MarkErr, DeadlockDetected,
       SyncFails, MarkRepoSyncedOK, MarkRepoSyncError
<1>4. CASE GetRepoConnection(s)
  <2>1. conn.id \in 1..connects
    BY <1>1, <1>4, SyncAssumption DEF GetRepoConnection, Connected, LockInv, SyncTypeOK, Connection
  <2> QED
    BY <1>1, <1>2, <1>3, <1>4, <2>1, StartStep, FreeLock DEF InTransaction
<1>5. CASE UNCHANGED sync
  <2>1. OnlyMoved(s) /\ Held(s)' = Held(s)
    BY <1>1, <1>5 DEF OnlyMoved, SyncTypeOK, Held
  <2>2. CallInv(s)'
    BY <1>1, <1>2, <1>3, <1>5, <2>1 DEF CallInv
  <2>3. TransactionInv(s)'
    BY <1>2, <1>5 DEF LockInv, TransactionInv, Manifest
  <2>4. \A t \in Syncs \ {s} : Held(s)' \cap Held(t) = {}
    BY <2>1 DEF LockInv, Exclusive
  <2> QED
    BY <1>2, <1>3, <2>1, <2>2, <2>3, <2>4, CallLock
<1>6. CASE GetBranchHead(s)
  <2>1. sync[s].pc = "head" /\ sync[s].held = {} /\ sync[s].del = {}
    BY <1>1, <1>6 DEF GetBranchHead, CallInv, InTransaction, Held
  <2>2. Held(s)' = {} /\ sync'[s].conn \in 1..connects
    BY <1>1, <1>6, <2>1, HeadStep DEF Held, CallInv
  <2>3. CallInv(s)' /\ TransactionInv(s)'
    BY <1>2, <1>6, <2>2, HeadStep DEF CallInv, TransactionInv, InTransaction
  <2> QED
    BY <1>2, <1>3, <1>6, <2>2, <2>3, HeadStep, CallLock
<1>7. CASE MarkOK(s) \/ MarkErr(s)
  <2>1. Return(s)
    BY <1>7 DEF MarkOK, MarkErr
  <2> QED
    BY <1>1, <1>2, <1>3, <2>1, ReturnStep, FreeLock DEF InTransaction
<1>8. CASE DeadlockDetected(s) \/ SyncFails(s)
  <2>1. sync'[s].pc # "off" => sync'[s].conn \in 1..connects
    BY <1>1, <1>8, GivesUpStep DEF Keeps, CallInv
  <2> QED
    BY <1>1, <1>2, <1>3, <1>8, <2>1, GivesUpStep, FreeLock DEF InTransaction
<1> QED
  BY <1>4, <1>5, <1>6, <1>7, <1>8 DEF Deliver, TriggerSync

\* The steps of a transaction up to its commit.
LEMMA InsideLock ==
    ASSUME TypeInv, LockInv, NEW s \in Syncs,
           CloneAndLoad(s) \/ UpsertSkill(s) \/ DeleteMissingSkills(s) \/ UpsertSchedules(s)
    PROVE  LockInv'
<1>1. SyncTypeOK /\ CallInv(s) /\ TransactionInv(s)
  BY DEF TypeInv, TypeOK, LockInv
<1>2. /\ UNCHANGED <<commits, rows, connects, conn>> /\ conn'.id = conn.id
      /\ sync[s].pc \in Fetched /\ sync[s].pc # "off"
  BY DEF CloneAndLoad, UpsertSkill, DeleteMissingSkills, UpsertSchedules, Fetched
<1>3. PICK m \in Manifests : m = Manifest(s)
  BY <1>2, FetchedManifest
<1>4. /\ m.skills \in Seq(SkillEntries) /\ Len(m.skills) \in Nat
      /\ DOMAIN m.skills = 1..Len(m.skills) /\ sync[s].next \in Nat
  BY <1>1, ManifestPaths DEF SyncTypeOK, SyncCall
<1>5. ASSUME Keeps(s) PROVE Manifest(s)' = m
  BY <1>2, <1>3, <1>5 DEF Keeps, Manifest
<1>6. ASSUME OnlyMoved(s), Keeps(s), sync'[s].pc = "markErr", LetsGo(s)
      PROVE  LockInv'
  <2>1. sync'[s].conn \in 1..connects
    BY <1>1, <1>2, <1>6 DEF Keeps, CallInv
  <2> QED
    BY <1>2, <1>6, <2>1, FreeLock DEF InTransaction
<1>7. CASE CloneAndLoad(s)
  <2>1. CASE sync'[s].pc = "markErr" /\ LetsGo(s)
    BY <1>1, <1>6, <1>7, <2>1, CloneStep
  <2>2. CASE /\ sync'[s].pc = "skills" /\ sync'[s].next = 1
             /\ sync'[s].held = sync[s].held /\ sync'[s].del = sync[s].del
             /\ Validate(Manifest(s))
    <3>1. OnlyMoved(s) /\ Keeps(s)
      BY <1>1, <1>7, CloneStep
    <3>2. Held(s)' = {}
      BY <1>1, <1>7, <2>2 DEF CloneAndLoad, CallInv, InTransaction, Held
    <3>3. CallInv(s)'
      BY <1>1, <1>2, <2>2, <3>1, <3>2 DEF CallInv, Keeps
    <3>4. TransactionInv(s)'
      BY <1>3, <1>4, <1>5, <2>2, <3>1 DEF TransactionInv, InTransaction
    <3> QED
      BY <1>2, <3>1, <3>2, <3>3, <3>4, CallLock
  <2> QED
    BY <1>1, <1>7, <2>1, <2>2, CloneStep
<1>8. CASE UpsertSkill(s)
  <2>1. sync[s].pc = "skills" /\ sync[s].next <= Len(m.skills)
    BY <1>3, <1>8 DEF UpsertSkill
  <2>2. CASE sync'[s].pc = "markErr" /\ LetsGo(s)
    BY <1>6, <1>8, <2>2, SkillStep
  <2>3. PICK p : p = m.skills[sync[s].next].path
    OBVIOUS
  <2>4. CASE /\ sync'[s].pc = "skills" /\ sync'[s].next = sync[s].next + 1
             /\ sync'[s].held = sync[s].held \cup {p} /\ sync'[s].del = sync[s].del
             /\ sync[s].conn = conn.id
             /\ \A t \in Syncs \ {s} : p \notin Held(t)
    <3>1. OnlyMoved(s) /\ Keeps(s)
      BY <1>8, SkillStep
    <3>2. Held(s)' = Held(s) \cup {p}
      BY <2>4 DEF Held
    <3>3. \A t \in Syncs \ {s} : Held(s)' \cap Held(t) = {}
      BY <2>4, <3>2 DEF LockInv, Exclusive
    <3>4. CallInv(s)'
      BY <1>1, <1>2, <2>4, <3>1 DEF CallInv, Keeps, InTransaction
    <3>5. \A i \in DOMAIN m.skills : i < sync[s].next + 1 => m.skills[i].path \in sync'[s].held
      <4> TAKE i \in DOMAIN m.skills
      <4>1. CASE i = sync[s].next
        BY <2>3, <2>4, <4>1
      <4>2. CASE i < sync[s].next
        BY <1>1, <1>3, <2>1, <2>4, <4>2 DEF TransactionInv
      <4> QED
        BY <1>4, <4>1, <4>2
    <3>6. TransactionInv(s)'
      BY <1>1, <1>3, <1>5, <2>1, <2>4, <3>1, <3>5 DEF TransactionInv, InTransaction
    <3> QED
      BY <1>2, <3>1, <3>3, <3>4, <3>6, CallLock
  <2> QED
    BY <1>3, <1>8, <2>2, <2>3, <2>4, SkillStep
<1>9. CASE DeleteMissingSkills(s)
  <2>1. /\ OnlyMoved(s) /\ Keeps(s) /\ sync[s].pc = "skills" /\ sync[s].next > Len(m.skills)
        /\ sync'[s].pc = "schedules" /\ sync'[s].held = sync[s].held /\ sync'[s].del = Missing(s)
        /\ \A t \in Syncs \ {s} : Missing(s) \cap Held(t) = {}
    BY <1>1, <1>3, <1>9, DeleteStep
  <2>2. \A t \in Syncs \ {s} : Held(s)' \cap Held(t) = {}
    BY <2>1 DEF LockInv, Exclusive, Held
  <2>3. sync[s].conn # conn.id => Missing(s) = {}
    BY DEF Missing
  <2>4. CallInv(s)'
    BY <1>1, <1>2, <2>1, <2>3 DEF CallInv, Keeps, InTransaction, Held
  <2>5. PathsOf(m) \subseteq sync[s].held
    <3>1. \A i \in DOMAIN m.skills : m.skills[i].path \in sync[s].held
      BY <1>1, <1>3, <1>4, <2>1 DEF TransactionInv
    <3> QED
      BY <3>1 DEF PathsOf
  <2>6. TransactionInv(s)'
    BY <1>1, <1>3, <1>5, <2>1, <2>5 DEF TransactionInv, InTransaction
  <2> QED
    BY <1>2, <2>1, <2>2, <2>4, <2>6, CallLock
<1>10. CASE UpsertSchedules(s)
  <2>1. CASE sync'[s].pc = "markErr" /\ LetsGo(s)
    BY <1>6, <1>10, <2>1, SchedulesStep
  <2>2. CASE /\ sync'[s].pc = "commit"
             /\ sync'[s].held = sync[s].held /\ sync'[s].del = sync[s].del
             /\ \A p \in PathsOf(Manifest(s)) : \A n \in MissingNames(s, p) :
                    <<p, n>> \in sync'[s].off
    <3>1. OnlyMoved(s) /\ Keeps(s) /\ sync[s].pc = "schedules"
      BY <1>10, SchedulesStep
    <3>2. Held(s)' = Held(s)
      BY <2>2 DEF Held
    <3>3. CallInv(s)'
      BY <1>1, <1>2, <2>2, <3>1, <3>2 DEF CallInv, Keeps, InTransaction
    <3>4. ASSUME NEW p \in PathsOf(m), NEW n \in Names
          PROVE  \/ rows[p].sch[n] = "none"
                 \/ n \in NamesOf(m, p)
                 \/ <<p, n>> \in sync'[s].off
      BY <1>3, <2>2 DEF MissingNames
    <3>5. TransactionInv(s)'
      BY <1>1, <1>2, <1>3, <1>5, <2>2, <3>1, <3>4 DEF TransactionInv, InTransaction
    <3>6. \A t \in Syncs \ {s} : Held(s)' \cap Held(t) = {}
      BY <3>2 DEF LockInv, Exclusive
    <3> QED
      BY <1>2, <3>1, <3>3, <3>5, <3>6, CallLock
  <2> QED
    BY <1>10, <2>1, <2>2, SchedulesStep
<1> QED
  BY <1>7, <1>8, <1>9, <1>10

\* A row nobody writes stays synced with its commit, whatever is pushed.
LEMMA SyncedKept ==
    ASSUME Grown, NEW p \in Paths, NEW c \in 1..Len(commits), rows'[p] = rows[p], IsSynced(p, c)
    PROVE  IsSynced(p, c)'
BY DEF Grown, IsSynced

\* What the commit of sync s writes: the rows of its manifest are those of its
\* commit, the rows it deletes are gone, and it writes no row it does not hold.
LEMMA CommitWrites ==
    ASSUME TypeInv, LockInv, NEW s \in Syncs, Commit(s), NEW h, h = sync[s].head
    PROVE  /\ \A p \in PathsOf(Manifest(s)) : IsSynced(p, h)'
           /\ \A p \in Paths \ PathsOf(Manifest(s)) :
                 rows'[p] = IF p \in sync[s].del THEN NoSkill ELSE rows[p]
           /\ \A p \in Paths \ Held(s) : rows'[p] = rows[p]
<1>1. sync[s].pc = "commit" /\ commits' = commits /\ TransactionInv(s)
  BY DEF Commit, LockInv
<1>2. PICK m \in Manifests : m = Manifest(s)
  BY <1>1, FetchedManifest DEF Fetched
<1>3. Validate(m) /\ PathsOf(m) \subseteq sync[s].held /\ PathsOf(m) \subseteq Paths
  BY <1>1, <1>2, ManifestPaths DEF TransactionInv, InTransaction
<1>4. \A p \in Paths : rows'[p] = IF p \in PathsOf(m) THEN SkillRow(s, p)
                                   ELSE IF p \in sync[s].del THEN NoSkill ELSE rows[p]
  BY <1>2 DEF Commit
<1>5. ASSUME NEW p \in PathsOf(m)
      PROVE  IsSynced(p, h)'
  <2>1. PICK sch : sch = ScheduleRows(s, p)
    OBVIOUS
  <2>2. rows'[p].sha = h /\ rows'[p].sch = sch
    <3>1. rows'[p] = SkillRow(s, p)
      BY <1>3, <1>4, <1>5
    <3>2. SkillRow(s, p) = [sha |-> h, sch |-> sch]
      BY <2>1 DEF SkillRow
    <3> QED
      BY <3>1, <3>2
  <2>3. NamesOf(m, p) \subseteq Names
    BY <1>3, <1>5, NamesKnown
  <2>4. \A n \in Names : sch[n] = "on" <=> n \in NamesOf(m, p)
    <3> TAKE n \in Names
    <3>1. sch[n] = IF n \in NamesOf(m, p) THEN "on"
                   ELSE IF <<p, n>> \in sync[s].off THEN "off" ELSE rows[p].sch[n]
      BY <1>2, <2>1 DEF ScheduleRows
    <3>2. rows[p].sch[n] = "none" \/ n \in NamesOf(m, p) \/ <<p, n>> \in sync[s].off
      BY <1>1, <1>2, <1>5 DEF TransactionInv
    <3> QED
      BY <3>1, <3>2
  <2>5. {n \in Names : rows'[p].sch[n] = "on"} = NamesOf(m, p)
    BY <2>2, <2>3, <2>4
  <2>6. commits'[h].manifest = m
    BY <1>1, <1>2 DEF Manifest
  <2> QED
    BY <1>5, <2>2, <2>5, <2>6 DEF IsSynced
<1> QED
  BY <1>2, <1>3, <1>4, <1>5 DEF Held

\* The commit.
LEMMA CommitLock ==
    ASSUME TypeInv, LockInv, NEW s \in Syncs, Commit(s)
    PROVE  LockInv'
<1>1. SyncTypeOK /\ CallInv(s) /\ TransactionInv(s)
  BY DEF TypeInv, TypeOK, LockInv
<1>2. UNCHANGED <<commits, connects, conn>> /\ sync[s].pc = "commit"
  BY DEF Commit
<1>3. OnlyMoved(s) /\ Keeps(s) /\ sync'[s].pc = "markOK" /\ Held(s)' = {}
  BY <1>1, CommitStep DEF LetsGo, Held
<1>4. \A t \in Syncs \ {s} : sync'[t] = sync[t] /\ Held(t)' = Held(t) /\ Manifest(t)' = Manifest(t)
  BY <1>2, <1>3 DEF OnlyMoved, Held, Manifest
<1>5. Grown
  BY <1>2 DEF Grown, TypeInv, TypeOK, RepoTypeOK
<1>6. \A t \in Syncs : CallInv(t)'
  BY <1>1, <1>2, <1>3, <1>4 DEF LockInv, CallInv, Keeps, InTransaction
<1>7. ASSUME NEW t \in Syncs
      PROVE  TransactionInv(t)'
  <2>1. CASE t = s
    BY <1>3, <2>1 DEF TransactionInv, InTransaction
  <2>2. CASE t # s
    <3>1. TransactionInv(t) /\ sync'[t] = sync[t] /\ Manifest(t)' = Manifest(t)
      BY <1>4, <2>2 DEF LockInv
    <3>2. CASE sync[t].pc # "commit"
      BY <3>1, <3>2 DEF TransactionInv
    <3>3. CASE sync[t].pc = "commit"
      <4>1. PathsOf(Manifest(t)) \subseteq Paths \ Held(s)
        <5>1. PathsOf(Manifest(t)) \subseteq Held(t)
          BY <3>1, <3>3 DEF TransactionInv, Held
        <5>2. Held(t) \cap Held(s) = {}
          BY <2>2 DEF LockInv, Exclusive
        <5>3. PathsOf(Manifest(t)) \subseteq Paths
          BY <3>3, FetchedManifest, ManifestPaths DEF Fetched
        <5> QED
          BY <5>1, <5>2, <5>3
      <4>2. \A p \in PathsOf(Manifest(t)) : rows'[p] = rows[p]
        BY <4>1, CommitWrites
      <4> QED
        BY <3>1, <3>3, <4>2 DEF TransactionInv
    <3> QED
      BY <3>2, <3>3
  <2> QED
    BY <2>1, <2>2
<1>8. Exclusive'
  BY <1>3, <1>4 DEF LockInv, Exclusive
<1>9. SkillRowConsistent'
  <2> SUFFICES ASSUME NEW p \in Paths, rows'[p].sha # Null
               PROVE  IsSynced(p, rows[p].sha)'
    BY DEF SkillRowConsistent
  <2>1. CASE p \in PathsOf(Manifest(s))
    <3>1. PICK h : h = sync[s].head
      OBVIOUS
    <3>2. IsSynced(p, h)' /\ PathsOf(Manifest(s)) = PathsOf(commits'[h].manifest)
      BY <1>2, <2>1, <3>1, CommitWrites DEF Manifest
    <3>3. rows'[p].sha = h
      BY <2>1, <3>2 DEF IsSynced
    <3> QED
      BY <3>2, <3>3
  <2>2. CASE p \notin PathsOf(Manifest(s)) /\ p \in sync[s].del
    BY <2>2, CommitWrites DEF NoSkill
  <2>3. CASE rows'[p] = rows[p]
    <3>1. PICK c : c = rows[p].sha
      OBVIOUS
    <3>2. IsSynced(p, c) /\ c \in 1..Len(commits)
      BY <2>3, <3>1 DEF LockInv, SkillRowConsistent, TypeInv, CommitInv, Null
    <3>3. IsSynced(p, c)'
      BY <1>5, <2>3, <3>2, SyncedKept
    <3> QED
      BY <2>3, <3>1, <3>3
  <2> QED
    BY <2>1, <2>2, <2>3, CommitWrites
<1>10. NoOrphanRows'
  <2> SUFFICES ASSUME ~Connected
               PROVE  \A p \in Paths : rows'[p] = NoSkill
    BY <1>2 DEF NoOrphanRows, Connected
  <2>1. sync[s].conn # conn.id
    BY <1>1, <1>2 DEF CallInv, Connected
  <2>2. Held(s) = {}
    BY <1>1, <2>1 DEF CallInv
  <2> QED
    BY <2>2, CommitWrites DEF LockInv, NoOrphanRows
<1> QED
  BY <1>2, <1>6, <1>7, <1>8, <1>9, <1>10 DEF LockInv

\* A connection is made when there is none, so no sync holds rows; it goes
\* away only when no sync does.
LEMMA ConnectionLock ==
    ASSUME TypeInv, LockInv, LoseWebhook \/ Connect \/ Disconnect
    PROVE  LockInv'
<1>1. UNCHANGED <<commits, sync>>
  BY DEF LoseWebhook, Connect, Disconnect
<1>2. \A s \in Syncs : Held(s)' = Held(s) /\ Manifest(s)' = Manifest(s)
  BY <1>1 DEF Held, Manifest
<1>3. Exclusive'
  BY <1>2 DEF LockInv, Exclusive
<1>4. connects \in Nat /\ conn.id \in Nat
  BY SyncAssumption DEF TypeInv, TypeOK, SyncTypeOK, Connection
<1>5. CASE UNCHANGED <<conn, rows, connects>>
  <2>1. \A s \in Syncs : CallInv(s)' /\ TransactionInv(s)'
    BY <1>1, <1>2, <1>5 DEF LockInv, CallInv, TransactionInv
  <2>2. SkillRowConsistent' /\ NoOrphanRows' /\ conn'.id <= connects'
    BY <1>1, <1>5 DEF LockInv, SkillRowConsistent, IsSynced, NoOrphanRows, Connected
  <2> QED
    BY <1>3, <2>1, <2>2 DEF LockInv
<1>6. CASE ~Connected /\ Connect
  <2>1. conn'.id = connects + 1 /\ connects' = connects + 1 /\ rows' = rows
    BY <1>6 DEF Connect, InsertRepoConnection, NoConn
  <2>2. \A s \in Syncs : Held(s) = {}
    BY <1>4, <1>6 DEF LockInv, CallInv, Connected, InTransaction
  <2>3. \A s \in Syncs : CallInv(s)'
    BY <1>1, <1>2, <1>4, <2>1, <2>2 DEF LockInv, CallInv
  <2>4. \A s \in Syncs : TransactionInv(s)'
    BY <1>1, <1>2, <2>1 DEF LockInv, TransactionInv
  <2>5. SkillRowConsistent' /\ NoOrphanRows' /\ conn'.id <= connects'
    BY <1>1, <1>4, <2>1 DEF LockInv, SkillRowConsistent, IsSynced, NoOrphanRows, Connected
  <2> QED
    BY <1>3, <2>3, <2>4, <2>5 DEF LockInv
<1>7. CASE Disconnect
  <2>1. /\ conn'.id = 0 /\ connects' = connects
        /\ \A p \in Paths : rows'[p] = NoSkill
        /\ \A s \in Syncs : Held(s) = {}
    BY <1>7 DEF Disconnect, DeleteRepoConnection, NoConn
  <2>2. NoSkill.sha = Null /\ \A n \in Names : NoSkill.sch[n] = "none"
    BY DEF NoSkill
  <2>3. \A s \in Syncs : CallInv(s)'
    BY <1>1, <1>2, <2>1 DEF LockInv, CallInv
  <2>4. ASSUME NEW s \in Syncs
        PROVE  TransactionInv(s)'
    <3>1. sync[s].pc = "commit" => PathsOf(Manifest(s)) \subseteq Paths
      BY FetchedManifest, ManifestPaths DEF Fetched
    <3> QED
      BY <1>1, <1>2, <2>1, <2>2, <3>1 DEF LockInv, TransactionInv
  <2>5. SkillRowConsistent' /\ NoOrphanRows' /\ conn'.id <= connects'
    BY <1>4, <2>1, <2>2 DEF SkillRowConsistent, NoOrphanRows
  <2> QED
    BY <1>3, <2>3, <2>4, <2>5 DEF LockInv
<1> QED
  BY <1>5, <1>6, <1>7 DEF LoseWebhook, Connect, InsertRepoConnection

\* The branch moves, or only proposals do.
LEMMA GrowthLock ==
    ASSUME TypeInv, LockInv, Grown, UNCHANGED syncVars
    PROVE  LockInv'
<1> USE DEF syncVars
<1>1. \A s \in Syncs : sync[s].pc \in Fetched => Manifest(s)' = Manifest(s)
  BY FetchedManifest DEF Grown, Manifest
<1>2. \A s \in Syncs : CallInv(s)' /\ Held(s)' = Held(s)
  BY DEF LockInv, CallInv, Held
<1>3. \A s \in Syncs : TransactionInv(s)'
  BY <1>1 DEF LockInv, TransactionInv, InTransaction, Fetched
<1>4. SkillRowConsistent'
  <2> SUFFICES ASSUME NEW p \in Paths, rows[p].sha # Null
               PROVE  IsSynced(p, rows[p].sha)'
    BY DEF SkillRowConsistent
  <2>1. PICK c : c = rows[p].sha
    OBVIOUS
  <2>2. IsSynced(p, c) /\ c \in 1..Len(commits)
    BY <2>1 DEF LockInv, SkillRowConsistent, TypeInv, CommitInv, Null
  <2>3. IsSynced(p, c)'
    BY <2>2, SyncedKept
  <2> QED
    BY <2>1, <2>3
<1> QED
  BY <1>2, <1>3, <1>4 DEF LockInv, Exclusive, NoOrphanRows, Connected

\* Pushes, merges and the other steps of proposals only make the branch grow.
LEMMA ElsewhereGrows ==
    ASSUME TypeInv,
           \/ PeoplePush
           \/ ProposalNext
           \/ \E r \in Requests : Propose(r)
           \/ UNCHANGED vars
    PROVE  Grown
<1>1. CASE UNCHANGED commits
  BY <1>1 DEF Grown, TypeInv, TypeOK, RepoTypeOK
<1>2. CASE PeoplePush
  BY <1>2, ContentAssumption, NewHeadStep DEF PeoplePush, TypeInv, TypeOK
<1>3. CASE \E b \in DOMAIN branches : Merge(b)
  BY <1>3, MergeStep
<1> QED
  BY <1>1, <1>2, <1>3 DEF ProposalNext, ProposalStep, Propose, GetContents, GetBranch, CreateBranch,
     PutFile, CreatePR, Audit, RequestFails, vars

\* Every step of RepoFlow preserves LockInv.
LEMMA NextLockInv == TypeInv /\ LockInv /\ [Next]_vars => LockInv'
<1> SUFFICES ASSUME TypeInv, LockInv, [Next]_vars
             PROVE  LockInv'
  OBVIOUS
<1>1. CASE SyncNext
  <2>1. ASSUME NEW s \in Syncs, Deliver(s) \/ TriggerSync(s) \/ SyncStep(s) \/ SyncFails(s)
        PROVE  LockInv'
    BY <2>1, OutsideLock, InsideLock, CommitLock, Zenon DEF SyncStep
  <2> QED
    BY <1>1, <2>1, ConnectionLock DEF SyncNext
<1>2. CASE (PeoplePush \/ ProposalNext \/ \E r \in Requests : Propose(r)) /\ UNCHANGED syncVars
  BY <1>2, ElsewhereGrows, GrowthLock
<1>3. CASE UNCHANGED vars
  BY <1>3, ElsewhereGrows, GrowthLock DEF vars, syncVars
<1> QED
  BY <1>1, <1>2, <1>3 DEF Next, ProposeJob

-----------------------------------------------------------------------------
(* The results about rows.                                                  *)

\* The invariant of the row locks, for every behaviour.
LEMMA RowsAreLocked == Spec => [](TypeInv /\ LockInv)
BY InitTypeInv, NextTypeInv, InitLockInv, NextLockInv, PTL DEF Spec

\* The enabled schedules of a skill row are those the manifest of the row's own
\* commit names, however many syncs overlap, fail or deadlock.
THEOREM RowsAreConsistent == Spec => []SkillRowConsistent
<1>1. LockInv => SkillRowConsistent
  BY DEF LockInv
<1> QED
  BY <1>1, RowsAreLocked, PTL

\* DeleteRepoConnection leaves nothing behind, and no sync that is under way
\* brings a row back.
THEOREM RowsHaveAConnection == Spec => []NoOrphanRows
<1>1. LockInv => NoOrphanRows
  BY DEF LockInv
<1> QED
  BY <1>1, RowsAreLocked, PTL

-----------------------------------------------------------------------------
(* Syncs that do not overlap: SoloInv is inductive.                         *)

\* The parts of SoloInv that are about the rows.
RowsSolo ==
    /\ \/ \A p \in Paths : rows[p] = NoSkill
       \/ \E c \in 1..Len(commits) : AllSynced(c)
    /\ Connected /\ conn.sha # Null => \E c \in conn.sha..Len(commits) : AllSynced(c)

\* SoloInv holds initially.
LEMMA InitSoloInv == Init => SoloInv
<1> SUFFICES ASSUME Init
             PROVE  SoloInv
  OBVIOUS
<1>1. \A s \in Syncs : sync[s].pc = "off"
  BY DEF Init, SyncInit, Idle
<1> QED
  BY <1>1 DEF SoloInv, SoloCall, InFlight, Init, SyncInit, Connected, NoConn

\* A step of the only sync in flight, or of one that starts alone.
LEMMA CallSolo ==
    ASSUME NEW s \in Syncs, OnlyMoved(s), \A t \in Syncs \ {s} : sync[t].pc = "off",
           SoloCall(s)', RowsSolo'
    PROVE  SoloInv'
<1>1. \A t \in Syncs \ {s} : sync'[t].pc = "off"
  BY DEF OnlyMoved
<1>2. \A t \in Syncs : SoloCall(t)'
  BY <1>1 DEF SoloCall
<1>3. \A t, u \in InFlight' : t = u
  BY <1>1 DEF InFlight
<1> QED
  BY <1>2, <1>3 DEF SoloInv, RowsSolo

\* The rows, the branch and the recorded commit are as before.
LEMMA RowsSoloKept ==
    ASSUME RowsSolo, UNCHANGED <<commits, rows>>, conn'.id = conn.id, conn'.sha = conn.sha
    PROVE  RowsSolo' /\ \A c : AllSynced(c)' <=> AllSynced(c)
<1>1. \A c : AllSynced(c)' <=> AllSynced(c)
  BY DEF AllSynced, IsSynced
<1> QED
  BY <1>1 DEF RowsSolo, Connected

\* A sync in flight is the only one.
LEMMA Alone ==
    ASSUME SoloInv, ~overlapped, NEW s \in Syncs, sync[s].pc # "off"
    PROVE  SoloCall(s) /\ RowsSolo /\ \A t \in Syncs \ {s} : sync[t].pc = "off"
BY DEF SoloInv, RowsSolo, InFlight

\* A sync starts.
LEMMA StartSolo ==
    ASSUME TypeInv, SoloInv, NEW s \in Syncs, GetRepoConnection(s), UNCHANGED <<commits, rows, conn>>,
           ~overlapped'
    PROVE  SoloInv'
<1>1. ~overlapped /\ InFlight = {}
  BY Zenon DEF GetRepoConnection
<1>2. \A t \in Syncs : sync[t].pc = "off"
  BY <1>1 DEF InFlight
<1>3. RowsSolo
  BY <1>1 DEF SoloInv, RowsSolo
<1>4. RowsSolo'
  BY <1>3, RowsSoloKept
<1>5. OnlyMoved(s) /\ sync'[s].pc = "head" /\ sync'[s].seen = conn'.sha
  BY StartStep DEF TypeInv, TypeOK
<1>6. SoloCall(s)'
  BY <1>5 DEF SoloCall, Fetched
<1> QED
  BY <1>2, <1>4, <1>5, <1>6, CallSolo

\* The steps that write neither rows nor the recorded commit.
LEMMA QuietSolo ==
    ASSUME TypeInv, LockInv, SoloInv, ~overlapped, NEW s \in Syncs,
           \/ GetBranchHead(s) \/ CloneAndLoad(s) \/ UpsertSkill(s) \/ DeleteMissingSkills(s)
           \/ UpsertSchedules(s) \/ DeadlockDetected(s) \/ SyncFails(s) \/ MarkErr(s)
    PROVE  SoloInv'
<1>1. SyncTypeOK /\ Len(commits) \in Nat /\ conn.sha \in 0..Len(commits)
  BY DEF TypeInv, TypeOK, RepoTypeOK, CommitInv
<1>2. UNCHANGED <<commits, rows>>
  BY DEF GetBranchHead, CloneAndLoad, UpsertSkill, DeleteMissingSkills, UpsertSchedules,
     DeadlockDetected, SyncFails, MarkErr
<1>3. conn'.id = conn.id /\ conn'.sha = conn.sha
  <2>1. PICK c \in Connection : c = conn
    BY <1>1 DEF SyncTypeOK
  <2>2. [c EXCEPT !.err = TRUE].id = c.id /\ [c EXCEPT !.err = TRUE].sha = c.sha
    BY DEF Connection
  <2> QED
    BY <2>1, <2>2 DEF GetBranchHead, CloneAndLoad, UpsertSkill, DeleteMissingSkills, UpsertSchedules,
       DeadlockDetected, SyncFails, MarkErr, MarkRepoSyncError
<1>4. sync[s].pc # "off"
  BY <1>1, GivesUpStep DEF GetBranchHead, CloneAndLoad, UpsertSkill, DeleteMissingSkills, UpsertSchedules, MarkErr
<1>5. SoloCall(s) /\ RowsSolo /\ \A t \in Syncs \ {s} : sync[t].pc = "off"
  BY <1>4, Alone
<1>6. RowsSolo' /\ \A c : AllSynced(c)' <=> AllSynced(c)
  BY <1>2, <1>3, <1>5, RowsSoloKept
<1>7. SUFFICES OnlyMoved(s) /\ SoloCall(s)'
  BY <1>5, <1>6, <1>7, CallSolo
<1>8. ASSUME OnlyMoved(s), sync'[s].pc = "off" \/ (sync'[s].pc = "markErr" /\ Keeps(s))
      PROVE  SoloCall(s)'
  BY <1>3, <1>4, <1>5, <1>8 DEF SoloCall, Keeps, Fetched
<1>9. CASE MarkErr(s)
  <2>1. Return(s)
    BY <1>9 DEF MarkErr
  <2> QED
    BY <1>1, <1>8, <2>1, ReturnStep
<1>10. CASE DeadlockDetected(s) \/ SyncFails(s)
  BY <1>1, <1>8, <1>10, GivesUpStep
<1>11. CASE GetBranchHead(s)
  <2>1. /\ OnlyMoved(s)
        /\ sync'[s].conn = sync[s].conn /\ sync'[s].seen = sync[s].seen /\ sync'[s].head = Len(commits)
        /\ \/ sync'[s].pc = "clone"
           \/ sync'[s].pc = "markOK" /\ sync[s].seen = Len(commits)
    BY <1>11, HeadStep
  <2> SUFFICES ASSUME sync[s].conn = conn.id
               PROVE  SoloCall(s)'
    BY <1>3, <2>1 DEF SoloCall
  <2>2. sync[s].seen = conn.sha
    BY <1>4, <1>5 DEF SoloCall
  <2>3. CASE sync'[s].pc = "clone"
    BY <1>1, <1>2, <1>3, <2>1, <2>2, <2>3 DEF SoloCall
  <2>4. CASE sync'[s].pc = "markOK" /\ sync[s].seen = Len(commits)
    <3>1. conn.sha = Len(commits) /\ conn.sha # Null
      BY <2>2, <2>4 DEF Null, TypeInv, TypeOK, RepoTypeOK
    <3>2. Connected
      BY <1>4 DEF LockInv, CallInv, Connected
    <3>3. \E c \in Len(commits)..Len(commits) : AllSynced(c)
      BY <1>5, <3>1, <3>2 DEF RowsSolo
    <3> QED
      BY <1>1, <1>2, <1>3, <1>6, <2>1, <2>2, <2>4, <3>1, <3>3 DEF SoloCall
  <2> QED
    BY <2>1, <2>3, <2>4

<1>12. CASE CloneAndLoad(s)
  <2>1. OnlyMoved(s) /\ Keeps(s) /\ sync'[s].pc \in {"skills", "markErr"}
    BY <1>1, <1>12, CloneStep
  <2>2. sync[s].pc = "clone"
    BY <1>12 DEF CloneAndLoad
  <2> QED
    BY <1>3, <1>5, <2>1, <2>2 DEF SoloCall, Keeps, Fetched
<1>13. CASE UpsertSkill(s)
  <2>1. OnlyMoved(s) /\ Keeps(s) /\ sync'[s].pc \in {"skills", "markErr"}
    BY <1>13, SkillStep
  <2>2. sync[s].pc = "skills"
    BY <1>13 DEF UpsertSkill
  <2> QED
    BY <1>3, <1>5, <2>1, <2>2 DEF SoloCall, Keeps, Fetched
<1>14. CASE DeleteMissingSkills(s)
  <2>1. /\ OnlyMoved(s) /\ Keeps(s) /\ sync[s].pc = "skills"
        /\ sync'[s].pc = "schedules" /\ sync'[s].del = Missing(s)
    BY <1>1, <1>14, DeleteStep
  <2>2. Manifest(s)' = Manifest(s)
    BY <1>2, <2>1 DEF Manifest, Keeps
  <2>3. sync[s].conn = conn.id =>
          \A p \in Paths \ PathsOf(Manifest(s)) : p \in Missing(s) \/ rows[p] = NoSkill
    BY DEF Missing
  <2> QED
    BY <1>2, <1>3, <1>5, <2>1, <2>2, <2>3 DEF SoloCall, Keeps, Fetched
<1>15. CASE UpsertSchedules(s)
  <2>1. OnlyMoved(s) /\ Keeps(s) /\ sync[s].pc = "schedules"
    BY <1>15, SchedulesStep
  <2>2. sync'[s].pc = "markErr" \/ (sync'[s].pc = "commit" /\ sync'[s].del = sync[s].del)
    BY <1>15, SchedulesStep
  <2>3. Manifest(s)' = Manifest(s)
    BY <1>2, <2>1 DEF Manifest, Keeps
  <2> QED
    BY <1>2, <1>3, <1>5, <2>1, <2>2, <2>3 DEF SoloCall, Keeps, Fetched
<1> QED
  BY <1>9, <1>10, <1>11, <1>12, <1>13, <1>14, <1>15

\* MarkRepoSyncedOK records the commit the rows have, or an older one.
LEMMA MarkSolo ==
    ASSUME TypeInv, SoloInv, ~overlapped, NEW s \in Syncs, MarkOK(s)
    PROVE  SoloInv'
<1>1. sync[s].pc = "markOK" /\ UNCHANGED <<commits, rows>> /\ Return(s)
  BY DEF MarkOK
<1>2. SoloCall(s) /\ RowsSolo /\ \A t \in Syncs \ {s} : sync[t].pc = "off"
  BY <1>1, Alone
<1>3. OnlyMoved(s) /\ sync'[s].pc = "off"
  BY <1>1, ReturnStep DEF TypeInv, TypeOK
<1>4. SoloCall(s)'
  BY <1>3 DEF SoloCall
<1>5. \A c : AllSynced(c)' <=> AllSynced(c)
  BY <1>1 DEF AllSynced, IsSynced
<1>6. PICK c \in Connection : c = conn
  BY DEF TypeInv, TypeOK, SyncTypeOK
<1>7. RowsSolo'
  <2>1. CASE sync[s].conn = conn.id
    <3>1. PICK h : h = sync[s].head
      OBVIOUS
    <3>2. [c EXCEPT !.sha = h, !.err = FALSE].sha = h
      BY DEF Connection
    <3>3. conn'.sha = h
      BY <1>6, <2>1, <3>1, <3>2 DEF MarkOK, MarkRepoSyncedOK
    <3>4. \E d \in h..Len(commits) : AllSynced(d)
      BY <1>1, <1>2, <2>1, <3>1 DEF SoloCall
    <3> QED
      BY <1>1, <1>2, <1>5, <3>3, <3>4 DEF RowsSolo
  <2>2. CASE sync[s].conn # conn.id
    <3>1. conn' = conn
      BY <2>2 DEF MarkOK, MarkRepoSyncedOK
    <3> QED
      BY <1>1, <1>2, <3>1, RowsSoloKept
  <2> QED
    BY <2>1, <2>2
<1> QED
  BY <1>2, <1>3, <1>4, <1>7, CallSolo

\* The commit of the only sync makes all rows those of its commit; without its
\* connection it writes nothing.
LEMMA CommitSolo ==
    ASSUME TypeInv, LockInv, SoloInv, ~overlapped, NEW s \in Syncs, Commit(s)
    PROVE  SoloInv'
<1>1. sync[s].pc = "commit" /\ UNCHANGED <<commits, conn>>
  BY DEF Commit
<1>2. SoloCall(s) /\ RowsSolo /\ \A t \in Syncs \ {s} : sync[t].pc = "off"
  BY <1>1, Alone
<1>3. OnlyMoved(s) /\ Keeps(s) /\ sync'[s].pc = "markOK"
  BY CommitStep DEF TypeInv, TypeOK
<1>4. PICK h \in 1..Len(commits) : h = sync[s].head
  BY <1>1, FetchedManifest DEF Fetched
<1>5. CASE sync[s].conn = conn.id
  <2>1. /\ sync[s].seen = conn.sha /\ conn.sha <= h
        /\ \A p \in Paths \ PathsOf(Manifest(s)) : p \in sync[s].del \/ rows[p] = NoSkill
    BY <1>1, <1>2, <1>4, <1>5 DEF SoloCall, Fetched
  <2>2. ASSUME NEW p \in Paths
        PROVE  IsSynced(p, h)'
    <3>1. CASE p \in PathsOf(Manifest(s))
      BY <1>4, <3>1, CommitWrites
    <3>2. CASE p \notin PathsOf(Manifest(s))
      <4>1. rows'[p] = NoSkill
        BY <1>4, <2>1, <3>2, CommitWrites
      <4>2. p \notin PathsOf(commits'[h].manifest)
        BY <1>1, <1>4, <3>2 DEF Manifest
      <4> QED
        BY <4>1, <4>2 DEF IsSynced
    <3> QED
      BY <3>1, <3>2
  <2>3. AllSynced(h)'
    BY <2>2 DEF AllSynced
  <2>4. Len(commits) \in Nat /\ conn.sha \in 0..Len(commits)
    BY DEF TypeInv, TypeOK, RepoTypeOK, CommitInv
  <2>5. h \in 1..Len(commits') /\ h \in conn'.sha..Len(commits') /\ h \in h..Len(commits')
    BY <1>1, <1>4, <2>1, <2>4
  <2>6. RowsSolo'
    BY <2>3, <2>5 DEF RowsSolo
  <2>7. SoloCall(s)'
    BY <1>1, <1>3, <1>4, <2>1, <2>3, <2>5 DEF SoloCall, Keeps
  <2> QED
    BY <1>2, <1>3, <2>6, <2>7, CallSolo
<1>6. CASE sync[s].conn # conn.id
  <2>1. Held(s) = {}
    BY <1>6 DEF LockInv, CallInv
  <2>2. \A p \in Paths : rows'[p] = rows[p]
    BY <1>4, <2>1, CommitWrites
  <2>3. rows' = rows
    BY <2>2 DEF Commit, TypeInv, TypeOK, SyncTypeOK
  <2>4. RowsSolo'
    BY <1>1, <1>2, <2>3, RowsSoloKept
  <2>5. SoloCall(s)'
    BY <1>1, <1>3, <1>6 DEF SoloCall, Keeps
  <2> QED
    BY <1>2, <1>3, <2>4, <2>5, CallSolo
<1> QED
  BY <1>5, <1>6

\* Connections come and go: a sync that was started for the old one is not
\* taken for one of the new.
LEMMA ConnectionSolo ==
    ASSUME TypeInv, LockInv, SoloInv, ~overlapped, LoseWebhook \/ Connect \/ Disconnect
    PROVE  SoloInv'
<1>1. UNCHANGED <<commits, sync>>
  BY DEF LoseWebhook, Connect, Disconnect
<1>2. \A s, t \in InFlight' : s = t
  BY <1>1 DEF SoloInv, InFlight
<1>3. RowsSolo /\ \A s \in Syncs : SoloCall(s) /\ Manifest(s)' = Manifest(s)
  BY <1>1 DEF SoloInv, RowsSolo, Manifest
<1>4. connects \in Nat /\ conn.id \in Nat
  BY SyncAssumption DEF TypeInv, TypeOK, SyncTypeOK, Connection
<1>5. SUFFICES RowsSolo' /\ \A s \in Syncs : SoloCall(s)'
  BY <1>2 DEF SoloInv, RowsSolo
<1>6. CASE UNCHANGED <<conn, rows>>
  <2>1. RowsSolo' /\ \A c : AllSynced(c)' <=> AllSynced(c)
    BY <1>1, <1>3, <1>6, RowsSoloKept
  <2> QED
    BY <1>1, <1>3, <1>6, <2>1 DEF SoloCall
<1>7. CASE ~Connected /\ Connect
  <2>1. conn'.id = connects + 1 /\ conn'.sha = Null /\ rows' = rows
    BY <1>7 DEF Connect, InsertRepoConnection, NoConn
  <2>2. \A s \in Syncs : sync[s].pc # "off" => sync[s].conn # conn'.id
    BY <1>4, <2>1 DEF LockInv, CallInv
  <2>3. \A p \in Paths : rows'[p] = NoSkill
    BY <1>7, <2>1 DEF LockInv, NoOrphanRows
  <2> QED
    BY <1>1, <2>1, <2>2, <2>3 DEF SoloCall, RowsSolo
<1>8. CASE Disconnect
  <2>1. conn'.id = 0 /\ \A p \in Paths : rows'[p] = NoSkill
    BY <1>8 DEF Disconnect, DeleteRepoConnection, NoConn
  <2>2. \A s \in Syncs : sync[s].pc # "off" => sync[s].conn # conn'.id
    BY <1>4, <2>1 DEF LockInv, CallInv
  <2> QED
    BY <1>1, <2>1, <2>2 DEF SoloCall, RowsSolo, Connected
<1> QED
  BY <1>6, <1>7, <1>8 DEF LoseWebhook, Connect, InsertRepoConnection

\* The branch moves, or only proposals do.
LEMMA GrowthSolo ==
    ASSUME TypeInv, SoloInv, ~overlapped, Grown, RepoTypeOK', UNCHANGED syncVars
    PROVE  SoloInv'
<1> USE DEF syncVars
<1>1. /\ Len(commits) \in Nat /\ Len(commits') \in Nat /\ Len(commits) <= Len(commits')
      /\ conn.sha \in 0..Len(commits)
  BY DEF TypeInv, TypeOK, RepoTypeOK, Grown, CommitInv
<1>2. \A c \in 1..Len(commits) : AllSynced(c) => AllSynced(c)'
  BY SyncedKept DEF AllSynced
<1>3. \A a \in 1..Len(commits) : (\E c \in a..Len(commits) : AllSynced(c))
                                     => \E c \in a..Len(commits') : AllSynced(c)'
  <2> TAKE a \in 1..Len(commits)
  <2> HAVE \E c \in a..Len(commits) : AllSynced(c)
  <2>1. PICK c \in a..Len(commits) : AllSynced(c)
    OBVIOUS
  <2>2. c \in 1..Len(commits) /\ c \in a..Len(commits')
    BY <1>1
  <2> QED
    BY <1>2, <2>1, <2>2
<1>4. RowsSolo'
  <2>1. 1 \in 1..Len(commits)
    BY DEF TypeInv, TypeOK, RepoTypeOK
  <2>2. conn.sha # Null => conn.sha \in 1..Len(commits)
    BY <1>1 DEF Null
  <2> QED
    BY <1>3, <2>1, <2>2 DEF SoloInv, RowsSolo, Connected
<1>5. ASSUME NEW s \in Syncs
      PROVE  SoloCall(s)'
  <2>1. sync[s].pc \in Fetched => sync[s].head \in 1..Len(commits) /\ Manifest(s)' = Manifest(s)
    BY FetchedManifest DEF Grown, Manifest
  <2>2. SoloCall(s)
    BY DEF SoloInv
  <2> QED
    BY <1>3, <2>1, <2>2 DEF SoloCall, Fetched
<1> QED
  BY <1>4, <1>5 DEF SoloInv, RowsSolo, InFlight

\* Every step of RepoFlow preserves SoloInv; once syncs have overlapped it claims
\* nothing.
LEMMA NextSoloInv == TypeInv /\ TypeInv' /\ LockInv /\ SoloInv /\ [Next]_vars => SoloInv'
<1> SUFFICES ASSUME TypeInv, TypeInv', LockInv, SoloInv, [Next]_vars, ~overlapped'
             PROVE  SoloInv'
  BY DEF SoloInv
<1>1. CASE SyncNext
  <2>1. ASSUME NEW s \in Syncs, GetRepoConnection(s), UNCHANGED <<commits, rows, conn>>
        PROVE  SoloInv'
    BY <2>1, StartSolo
  <2>2. ASSUME NEW s \in Syncs, Deliver(s) \/ TriggerSync(s)
        PROVE  SoloInv'
    <3>1. CASE GetRepoConnection(s)
      BY <2>1, <2>2, <3>1 DEF Deliver, TriggerSync
    <3>2. CASE UNCHANGED <<sync, overlapped>> /\ Deliver(s)
      <4>1. UNCHANGED <<commits, rows, conn>>
        BY <2>2, <3>2 DEF Deliver
      <4>2. \A c : AllSynced(c)' <=> AllSynced(c)
        BY <4>1 DEF AllSynced, IsSynced
      <4>3. ~overlapped /\ \A t \in Syncs : SoloCall(t)'
        BY <3>2, <4>1, <4>2 DEF SoloInv, SoloCall, Manifest
      <4> QED
        BY <3>2, <4>1, <4>2, <4>3 DEF SoloInv, InFlight, Connected
    <3> QED
      BY <2>2, <3>1, <3>2 DEF Deliver, TriggerSync
  <2>3. ASSUME NEW s \in Syncs, SyncStep(s) \/ SyncFails(s)
        PROVE  SoloInv'
    <3>1. ~overlapped
      BY <2>3, Zenon DEF SyncStep, SyncFails, GetBranchHead, CloneAndLoad, UpsertSkill,
         DeleteMissingSkills, DeadlockDetected, UpsertSchedules, Commit, MarkOK, MarkErr
    <3> QED
      BY <2>3, <3>1, QuietSolo, CommitSolo, MarkSolo, Zenon DEF SyncStep
  <2>4. CASE LoseWebhook \/ Connect \/ Disconnect
    <3>1. ~overlapped
      BY <2>4, Zenon DEF LoseWebhook, Connect, Disconnect
    <3> QED
      BY <2>4, <3>1, ConnectionSolo
  <2> QED
    BY <1>1, <2>2, <2>3, <2>4 DEF SyncNext
<1>2. CASE /\ PeoplePush \/ ProposalNext \/ (\E r \in Requests : Propose(r)) \/ UNCHANGED vars
           /\ UNCHANGED syncVars
  <2>1. ~overlapped
    BY <1>2, Zenon DEF syncVars
  <2> QED
    BY <1>2, <2>1, ElsewhereGrows, GrowthSolo DEF TypeInv, TypeOK
<1> QED
  BY <1>1, <1>2 DEF Next, ProposeJob, vars, syncVars

\* As long as syncs do not overlap, the rows are those of one commit, and those
\* of the head while the recorded commit is the head: a sync may take the
\* cheap path.
THEOREM RowsAreOfOneCommit == Spec => []RowsOfOneCommit
<1>1. TypeInv /\ SoloInv => RowsOfOneCommit
  <2> SUFFICES ASSUME TypeInv, SoloInv, ~overlapped
               PROVE  /\ \/ \A p \in Paths : rows[p] = NoSkill
                         \/ \E c \in 1..Len(commits) : AllSynced(c)
                      /\ Connected /\ conn.sha = Len(commits) => AllSynced(Len(commits))
    BY DEF RowsOfOneCommit, Head_, AllSynced
  <2>1. Len(commits) \in Nat \ {0}
    BY DEF TypeInv, TypeOK, RepoTypeOK
  <2>2. \A c \in Len(commits)..Len(commits) : c = Len(commits)
    BY <2>1
  <2> QED
    BY <2>1, <2>2 DEF SoloInv, Null
<1> QED
  BY <1>1, RowsAreLocked, InitSoloInv, NextSoloInv, PTL DEF Spec

-----------------------------------------------------------------------------
(* Proposals: BranchInv is inductive.                                       *)

\* BranchInv holds initially: there are no branches.
LEMMA InitBranchInv == Init => BranchInv
BY DEF Init, ProposalInit, BranchInv, ProposalInv, ProposalOnlyAdds, NoRequest

\* The branch of the repository grows, and a pull request may be merged.
LEMMA GrowthBranch ==
    ASSUME TypeInv, BranchInv, Grown, UNCHANGED prop, DOMAIN branches' = DOMAIN branches,
           \A b \in DOMAIN branches :
               /\ branches'[b].base = branches[b].base
               /\ branches'[b].job = branches[b].job
               /\ branches'[b].manifest = branches[b].manifest
               /\ branches'[b].pr # branches[b].pr => branches[b].pr # "none"
    PROVE  BranchInv'
<1>1. \A b \in DOMAIN branches : commits'[branches'[b].base] = commits[branches[b].base]
  BY DEF TypeInv, CommitInv, Grown
<1>2. \A r \in Requests : ProposalInv(r)'
  BY <1>1 DEF BranchInv, ProposalInv
<1>3. ProposalOnlyAdds'
  BY <1>1 DEF BranchInv, ProposalOnlyAdds
<1> QED
  BY <1>2, <1>3 DEF BranchInv

\* A step of request r: the branches of other requests are not touched.
LEMMA RequestBranch ==
    ASSUME BranchInv, NEW r \in Requests, NEW x, SetProp(r, x), prop \in [Requests -> Request],
           UNCHANGED commits, DOMAIN branches \subseteq DOMAIN branches',
           \A q \in Requests \ {r} :
               prop[q].pc \in {"put", "pr"} => branches'[prop[q].branch] = branches[prop[q].branch],
           x.pc \in {"put", "pr"} =>
               \A q \in Requests \ {r} : prop[q].pc \in {"put", "pr"} => prop[q].branch # x.branch,
           ProposalInv(r)', ProposalOnlyAdds'
    PROVE  BranchInv'
<1>1. prop'[r] = x /\ \A q \in Requests \ {r} : prop'[q] = prop[q]
  BY DEF SetProp
<1>2. \A q \in Requests : ProposalInv(q)'
  <2> TAKE q \in Requests
  <2>1. CASE q # r
    <3>1. ProposalInv(q) /\ prop'[q] = prop[q]
      BY <1>1, <2>1 DEF BranchInv
    <3>2. prop[q].pc \in {"put", "pr"} => branches'[prop[q].branch] = branches[prop[q].branch]
      BY <2>1
    <3> QED
      BY <3>1, <3>2 DEF ProposalInv
  <2> QED
    BY <2>1
<1>3. \A q, t \in Requests :
          q # t /\ prop'[q].pc \in {"put", "pr"} /\ prop'[t].pc \in {"put", "pr"}
              => prop'[q].branch # prop'[t].branch
  BY <1>1 DEF BranchInv
<1> QED
  BY <1>2, <1>3 DEF BranchInv

\* The handler answers.
LEMMA AnswerBranch ==
    ASSUME TypeInv, BranchInv, NEW r \in Requests, Answer(r), UNCHANGED <<commits, branches>>
    PROVE  BranchInv'
<1>1. prop \in [Requests -> Request] /\ NoRequest.pc = "off"
  BY DEF TypeInv, TypeOK, ProposalTypeOK, NoRequest
<1>2. prop'[r].pc = "off"
  BY <1>1 DEF Answer, SetProp
<1>3. ProposalInv(r)'
  BY <1>2 DEF ProposalInv
<1>4. ProposalOnlyAdds'
  BY DEF BranchInv, ProposalOnlyAdds
<1> QED
  BY <1>1, <1>3, <1>4, RequestBranch DEF Answer

\* The steps of a request up to the branch.
LEMMA ReadingBranch ==
    ASSUME TypeInv, BranchInv, NEW r \in Requests, Propose(r) \/ GetContents(r) \/ GetBranch(r)
    PROVE  BranchInv'
<1>1. prop \in [Requests -> Request]
  BY DEF TypeInv, TypeOK, ProposalTypeOK
<1>2. PICK q \in Request : q = prop[r]
  BY <1>1
<1>3. UNCHANGED <<commits, branches>>
  BY DEF Propose, GetContents, GetBranch
<1>4. ProposalOnlyAdds'
  BY <1>3 DEF BranchInv, ProposalOnlyAdds
<1>5. ASSUME NEW x, SetProp(r, x), x.pc \in {"contents", "head", "branch"},
             x.pc = "branch" => CanAppend(x.file, x.job)
      PROVE  BranchInv'
  <2>1. prop'[r] = x
    BY <1>1, <1>5 DEF SetProp
  <2>2. ProposalInv(r)'
    BY <1>5, <2>1 DEF ProposalInv
  <2> QED
    BY <1>1, <1>3, <1>4, <1>5, <2>2, RequestBranch
<1>6. CASE Propose(r)
  <2>1. PICK j \in Jobs : SetProp(r, [NoRequest EXCEPT !.pc = "contents", !.job = j])
    BY <1>6 DEF Propose
  <2>2. [NoRequest EXCEPT !.pc = "contents", !.job = j].pc = "contents"
    BY DEF NoRequest
  <2> QED
    BY <1>5, <2>1, <2>2
<1>7. CASE GetContents(r)
  <2>1. PICK m : m = commits[Head_].manifest
    OBVIOUS
  <2>2. [q EXCEPT !.pc = "head", !.file = m].pc = "head"
    BY DEF Request
  <2> QED
    BY <1>2, <1>5, <1>7, <2>1, <2>2 DEF GetContents
<1>8. CASE GetBranch(r)
  <2>1. CASE ~(/\ CanAppend(prop[r].file, prop[r].job)
               /\ Validate(AppendSchedule(prop[r].file, prop[r].job)))
    BY <1>3, <1>8, <2>1, AnswerBranch DEF GetBranch
  <2>2. CASE /\ CanAppend(prop[r].file, prop[r].job)
             /\ Validate(AppendSchedule(prop[r].file, prop[r].job))
    <3>1. PICK h : h = Head_
      OBVIOUS
    <3>2. PICK x : x = [q EXCEPT !.pc = "branch", !.base = h]
      OBVIOUS
    <3>3. x.pc = "branch" /\ x.file = q.file /\ x.job = q.job
      BY <3>2 DEF Request
    <3>4. SetProp(r, x)
      BY <1>2, <1>8, <2>2, <3>1, <3>2 DEF GetBranch
    <3> QED
      BY <1>2, <1>5, <2>2, <3>3, <3>4
  <2> QED
    BY <2>1, <2>2
<1> QED
  BY <1>6, <1>7, <1>8

\* CreateBranch makes a branch nobody else has, with the manifest of its base.
LEMMA CreateStep ==
    ASSUME TypeInv, BranchInv, NEW r \in Requests, CreateBranch(r)
    PROVE  BranchInv'
<1>1. prop \in [Requests -> Request] /\ branches \in Seq(JobBranch)
  BY DEF TypeInv, TypeOK, ProposalTypeOK
<1>2. PICK q \in Request : q = prop[r]
  BY <1>1
<1>3. PICK n \in Nat : n = Len(branches) + 1
  BY <1>1
<1>4. PICK b : b = [base |-> q.base, job |-> q.job, manifest |-> commits[q.base].manifest, pr |-> "none"]
  OBVIOUS
<1>5. PICK x : x = [q EXCEPT !.pc = "put", !.branch = n]
  OBVIOUS
<1>6. x.pc = "put" /\ x.branch = n /\ x.file = q.file /\ x.job = q.job
  BY <1>5 DEF Request
<1>7. branches' = Append(branches, b) /\ SetProp(r, x) /\ commits' = commits /\ q.pc = "branch"
  BY <1>2, <1>3, <1>4, <1>5 DEF CreateBranch
<1>8. /\ DOMAIN branches' = DOMAIN branches \cup {n} /\ n \notin DOMAIN branches
      /\ branches'[n] = b /\ \A i \in DOMAIN branches : branches'[i] = branches[i]
  BY <1>1, <1>3, <1>7
<1>9. b.base = q.base /\ b.job = q.job /\ b.manifest = commits[q.base].manifest /\ b.pr = "none"
  BY <1>4
<1>10. prop'[r] = x
  BY <1>1, <1>7 DEF SetProp
<1>11. ProposalInv(r)'
  <2>1. CanAppend(q.file, q.job)
    BY <1>2, <1>7 DEF BranchInv, ProposalInv
  <2> QED
    BY <1>6, <1>7, <1>8, <1>9, <1>10, <2>1 DEF ProposalInv
<1>12. ProposalOnlyAdds'
  BY <1>7, <1>8, <1>9 DEF BranchInv, ProposalOnlyAdds
<1>13. \A t \in Requests \ {r} : prop[t].pc \in {"put", "pr"} => prop[t].branch \in DOMAIN branches
  BY DEF BranchInv, ProposalInv
<1> QED
  BY <1>1, <1>6, <1>7, <1>8, <1>11, <1>12, <1>13, RequestBranch

\* UpdateFile with the blob sha that was read, and the pull request.
LEMMA OpenBranch ==
    ASSUME TypeInv, BranchInv, NEW r \in Requests, PutFile(r) \/ CreatePR(r)
    PROVE  BranchInv'
<1>1. prop \in [Requests -> Request] /\ branches \in Seq(JobBranch)
  BY DEF TypeInv, TypeOK, ProposalTypeOK
<1>2. PICK q \in Request : q = prop[r]
  BY <1>1
<1>3. q.pc \in {"put", "pr"} /\ commits' = commits
  BY <1>2 DEF PutFile, CreatePR
<1>4. PICK b \in DOMAIN branches : b = q.branch /\ branches[b].job = q.job
  BY <1>2, <1>3 DEF BranchInv, ProposalInv
<1>5. PICK old \in JobBranch : old = branches[b]
  BY <1>1
<1>6. PICK m : m = commits[old.base].manifest
  OBVIOUS
<1>7. ASSUME NEW x, SetProp(r, x), x.pc \in {"pr", "audit"}, x.branch = b, x.job = q.job, x.file = q.file,
             NEW new \in JobBranch, branches' = [branches EXCEPT ![b] = new],
             new.base = old.base, new.job = q.job,
             new.manifest = AppendSchedule(m, q.job), CanAppend(m, q.job),
             CanAppend(q.file, q.job)
      PROVE  BranchInv'
  <2>1. /\ DOMAIN branches' = DOMAIN branches
        /\ branches'[b] = new /\ \A i \in DOMAIN branches \ {b} : branches'[i] = branches[i]
    BY <1>1, <1>4, <1>7, SeqEdit
  <2>2. prop'[r] = x
    BY <1>1, <1>7 DEF SetProp
  <2>3. ProposalInv(r)'
    BY <1>3, <1>4, <1>6, <1>7, <2>1, <2>2 DEF ProposalInv
  <2>4. ProposalOnlyAdds'
    BY <1>3, <1>6, <1>7, <2>1 DEF BranchInv, ProposalOnlyAdds
  <2>5. \A t \in Requests \ {r} :
            prop[t].pc \in {"put", "pr"} => prop[t].branch \in DOMAIN branches \ {b}
    BY <1>2, <1>3, <1>4 DEF BranchInv, ProposalInv
  <2>6. \A t \in Requests \ {r} :
            prop[t].pc \in {"put", "pr"} => branches'[prop[t].branch] = branches[prop[t].branch]
    BY <2>1, <2>5
  <2> QED
    BY <1>1, <1>3, <1>7, <2>1, <2>3, <2>4, <2>5, <2>6, RequestBranch
<1>8. CASE PutFile(r)
  <2>1. CASE branches[prop[r].branch].manifest # prop[r].file
    BY <1>3, <1>8, <2>1, AnswerBranch DEF PutFile
  <2>2. CASE branches[prop[r].branch].manifest = prop[r].file
    <3>1. PICK f : f = AppendSchedule(q.file, q.job)
      OBVIOUS
    <3>2. PICK x : x = [q EXCEPT !.pc = "pr"]
      OBVIOUS
    <3>3. x.pc = "pr" /\ x.branch = b /\ x.job = q.job /\ x.file = q.file
      BY <1>4, <3>2 DEF Request
    <3>4. PICK new : new = [old EXCEPT !.manifest = f]
      OBVIOUS
    <3>5. f \in Manifests
      BY <3>1, AppendType, ProposalAssumption DEF Request
    <3>6. new \in JobBranch /\ new.base = old.base /\ new.job = old.job /\ new.manifest = f
      BY <3>4, <3>5 DEF JobBranch
    <3>7. branches' = [branches EXCEPT ![b] = new] /\ SetProp(r, x)
      BY <1>2, <1>4, <1>5, <1>8, <2>2, <3>1, <3>2, <3>4 DEF PutFile
    <3>8. q.file = m /\ CanAppend(q.file, q.job)
      BY <1>2, <1>4, <1>5, <1>6, <1>8, <2>2 DEF PutFile, BranchInv, ProposalInv
    <3> QED
      BY <1>4, <1>5, <1>7, <3>1, <3>3, <3>6, <3>7, <3>8
  <2> QED
    BY <2>1, <2>2
<1>9. CASE CreatePR(r)
  <2>1. PICK x : x = [q EXCEPT !.pc = "audit"]
    OBVIOUS
  <2>2. x.pc = "audit" /\ x.branch = b /\ x.job = q.job /\ x.file = q.file
    BY <1>4, <2>1 DEF Request
  <2>3. PICK new : new = [old EXCEPT !.pr = "open"]
    OBVIOUS
  <2>4. new \in JobBranch /\ new.base = old.base /\ new.job = old.job /\ new.manifest = old.manifest
    BY <2>3 DEF JobBranch
  <2>5. branches' = [branches EXCEPT ![b] = new] /\ SetProp(r, x)
    BY <1>2, <1>4, <1>5, <1>9, <2>1, <2>3 DEF CreatePR
  <2>6. CanAppend(m, q.job) /\ old.manifest = AppendSchedule(m, q.job) /\ CanAppend(q.file, q.job)
    BY <1>2, <1>4, <1>5, <1>6, <1>9 DEF CreatePR, BranchInv, ProposalInv
  <2> QED
    BY <1>4, <1>5, <1>7, <2>2, <2>4, <2>5, <2>6
<1> QED
  BY <1>8, <1>9

\* Every step of RepoFlow preserves BranchInv.
LEMMA NextBranchInv == TypeInv /\ BranchInv /\ [Next]_vars => BranchInv'
<1> SUFFICES ASSUME TypeInv, BranchInv, [Next]_vars
             PROVE  BranchInv'
  OBVIOUS
<1>1. CASE Grown /\ UNCHANGED propVars
  BY <1>1, GrowthBranch DEF propVars
<1>2. CASE PeoplePush /\ UNCHANGED propVars
  BY <1>1, <1>2, ElsewhereGrows
<1>3. CASE SyncNext /\ UNCHANGED propVars
  <2>1. commits' = commits
    BY <1>3 DEF SyncNext, SyncStep, Deliver, TriggerSync, SyncFails, GetBranchHead, CloneAndLoad,
       UpsertSkill, DeleteMissingSkills, DeadlockDetected, UpsertSchedules, Commit, MarkOK, MarkErr,
       LoseWebhook, Connect, Disconnect
  <2>2. Grown
    BY <2>1 DEF Grown, TypeInv, TypeOK, RepoTypeOK
  <2> QED
    BY <1>1, <1>3, <2>2
<1>4. ASSUME NEW r \in Requests, ProposalStep(r) \/ RequestFails(r) \/ Propose(r)
      PROVE  BranchInv'
  <2>1. CASE Audit(r) \/ RequestFails(r)
    BY <2>1, AnswerBranch DEF Audit, RequestFails
  <2> QED
    BY <1>4, <2>1, ReadingBranch, CreateStep, OpenBranch, Zenon DEF ProposalStep
<1>5. ASSUME NEW b \in DOMAIN branches, Merge(b)
      PROVE  BranchInv'
  <2>1. prop' = prop
    BY <1>5 DEF Merge
  <2>2. \A i \in DOMAIN branches : branches'[i].pr # branches[i].pr => branches[i].pr # "none"
    BY <1>5, MergeStep
  <2> QED
    BY <1>5, <2>1, <2>2, MergeStep, GrowthBranch
<1>6. CASE UNCHANGED vars
  BY <1>1, <1>6, ElsewhereGrows DEF vars
<1> QED
  BY <1>2, <1>3, <1>4, <1>5, <1>6 DEF Next, ProposeJob, ProposalNext

\* A pull request adds its schedule to the manifest of its base and changes
\* nothing else, whatever is pushed between the calls to GitHub and whichever
\* of them fails.
THEOREM ProposalsOnlyAdd == Spec => []ProposalOnlyAdds
<1>1. BranchInv => ProposalOnlyAdds
  BY DEF BranchInv
<1> QED
  BY <1>1, InitTypeInv, NextTypeInv, InitBranchInv, NextBranchInv, PTL DEF Spec
=============================================================================
