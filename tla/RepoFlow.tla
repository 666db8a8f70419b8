------------------------------- MODULE RepoFlow -------------------------------
(***************************************************************************)
(* Repository sync and job proposals on one repository: a pull request     *)
(* opened by the dashboard is merged, GitHub announces the push, the       *)
(* webhook's sync writes the rows the scheduler works on.                  *)
(***************************************************************************)
EXTENDS RepoSync, JobProposal

vars == <<commits, hooks, syncVars, propVars>>

Init == RepoInit /\ SyncInit /\ ProposalInit

\* loadConn: a proposal for the connected repository (else 400).
ProposeJob(r) == Connected /\ Propose(r)

Next ==
    \/ PeoplePush /\ UNCHANGED <<syncVars, propVars>>
    \/ SyncNext /\ UNCHANGED propVars
    \/ /\ ProposalNext \/ \E r \in Requests : ProposeJob(r)
       /\ UNCHANGED syncVars

\* Calls return, and webhooks are delivered unless they are lost.
Fairness == \A s \in Syncs : /\ WF_vars(SyncStep(s) /\ UNCHANGED propVars)
                              /\ WF_vars(Deliver(s) /\ UNCHANGED propVars)

Spec == Init /\ [][Next]_vars /\ Fairness

\* Every variable has its type.
TypeOK == RepoTypeOK /\ SyncTypeOK /\ ProposalTypeOK
=============================================================================
