------------------------------ MODULE MCRunExec ------------------------------
(* Small instances of RunExec for TLC. *)
EXTENDS RunExec, TLC

Manifest(dests, onFailure, env, mcp) ==
    [dests |-> dests, onFailure |-> onFailure, env |-> env, mcp |-> mcp, writeback |-> TRUE]

\* One destination of each kind, email with its secrets in the env and the webhook
\* for failures only; and none, but an MCP server that has a secret of its own.
Mixed == {Manifest(Dests, Dests \ (Mails \cup Issues), Mails, {}), Manifest({}, {}, {}, Servers)}

RunSymmetry == Permutations(Runs)
=============================================================================
