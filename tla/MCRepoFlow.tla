------------------------------ MODULE MCRepoFlow ------------------------------
(* Small instances of RepoFlow for TLC. *)
EXTENDS RepoFlow, TLC

Sch(name, cron) == [name |-> name, cron |-> cron, complete |-> TRUE,
                    provider |-> "openai", env |-> {}]
Entry(path, schs) == [path |-> path, schedules |-> schs]
At(skills) == [manifest |-> [version |-> 1, skills |-> skills],
                   files |-> [p \in {"a", "b"} |-> {}]]

\* Two skills, then one of them without its schedule, or with one whose
\* expression does not parse.
AB  == At(<<Entry("a", <<Sch("x", "parses")>>), Entry("b", <<Sch("x", "parses")>>)>>)
B   == At(<<Entry("b", <<>>)>>)
Bad == At(<<Entry("b", <<Sch("x", "bad")>>), Entry("a", <<>>)>>)
Pushed == {B, Bad}

AddY   == [path |-> "a", sch |-> Sch("y", "parses")]
Asked  == {AddY}
=============================================================================
