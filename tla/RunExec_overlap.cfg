SPECIFICATION Spec
CONSTANTS
    Runs = {r1, r2}
    Dests = {web, mail, issue}
    Mails = {mail}
    Issues = {issue}
    Servers = {m1}
    Configs <- Mixed
    MaxCommits = 2
    MaxFaults = 1
CHECK_DEADLOCK FALSE
SYMMETRY RunSymmetry
INVARIANTS SucceededIsComplete FailedIsSilent NotesAreTrue
PROPERTIES OutcomeStands
