SPECIFICATION FairSpec
CONSTANTS
    e1 = e1
    e2 = e2
    s1 = s1
    r1 = r1
    dEdit = dEdit
    dSave = dSave
    p1 = p1
    Workflow <- MCWorkflow
    PathOf <- MCPathOf
    Path = {p1}
    Request = {r1}
    Executor = {e1, e2}
    Session = {s1}
    Digest = {dEdit, dSave}
    MaxTime = 3
    MaxAttempt = 2
    StaleTimeout = 2
    TerminalTTL = 2
    MaxTerminalFiles = 1
    MaxTerminalBytes = 2
INVARIANTS EntriesAccounted RepliesAreTrue RunOwnsEntry
PROPERTIES PromiseKept EveryCallEnds
