\* Two sessions, two parts, lists that are short or skip a number; one attempt per
\* call; a restart.
CONSTANTS
    p1 = p1
    p2 = p2
    s1 = s1
    s2 = s2
    u1 = u1
    a = a
    NoId = NoId
    Procs = {p1, p2}
    Sessions = {s1, s2}
    SessionOf <- OwnSessions
    Ids = {u1}
    ETags = {a}
    MaxParts = 2
    PartLists <- SomeLists
    Operations = {"initiate", "upload", "complete", "abort"}
    MaxAttempts = 1
    MaxLate = 0
    MaxRestarts = 1
    MaxCloses = 0
SYMMETRY Pairs
SPECIFICATION Spec
INVARIANT PublishedContiguous
PROPERTIES CompleteOkPublishes NoUseAfterAbort
