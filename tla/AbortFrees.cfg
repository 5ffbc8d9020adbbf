\* One caller, whose Abort loses its first request.
CONSTANTS
    p1 = p1
    p2 = p2
    s1 = s1
    s2 = s2
    u1 = u1
    a = a
    NoId = NoId
    Procs = {p1}
    Sessions = {s1}
    SessionOf <- OneSession
    Ids = {u1}
    ETags = {a}
    MaxParts = 1
    PartLists <- OneList
    Operations = {"initiate", "upload", "complete", "abort"}
    MaxAttempts = 2
    MaxLate = 0
    MaxRestarts = 0
    MaxCloses = 0
SPECIFICATION Spec
INVARIANT AbortFrees
