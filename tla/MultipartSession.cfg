\* Two callers of one session and one upload, two attempts per call, lost
\* requests and answers, requests served late, and Close.
CONSTANTS
    p1 = p1
    p2 = p2
    s1 = s1
    s2 = s2
    u1 = u1
    a = a
    NoId = NoId
    Procs = {p1, p2}
    Sessions = {s1}
    SessionOf <- OneSession
    Ids = {u1}
    ETags = {a}
    MaxParts = 1
    PartLists <- OneList
    Operations = {"initiate", "upload", "complete", "abort"}
    MaxAttempts = 2
    MaxLate = 1
    MaxRestarts = 0
    MaxCloses = 1
SYMMETRY Callers
SPECIFICATION Spec
INVARIANTS TypeOK OneCompleter
PROPERTIES NoUseAfterAbort CompleteOkPublishes
