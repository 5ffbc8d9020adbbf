\* Readers, deletes and writers of a key, two attempts per call, and Close.
CONSTANTS
    p1 = p1
    p2 = p2
    k1 = k1
    k2 = k2
    Procs = {p1, p2}
    Keys = {k1, k2}
    Workloads <- Reading
    Retention = FALSE
    Closable = TRUE
    MaxAttempts = 2
    MaxVersions = 2
    MaxLate = 0
SPECIFICATION Spec
INVARIANT TypeOK
PROPERTIES AnswersWereTrue CallsRunDown
