\* Deletes under a retention policy, two attempts per call and two versions, against
\* a writer, each other and late requests.
CONSTANTS
    p1 = p1
    p2 = p2
    k1 = k1
    k2 = k2
    Procs = {p1, p2}
    Keys = {k1}
    Workloads <- Deleting
    Retention = TRUE
    Closable = FALSE
    MaxAttempts = 2
    MaxVersions = 2
    MaxLate = 1
SPECIFICATION Spec
PROPERTIES AnswersWereTrue CheckedVersionKept
