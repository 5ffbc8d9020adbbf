\* A Delete whose head fails.
CONSTANTS
    p1 = p1
    p2 = p2
    k1 = k1
    k2 = k2
    Procs = {p1}
    Keys = {k1}
    Workloads <- DeleteAlone
    Retention = TRUE
    Closable = FALSE
    MaxAttempts = 1
    MaxVersions = 2
    MaxLate = 0
SPECIFICATION Spec
PROPERTY RetentionHonored
