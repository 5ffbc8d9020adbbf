\* One Put, retried after its reader was read.
CONSTANTS
    p1 = p1
    p2 = p2
    k1 = k1
    k2 = k2
    Procs = {p1}
    Keys = {k1}
    Workloads <- PutAlone
    Retention = FALSE
    Closable = FALSE
    MaxAttempts = 2
    MaxVersions = 1
    MaxLate = 0
SPECIFICATION Spec
PROPERTY PutStoresBody
