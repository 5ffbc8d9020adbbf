\* Two callers, two attempts each, six workloads.
CONSTANTS
    p1 = p1
    p2 = p2
    k1 = k1
    k2 = k2
    Procs = {p1, p2}
    Keys = {k1, k2}
    Data = {"x", "y"}
    PartNumbers = {1}
    MaxUploads = 1
    MaxAttempts = 2
    Faults = {"timeout"}
    Nobody = Nobody
    Requests <- SomeRequests
    Workloads <- SomeWorkloads
CHECK_DEADLOCK FALSE
SPECIFICATION FairSpec
INVARIANTS TypeOK SumsMatchBodies
PROPERTIES ImplementsAtomicStore EveryCallReturns
