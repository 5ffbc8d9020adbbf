\* Two callers, up to three attempts each, a breaker that opens at the third
\* recorded failure and stays open for two ticks; fair scheduling.
CONSTANTS
    c1 = c1
    c2 = c2
    Calls <- TwoCalls
    MaxAttempts = 3
    Threshold = 3
    Cooldown = 2
    FailureCap = 4
    OutageKinds = {"unavailable"}
    FinalKinds = {"not_found"}
SPECIFICATION FairSpec
INVARIANTS TypeOK ClosedIffBelowThreshold ReturnsJustified
PROPERTIES HalfOpenFailureReopens ImplementsContract
PROPERTIES EveryCallReturns OpenIsLeft RecoversAfterOutage
