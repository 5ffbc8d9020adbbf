\* Every content of up to two bytes, from every adapter, read in every way.
CONSTANTS
    Bytes = {0, 1}
    MaxLength = 2
    Contents <- ShortContents
SPECIFICATION FairSpec
INVARIANTS TypeOK CleanEndIsVerified
PROPERTIES ImplementsVerifiedRead VerdictGiven
