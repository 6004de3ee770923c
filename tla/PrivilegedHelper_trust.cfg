\* An answer lasts two intervals.
CONSTANT
    TTL = 2
SPECIFICATION FairSpec
INVARIANTS
    TrustIsRecent
PROPERTY
    SectionCatchesUp
