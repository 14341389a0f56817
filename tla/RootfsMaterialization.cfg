SPECIFICATION FairSpec
CONSTANTS
    Tokens = {t1, t2}
    NoToken = NoToken
CHECK_DEADLOCK FALSE
INVARIANTS TypeOK RootfsUnderClaim EvidenceOutlivesClaim
PROPERTIES NoopUndoesNothing StartedBuildIsReleased
