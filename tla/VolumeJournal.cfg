SPECIFICATION LiveSpec
CONSTANTS
    Attachments = {"a1", "a2"}
    None = "none"
    MaxFaults = 2
CHECK_DEADLOCK FALSE
INVARIANTS TypeOK MappingIsAccounted
PROPERTIES RecoveryKeepsLaterOwner ReleasedAfterHost 
