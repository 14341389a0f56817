SPECIFICATION RestoreSpec
CONSTANTS
    Instances = {u1, u2}
    Slots = {s1, s2}
    Hosts = {h1}
    Tokens = {t1}
    Allocs = {a1, a2}
    MaxInFlight = 1
    PowerOffDrains = TRUE
    MaxDocuments = 2
SYMMETRY Symmetry
CHECK_DEADLOCK FALSE
INVARIANTS RestoredRegistryAudits RetryIsAccepted
PROPERTIES RestoredIsExact
