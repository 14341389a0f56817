SPECIFICATION Spec
CONSTANTS
    Instances = {u1, u2}
    Slots = {s1, s2}
    Hosts = {h1, h2}
    Tokens = {t1, t2}
    Allocs = {a1, a2}
    MaxInFlight = 2
    PowerOffDrains = TRUE
SYMMETRY Symmetry
INVARIANTS TypeOK RegistryConsistent FencesMatch
PROPERTIES ReleaseBarrier RemovalJustified ClaimMovesForward SlotFreedBehindBarrier
