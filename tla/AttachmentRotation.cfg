SPECIFICATION Spec
CONSTANTS
    Volumes = {v1, v2}
    None = None
    MaxFaults = 2
INVARIANTS TypeOK VolumeStaysOwned SettledIsExact
PROPERTIES RotationSettles
CHECK_DEADLOCK FALSE
