SPECIFICATION Spec
CONSTANT MaxFaults = 3
INVARIANTS TypeOK RunningSourceIsAlone  EvidenceHasOwner
PROPERTIES Implements ConfirmConverges GenerationRetires
CHECK_DEADLOCK FALSE
