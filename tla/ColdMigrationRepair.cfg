SPECIFICATION Spec
CONSTANT MaxFaults = 1
INVARIANT RootSurvives
CHECK_DEADLOCK FALSE
