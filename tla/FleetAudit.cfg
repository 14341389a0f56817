SPECIFICATION Spec
CONSTANTS
    Computes = {"c1"}
    Periodics = {"p1"}
    Callers = {"o1"}
    Home <- MCHome
    Tokens = {1, 2, 3, 4, 5, 6}
    Generations = {1, 2, 3, 4, 5, 6, 7, 8, 9, 10}
    Leases = {1, 2, 3, 4, 5, 6, 7, 8}
    MaxFaults = 2
    MaxCorruptions = 1
CHECK_DEADLOCK FALSE
VIEW Canonical
INVARIANTS TypesOK HealthIsVetted
