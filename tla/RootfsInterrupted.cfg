SPECIFICATION Spec
CONSTANTS
    Tokens = {t1}
    NoToken = NoToken
CHECK_DEADLOCK FALSE
INVARIANTS InterruptedCreateSettles
