SPECIFICATION Spec
CONSTANTS
    CountHalf = 4
    Increments = {1, 18}
INVARIANTS TypeOK EveryClickIsAnEvent ReadyAndConfigured
