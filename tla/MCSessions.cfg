CONSTANTS
    Task = {t1, t2}
    Capacity = 1
    Ttl = 2
    MaxSkew = 1
    MaxTime = 4
    MaxIds = 2
SPECIFICATION Spec
SYMMETRY Symmetry
INVARIANTS TypeOK RefusedOnlyWhenIdle
PROPERTY ServedOnlyWhileAlive
CHECK_DEADLOCK FALSE
