SPECIFICATION Spec
CONSTANTS
    Batches = {b1}
    Readers = {r1, r2}
    InitialVersion = 0
    MaxClears = 0
PROPERTY
    BumpTakesEffect
CHECK_DEADLOCK FALSE
