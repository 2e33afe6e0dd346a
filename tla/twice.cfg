SPECIFICATION Spec
CONSTANTS
    Requests = {r1, r2}
    Keys = {k1}
    Bodies = {b1}
    Endpoints = {createBatch}
    Guarded = {}
    Old = Old
    None = None
    MaxFaults = 0
    MaxExpiries = 0
INVARIANTS KeyTakesEffectOnce
CHECK_DEADLOCK FALSE
