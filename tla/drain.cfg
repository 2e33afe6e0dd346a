SPECIFICATION Spec
CONSTANTS
    Binary = "worker"
    Items = {w1}
INVARIANT PoolOutlivesWork
CHECK_DEADLOCK FALSE
