\* The constants of the code, in seconds; no run waits.
CONSTANTS
    BackoffBase = 30
    RateLimitBackoff = 1
    MaxRetryJitter = 30
    OverdueThreshold = 600
    MaxAttempts = 5
    MaxRetry = 5
    MaxWait = 0
SPECIFICATION Spec
INVARIANT PendingIsInvisible
CHECK_DEADLOCK FALSE
