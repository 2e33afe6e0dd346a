\* The constants of RetryTiming are those of the code, in seconds.
CONSTANTS
    Limit = 2
    Window = 3
    Second = 2
    MaxCalls = 3
    MaxLimiterFaults = 1
    Workers = {"w1", "w2", "w3"}
    Channels = {"sms", "push"}
    Registered = {"sms"}
    Answers = {"success", "transient", "permanent"}
    MaxFailures = 2
    Interval = 2
    OpenTimeout = 1
    BackoffBase = 30
    RateLimitBackoff = 1
    MaxRetryJitter = 30
    OverdueThreshold = 600
    MaxAttempts = 5
    MaxRetry = 5
    MaxWait = 30
    Rows = {1, 2, 3}
    BatchSize = 2
    MaxFaults = 1
    Items = {"i1", "i2"}
SPECIFICATION Spec
INVARIANTS
    TypeOK
    TwiceTheLimit
    WaitOutlastsWindow
    SweepWaitsForTask
    DrainedBeforeClose
PROPERTIES
    WindowEnds
    OpensOnTransientBurst
    ProbeDecides
    Recovers
    BacklogClears
    SignalExits
CHECK_DEADLOCK FALSE
