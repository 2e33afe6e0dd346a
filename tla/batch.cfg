CONSTANTS
    Notifs = {n1, n2}
    Workers = {}
    Cancels = {c1}
    Reconcilers = {r1}
    MaxAttempts = 1
    MaxRetry = 1
    MaxDenials = 0
    MaxFaults = 1
    KeyChoices = {TRUE}
    ScheduleChoices = {"none", "future"}
SPECIFICATION Spec
SYMMETRY Symmetry
INVARIANTS AcceptedIsQueued NotBeforeSchedule
