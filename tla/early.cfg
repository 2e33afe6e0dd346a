CONSTANTS
    Notifs = {n1}
    Workers = {w1}
    Cancels = {}
    Reconcilers = {r1}
    MaxAttempts = 1
    MaxRetry = 1
    MaxDenials = 0
    MaxFaults = 0
    KeyChoices = {FALSE}
    ScheduleChoices = {"future"}
SPECIFICATION Spec
INVARIANTS NoEarlyDequeue
