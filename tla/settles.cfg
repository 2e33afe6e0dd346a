CONSTANTS
    Notifs = {n1}
    Workers = {w1}
    Cancels = {}
    Reconcilers = {r1}
    MaxAttempts = 2
    MaxRetry = 2
    MaxDenials = 0
    MaxFaults = 1
    KeyChoices = {FALSE}
    ScheduleChoices = {"none", "future"}
SPECIFICATION FairSpec
INVARIANT NeverLockedOut
PROPERTY EventuallySettled
