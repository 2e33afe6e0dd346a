CONSTANTS
    Notifs = {n1}
    Workers = {w1}
    Cancels = {}
    Reconcilers = {r1}
    MaxAttempts = 1
    MaxRetry = 1
    MaxDenials = 2
    MaxFaults = 0
    KeyChoices = {FALSE}
    ScheduleChoices = {"none"}
SPECIFICATION FairSpec
PROPERTIES EventuallySettled
