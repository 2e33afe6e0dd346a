CONSTANTS
    Notifs = {n1}
    Workers = {w1}
    Cancels = {}
    Reconcilers = {r1}
    MaxAttempts = 2
    MaxRetry = 2
    MaxDenials = 0
    MaxFaults = 0
    KeyChoices = {FALSE}
    ScheduleChoices = {"none"}
SPECIFICATION Spec
PROPERTIES NoLostAttempt
