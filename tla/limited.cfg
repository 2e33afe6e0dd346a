CONSTANTS
    Notifs = {n1}
    Workers = {w1}
    Cancels = {c1}
    Reconcilers = {r1}
    MaxAttempts = 2
    MaxRetry = 2
    MaxDenials = 1
    MaxFaults = 0
    KeyChoices = {TRUE, FALSE}
    ScheduleChoices = {"none"}
SPECIFICATION FairSpec
INVARIANTS ProviderCallsBounded DeliveredIsAcknowledged
PROPERTIES ImplementsLifecycle QueueDrains
