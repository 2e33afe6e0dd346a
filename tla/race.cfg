CONSTANTS
    Notifs = {n1}
    Workers = {w1, w2}
    Cancels = {c1}
    Reconcilers = {r1}
    MaxAttempts = 2
    MaxRetry = 2
    MaxDenials = 0
    MaxFaults = 1
    KeyChoices = {TRUE}
    ScheduleChoices = {"none"}
SPECIFICATION Spec
SYMMETRY Symmetry
INVARIANTS TypeOK ExclusiveProcessing NeverSentTwice OutcomesTruthful
    DeliveryInv
PROPERTIES TerminalIsFinal CancelledIsNeverSent
