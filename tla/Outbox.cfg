SPECIFICATION FairSpec
CONSTANTS
    Notifications = {n1, n2}
    Workers = {w1, w2}
    Sweepers = {s1}
    BatchSize = 2
    MaxAttempts = 3
    BackoffBase = 1
    BackoffCap = 2
    StalledAfter = 1
    Prompt = TRUE
    MaxFaults = 2
    MaxOverdue = 1
    MaxHistory = 4
    MaxDuration = 127
    ValueBits = 7
INVARIANTS TypeOK SingleOwner DeliveryBudget DuplicatesAreLostOutcomes OutcomeIsTrue
PROPERTIES TerminalIsFinal ImplementsContract ImplementsFairContract
