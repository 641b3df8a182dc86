SPECIFICATION FairSpec
CONSTANTS
    Notifications = {n1}
    Workers = {w1, w2}
    Sweepers = {s1}
    BatchSize = 1
    MaxAttempts = 2
    BackoffBase = 1
    BackoffCap = 1
    StalledAfter = 1
    Prompt = FALSE
    MaxFaults = 0
    MaxOverdue = 1
    MaxHistory = 3
    MaxDuration = 127
    ValueBits = 7
PROPERTIES TerminalIsFinal
