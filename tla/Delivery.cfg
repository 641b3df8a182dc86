SPECIFICATION Spec
CONSTANTS
    MaxDuration = 127
    ValueBits = 7
    MaxAttempts = 9
    Bases = {1, 3, 64}
    Caps = {7, 100, 127}
    Draws = {3, 7, 9}
    DrawScale = 8
    MaxLost = 1
INVARIANTS ScheduleIsReference FailureIsClassified CopiesAreAccountedFor
CHECK_DEADLOCK FALSE
