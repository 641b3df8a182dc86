SPECIFICATION FairSpec
CONSTANTS
    Workers = {w1}
    Sweeper = s
    Requests = {q1}
    BatchSize = 2
INVARIANTS TypeOK DrainStrandsNothing PoolClosedLast NothingLeaks ExitZeroMeansClean
PROPERTIES ShutdownCompletes DrainEnds
CHECK_DEADLOCK FALSE
