SPECIFICATION FairSpec
CONSTANTS
    Idle = idle
    Tasks = {idle, t1, t2, t3}
    NULL = NULL
    MAX_TASK = 3
INVARIANTS
    Bookkeeping
    PidNeverExhausted
    FindTaskFindsLive
    ReturnedPidFound
    ExitNeverReturns
PROPERTY RunnableRuns
