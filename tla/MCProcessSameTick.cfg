CONSTANTS
    t1 = t1
    d1 = d1
    ptrace = ptrace
    preload = preload
    NULL = NULL
    Times <- MCTimes
    ExitCodes <- MCExitCodes
    Timers <- MCTimers
    Descs <- MCDescs
    InterposeMethods <- MCInterposeMethods
    MaxThreads = 1
    MaxWaiters = 3

SPECIFICATION Spec

\* The simulation ends (Shutdown) and the event loop then runs nothing more.
CHECK_DEADLOCK FALSE

INVARIANT
    StartStrictlyBeforeStop
