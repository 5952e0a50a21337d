CONSTANTS
    p1 = p1
    p2 = p2
    t1 = t1
    d1 = d1
    ptrace = ptrace
    NULL = NULL
    Procs <- MCProcs
    Times <- MCTimes
    ExitCodes <- MCExitCodes
    Timers <- MCTimers
    Descs <- MCDescs
    InterposeMethods <- MCInterposeMethods
    MaxThreads = 1
    MaxWaiters = 2

SPECIFICATION HostSpec

SYMMETRY MCSymmetry

\* The simulation ends (HostShutdown) and the worker then runs nothing more.
CHECK_DEADLOCK FALSE

INVARIANT
    CpuDelayIsTimeSpent
