SPECIFICATION Spec
CONSTANTS
    now1 = now1
    next1 = next1
    next2 = next2
    NowTasks <- MCNowTasks
    NextTasks <- MCNextTasks
    LocalTasks <- MCLocalTasks
    MaxBoot = 2
    MaxRestart = 0
    MaxFetch = 2
    NoTask = NoTask
INVARIANT
    MissionKept
