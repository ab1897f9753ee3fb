SPECIFICATION FairSpec
CONSTANTS
    now1 = now1
    next1 = next1
    NowTasks <- MCNowTasks
    NextTasks <- MCNextTasks
    LocalTasks <- MCLocalTasks
    MaxBoot = 3
    MaxRestart = 2
    MaxFetch = 2
    NoTask = NoTask
INVARIANTS
    TypeOK
    VerifiedBeforeRun
    ReportsAreTrue
    ArchiveKept
    RunsBounded
PROPERTIES
    EveryTaskLeaves
