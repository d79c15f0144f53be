SPECIFICATION FairSpec
CONSTANTS
    Chunks = {1,2}
    RingCap = 3
    TrimSlack = 1
    CutWindow = 1
    SgrLen = 1
    QueueDepth = 2
    QueueBytes = 3
    MergeCeiling = 3
    TurnBytes = 2
    ReplayBytes = 2
    PendingCap = 2
    Emulator = TRUE
    KeepsScreen = TRUE
    WireCap = 1
    MaxOutput = 5
    MaxFaults = 2
INVARIANTS TypeOK TapTiles TapCounts NoMergeAcrossGap AttemptsAgree
PROPERTIES PaneShowsOneRun CaughtUp
CHECK_DEADLOCK FALSE
