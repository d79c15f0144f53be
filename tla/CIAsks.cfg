SPECIFICATION Spec
CHECK_DEADLOCK FALSE
CONSTANTS
    MaxAsks = 2
    MaxKeys = 2
    Faults = {"unwritten", "replayed", "parent exits", "child exits"}
    MaxFaults = 2
INVARIANTS
    TypeOK
    StateFollowsAsks
    GoneParentOwnsNothing
    DenialAccounted
    ProviderAgrees
    OperatorAnswersFirst
