SPECIFICATION Spec
CONSTANTS
    MaxInstr = 2
    Modes = {"queue"}
    Delegated = TRUE
    HookEvents <- MCActiveTurn
    PromptIds = {1, 2}
    ActiveMax = 2
    RetainedMax = 2
    MaxHooks = 3
    Disturbances = {"deferred", "withhold"}
    MaxDisturbed = 1
INVARIANTS ReservedIsReachable AwaitingHasRow CompletedAfterFreshStart
PROPERTY RequestsIncrease
CHECK_DEADLOCK FALSE
