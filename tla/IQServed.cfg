SPECIFICATION FairSpec
CONSTANTS
    MaxInstr = 2
    Modes = {"queue"}
    Delegated = TRUE
    HookEvents <- MCTurn
    PromptIds = {}
    ActiveMax = 2
    RetainedMax = 2
    MaxHooks = 1
    Disturbances = {"cancel", "unwritten", "hold"}
    MaxDisturbed = 1
PROPERTY WokenQueueIsServed
CHECK_DEADLOCK FALSE
