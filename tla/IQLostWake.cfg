SPECIFICATION FairSpec
CONSTANTS
    MaxInstr = 2
    Modes = {"queue"}
    Delegated = TRUE
    HookEvents = {}
    PromptIds = {}
    ActiveMax = 2
    RetainedMax = 2
    MaxHooks = 0
    Disturbances = {"cancel", "hold"}
    MaxDisturbed = 2
PROPERTY WaitsOnlyUntilReady
CHECK_DEADLOCK FALSE
