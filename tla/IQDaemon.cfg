SPECIFICATION Spec
CONSTANTS
    MaxInstr = 3
    Modes = {"queue"}
    Delegated = FALSE
    HookEvents <- MCAllEvents
    PromptIds = {}
    ActiveMax = 1
    RetainedMax = 2
    MaxHooks = 3
    Disturbances <- MCAllButCrash
    MaxDisturbed = 1
INVARIANTS WithinLimits DaemonInputSettles
CHECK_DEADLOCK FALSE
