SPECIFICATION Spec
CONSTANTS
    MaxInstr = 2
    Modes = {"queue", "steer", "restart"}
    Delegated = TRUE
    HookEvents <- MCQuietTurn
    PromptIds = {}
    ActiveMax = 2
    RetainedMax = 2
    MaxHooks = 3
    Disturbances = {"unwritten", "partial"}
    MaxDisturbed = 1
INVARIANTS TypedInOrder OneOpen RestartWaitsForIdle
CHECK_DEADLOCK FALSE
