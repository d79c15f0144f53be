SPECIFICATION Spec
CONSTANTS
    MaxInstr = 2
    Modes = {"queue", "restart"}
    Delegated = TRUE
    HookEvents <- MCTurn
    PromptIds = {}
    ActiveMax = 2
    RetainedMax = 2
    MaxHooks = 1
    Disturbances <- MCAllDisturbances
    MaxDisturbed = 2
INVARIANTS TypeOK TypedAtMostOnce DeliveredWasTyped ResumableWasNeverTyped
PROPERTY CancelledStaysSilent
CHECK_DEADLOCK FALSE
