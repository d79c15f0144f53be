SPECIFICATION Spec
CONSTANTS
    PRs = {1, 2}
    Modes = {"houston", "auto"}
    Kinds = {"crashed", "ejected", "checks failed", "cancel failed", "refused"}
    MaxFaults = 2
PROPERTY Settles
CHECK_DEADLOCK FALSE
