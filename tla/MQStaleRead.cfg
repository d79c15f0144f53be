SPECIFICATION Spec
CONSTANTS
    PRs = {1, 2}
    Modes = {"houston", "queue", "auto"}
    Kinds = {}
    MaxFaults = 0
INVARIANTS HoldsAreKnown
CHECK_DEADLOCK FALSE
