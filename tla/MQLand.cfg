SPECIFICATION Spec
CONSTANTS
    PRs = {1, 2}
    Modes = {"houston", "queue", "auto"}
    Kinds = {"pushed", "base moved", "checks failed", "thread opened", "ejected", "merged outside", "closed", "paused", "dequeued",
             "requeued", "retried", "crashed", "read failed", "cancel failed", "rate limited", "refused", "head lags",
             "push refused", "user merges", "verification failed"}
    MaxFaults = 1
INVARIANTS TypeOK MergesWhatWasTested DependencyFirst
PROPERTY NoWorkLost
CHECK_DEADLOCK FALSE
