\* The comment on stored PU delegators, with a Duration.
CONSTANTS
    Topics = {t1}
    Round = 1
    HasDuration = TRUE
    FirstSequence = 1
    NackKinds = {}
    Throwing = {}
    MaxTimeouts = 0
    MaxU64 = 7
SPECIFICATION Spec
CHECK_DEADLOCK FALSE
INVARIANT
    PendingPUStored
