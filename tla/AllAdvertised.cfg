\* The comment on sending all PA delegators.
CONSTANTS
    Topics = {t1, t2}
    Round = 1
    HasDuration = FALSE
    FirstSequence = 1
    NackKinds = {}
    Throwing = {}
    MaxTimeouts = 0
    MaxU64 = 7
SPECIFICATION Spec
CHECK_DEADLOCK FALSE
INVARIANT
    AllAdvertised
