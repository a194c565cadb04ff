\* The configuration comment on Duration.
CONSTANTS
    Topics = {t1, t2}
    Round = 1
    HasDuration = TRUE
    FirstSequence = 1
    NackKinds = {}
    Throwing = {}
    MaxTimeouts = 1
    MaxU64 = 7
SPECIFICATION FairSpec
CHECK_DEADLOCK FALSE
PROPERTY
    StopsAfterDuration
