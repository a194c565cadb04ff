\* Three topics by rounds: every step is a step of PublishLifecycle or a stutter,
\* and the process ends.
CONSTANTS
    Topics = {t1, t2, t3}
    Round = 2
    HasDuration = FALSE
    FirstSequence = 1
    NackKinds = {"PA", "PD", "PU"}
    Throwing = {"PA", "PD", "PU"}
    MaxTimeouts = 1
    MaxU64 = 7
SPECIFICATION FairSpec
CHECK_DEADLOCK FALSE
PROPERTIES
    ImplementsLifecycle
    Terminates
