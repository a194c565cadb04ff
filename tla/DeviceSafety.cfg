\* Every behaviour of two topics, with the Duration event anywhere or nowhere.
CONSTANTS
    Topics = {t1, t2}
    Round = 2
    HasDuration = TRUE
    FirstSequence = 1
    NackKinds = {"PA", "PD", "PU"}
    Throwing = {"PA", "PD", "PU"}
    MaxTimeouts = 2
    MaxU64 = 7
SPECIFICATION Spec
SYMMETRY TopicSymmetry
CHECK_DEADLOCK FALSE
INVARIANTS
    TypeOK
    InterestAccounting
    TopicAccounting
    CompletesQuiet
    CompletesAnswered
    RoundsPublished
    PDDelegatorsStored
    PUDelegatorsStored
    ReportHasData
