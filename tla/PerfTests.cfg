\* All three tests on two topics, one of which has a wildcard's name, and a
\* cfg_SMRN of two components: one ST request is made again after a timeout, the
\* other and those of SM are not.  The third SD sequence overflows an int.
CONSTANTS
    Topics = {t1, t2}
    Tests = {"ST", "SM", "SD"}
    SDRound = 3
    Fetch <- NoFetch
    MaxInt = 1
    OwnURI = {t1}
    SMComponents = 2
    NackKinds = {"ST", "SD"}
    Throwing = {"SD"}
    MaxTimeouts = 2
    MaxU64 = 7
SPECIFICATION FairSpec
CHECK_DEADLOCK FALSE
INVARIANTS
    TypeOK
    InterestAccounting
    TopicAccounting
    CompletesWithAll
    RoundsInSequence
PROPERTY
    Terminates
