\* Two topics with one source each, so one chain per topic; OK replies, nacks,
\* lost requests and exceptions of every kind.
CONSTANTS
    Topics = {t1, t2}
    Sources = {s1}
    Fetch <- NoFetch
    LastSequences = {0, 2}
    OddReplies = {}
    NackKinds = {"ST", "SM", "SD"}
    Throwing = {"ST", "SM", "SD"}
    MaxInt = 7
    MaxTimeouts = 2
    MaxChains = 2
    MaxSequence = 4
    MaxU64 = 7
SPECIFICATION FairSpec
CHECK_DEADLOCK FALSE
INVARIANT
    SequenceInStep
PROPERTIES
    ChainInOrder
    EventuallyHeard
