\* Two topics, two sources, every kind of reply, exceptions out of SM and SD sends.
CONSTANTS
    Topics = {t1, t2}
    Sources = {s1, s2}
    Fetch <- NoFetch
    LastSequences = {0}
    OddReplies = {"NOT_FOUND", "OTHER", "MALFORMED"}
    NackKinds = {"SD"}
    Throwing = {"SM", "SD"}
    MaxInt = 1
    MaxTimeouts = 1
    MaxChains = 2
    MaxSequence = 3
    MaxU64 = 7
SPECIFICATION Spec
SYMMETRY UserSymmetry
CHECK_DEADLOCK FALSE
INVARIANTS
    TypeOK
    InterestAccounting
    SequenceFloor
