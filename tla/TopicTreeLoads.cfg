\* Every configuration of MCTopicTree, loaded by both programs.
CONSTANTS
    Configurations <- MCConfigurations
    Depth = 3
SPECIFICATION Spec
\* Loading ends, the engines go on.
CHECK_DEADLOCK FALSE
INVARIANTS
    TypeOK
    NamesAsConfigured
    LeavesHaveDevices
    SerialInherited
    NoTopicLost
