\* "$n" below siblings that share their tokens.
CONSTANTS
    Configurations <- MCConfigurations
    Depth = 3
SPECIFICATION Spec
CHECK_DEADLOCK FALSE
INVARIANT
    NthLayerPrefix
