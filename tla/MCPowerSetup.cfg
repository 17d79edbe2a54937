CONSTANTS
    NetCount = 4
    Threshold = 1
    NULL = NULL
    Circuits <- MCCircuits
SPECIFICATION Spec
INVARIANTS EquivalentIffJoined OnePowerPerClass DriftIsBounded
INVARIANTS EveryDefinitionCounts PowersAreListed
