CONSTANTS
    NetCount = 4
    Threshold = 1
    NULL = NULL
    Circuits <- Instances
SPECIFICATION Spec
INVARIANT InstanceInputsAreExpected
