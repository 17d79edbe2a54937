CONSTANTS
    DeviceCount = 3
    Models = {m1, m2}
    NULL = NULL
SYMMETRY Symmetry
CONSTRAINT TwoAtPrompt
SPECIFICATION Spec
INVARIANTS NextIsSameModel
