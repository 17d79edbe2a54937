CONSTANTS
    Nets = {a, b, c, d}
    rail = d
    Resistances = {1, 3}
    Dividers = {1}
    MAX_RESISTANCE = 303
    DEFAULT_UNKNOWN_RESISTANCE = 2
    MaxUpdates = 3
SYMMETRY Symmetry
SPECIFICATION MCSpec
INVARIANTS Forest LookupsAreExact ShiftsAsExpected
