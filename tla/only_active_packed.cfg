SPECIFICATION Spec
CONSTANTS
    NoAcc = none
    Serials = {s1, s2}
    AccSerials = {a1, a2}
    Handlers = {h1, h2}
    MaxId = 4
    EntryLines = {1}
    Stations = {}
SYMMETRY Symmetric
CHECK_DEADLOCK FALSE
INVARIANTS OnlyActivePacked
