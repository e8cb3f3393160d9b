SPECIFICATION Spec
CONSTANTS
    NoCode = NoCode
    Printers = {p1, p2}
    Reprinters = {q1}
    Codes = {c1, c2}
    Letters = {a}
    MaxDay = 2
    MaxCount = 2
    MaxProducts = 2
SYMMETRY Symmetric
CHECK_DEADLOCK FALSE
INVARIANTS TypeOK ClaimsDistinct ShippedHasCode TakenByProduct
