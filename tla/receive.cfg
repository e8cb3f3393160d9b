SPECIFICATION Spec
CONSTANTS
    Notes = {n1, n2}
    Components = {c1}
    Lines = {l1}
    Incomes = {w1}
    Receivers = {r1, r2}
    LineOps = {x1}
    InitialStock = 2
    MaxQuantity = 2
    MaxStock = 3
SYMMETRY Symmetric
CHECK_DEADLOCK FALSE
PROPERTIES WareLedger LineLedger DeliveryIsHandover
