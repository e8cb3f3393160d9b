SPECIFICATION CrewSpec
CONSTANTS
    Notes = {n1}
    Components = {cf, cr}
    Lines = {l1}
    Incomes = {w1}
    Receivers = {r1, r2}
    LineOps = {d1, d2, x1}
    InitialStock = 1
    MaxQuantity = 1
    MaxStock = 1
    EshikLine = l1
    Freeze = cf
    Ref = cr
    DoorRequests = {d1, d2}
    Nobody = nobody
    Letters = {a, b}
    SameSeries = TRUE
    Planned = 1
    MaxNumber = 3
    MaxSessions = 4
    Crews = {{d1, d2}, {d1, x1}, {d2, x1}, {n1, w1, r1, r2, x1}}
SYMMETRY CrewSymmetry
CHECK_DEADLOCK FALSE
INVARIANTS DoorTypeOK ReceivedOnce FirstLabelKept OverplanBounded CounterLag
