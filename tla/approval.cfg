SPECIFICATION MCSpec
CONSTANTS
    Docs = {d1, d2}
    Users = {u1, u2}
    CreatorRequests = {c1, c2}
    ResponsibleRequests = {r1, r2}
    ProductItems = {p1}
    ComponentItems = {k1}
    MaxRound = 2
    MaxBalance = 2
SYMMETRY MCSymmetric
CHECK_DEADLOCK FALSE
INVARIANTS TypeOK ApprovedRecorded 
PROPERTIES WriteoffNeedsAll
