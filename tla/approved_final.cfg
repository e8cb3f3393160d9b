SPECIFICATION Spec
CONSTANTS
    Docs = {d1}
    Users = {u1}
    CreatorRequests = {c1, c2}
    ResponsibleRequests = {r1}
    ProductItems = {p1}
    ComponentItems = {k1}
    MaxRound = 2
    MaxBalance = 1
CHECK_DEADLOCK FALSE
PROPERTY ApprovedFinal
