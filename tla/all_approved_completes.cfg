SPECIFICATION Spec
CONSTANTS
    Docs = {d1}
    Users = {u1, u2}
    CreatorRequests = {c1}
    ResponsibleRequests = {r1, r2}
    ProductItems = {p1}
    ComponentItems = {k1}
    MaxRound = 1
    MaxBalance = 0
CHECK_DEADLOCK FALSE
INVARIANT AllApprovedCompletes
