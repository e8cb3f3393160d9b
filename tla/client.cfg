SPECIFICATION Spec
CONSTANTS
    u1 = u1
    u2 = u2
    m1 = m1
    m2 = m2
    p1 = p1
    p2 = p2
    s1 = s1
    l1 = l1
    l2 = l2
    r1 = r1
    r2 = r2
    c1 = c1
    c2 = c2
    n1 = n1
    n2 = n2
    i1 = i1
    i2 = i2
    Nobody = Nobody
    None = None
    User <- MCUser
    AgentOwner <- MCAgentOwner
    Admin <- MCAdmin
    Model <- MCModel
    Printer <- MCPrinter
    Serial <- MCSerial
    Line <- MCLine
    Product <- MCProduct
    Component <- MCComponent
    Note <- MCNote
    Item <- MCItem
    AuxLine <- MCAuxLine
    PlanItem <- MCPlanItem
    Quantity <- MCQuantity
    PageSizes <- MCPageSizes
    Day <- MCDay
    TableWidths <- MCTableWidths
    Route <- MCRoute
    Operator = u2
    MaxAccess = 2
    MaxCalls = 3
    MaxOverlap = 2
    MaxRows = 2
    MaxRequests = 3
    MaxElements = 3
    LabelWidth = 5
    LabelHeight = 4
    MinSize = 2
    ScaleUp = 3
    ScaleDown = 2
    MaxMove = 3
    TableRowsMax = 2
    TableColsMax = 3
    MaxTableWidth = 4
    MaxTasks = 1
    MaxJobs = 2
CHECK_DEADLOCK FALSE
INVARIANTS TypeOK   ShownBelongs SentExact ListsComplete
    LoadsSettle LabelConsistent PromotedWasBuilt
PROPERTIES LateAnswersHarmless SelectionWhole BoxesOnLabel CellsKept
