SPECIFICATION Spec
CONSTANTS
    LabelWidth = 8
    LabelHeight = 4
    MinSize = 2
    MaxMove = 7
    ScaleUp = 3
    ScaleDown = 2
CHECK_DEADLOCK FALSE
INVARIANTS OppositeAnchored
