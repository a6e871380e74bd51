SPECIFICATION Spec
CONSTANTS
    Letter <- A
    MaxText = 7
INVARIANTS
    OutputAsDocumented
    LinesAsDocumented
CHECK_DEADLOCK FALSE
