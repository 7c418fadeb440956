CONSTANTS
    NThreads = 2
    MaxTip = 1
SPECIFICATION Spec
PROPERTIES
    StopReturns
CHECK_DEADLOCK FALSE
