CONSTANTS
    NThreads = 3
    MaxTip = 2
SPECIFICATION Spec
INVARIANTS
    ResultUnset
    NoThreadLeft
PROPERTIES
    JobComes
    ThreadsGoOn
CHECK_DEADLOCK FALSE
