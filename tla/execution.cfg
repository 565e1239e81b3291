SPECIFICATION FairSpec
CONSTANTS
    c1 = c1  c2 = c2  x1 = x1
    Cards = {c1, c2}
    Sections = {x1}
    Reports <- FewReports
    MaxEvents = 3
    MaxAttempts = 2
    MaxDefects = 2
INVARIANT ChargedIsComplete
PROPERTIES ReadableIsNeverHidden NoStrayProcess ExecutionEnds
CHECK_DEADLOCK FALSE
