SPECIFICATION FairSpec
CONSTANTS
    r1 = r1  o1 = o1  c1 = c1
    MaxUploads = 2
    Repairs = {r1}
    Overlays = {o1}
    Cleaners = {c1}
    MaxTries = 2
    MaxFaults = 1
    NoCleaner = NoCleaner
INVARIANTS ArchiveIsReadable CleanedMeansGone
PROPERTIES CleanupEnds
CHECK_DEADLOCK FALSE
