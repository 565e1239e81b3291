SPECIFICATION Spec
CONSTANTS
    p1 = p1  s1 = s1  s2 = s2  Junk = Junk  Whole = Whole
    Steps <- ShortWorkflow
    Papers = {p1}
    Slugs = {s1, s2}
    MaxCards = 2
    MaxSections = 2
    MaxSeeds = 1
    MaxTries = 2
    Seedings <- SomeSeeds
    CardPlans <- SomeCards
    SectionPlans <- SomeSections
    Rewriters <- OneRewrites
    MaxTasks = 2
INVARIANTS StagesAreDurable PublishedIsNotReplayed DeliveredIsComplete
PROPERTY ProgressIsKept
CHECK_DEADLOCK FALSE
