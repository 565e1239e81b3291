SPECIFICATION Spec
CONSTANTS
    c1 = c1  c2 = c2
    url = url
    Callers = {c1, c2}
    Keys = {url}
    Slots <- OneSlot
    MaxWaiters <- OneWaiter
    MaxShared = 2
    Cost <- SmallCost
    High = 5
    Samples = {0, 5}
    Limit = 2
    MaxScratch = 5
    MaxKills = 1
INVARIANTS ResourcesAreBalanced SharedWorkIsWanted ReplyIsOwn
PROPERTY ServiceDrains
CHECK_DEADLOCK FALSE
