CONSTANTS
  None = None
  w1 = w1
  w2 = w2
  p1 = p1
  Workers <- MCWorkers
  Papers <- MCPapers
  Pages <- MCPages
  ChunkCount <- MCChunkCount
  MaxAttempts = 2
  MaxFaults = 1
SPECIFICATION FairSpec
CHECK_DEADLOCK FALSE
INVARIANTS
  CursorCovers
  ReceiptMeansInstalled
  NeverHalfReplaced
PROPERTY QueueDrains
