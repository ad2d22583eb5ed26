\* Two writers, files that fail to be read, created or filled, and crashes.
CONSTANTS
  Writers = {w1, w2}
  a = a
  b = b
  c = c
  Other = Other
  Lists <- MCLists
  Seed <- MCSeed
  ChunkSize = 2
  IdentityEntries = 1
  MaxCalls = 3
  None = None
  Faulty = TRUE
  MayCrash = TRUE
SPECIFICATION FairSpec
INVARIANTS TypeOK EntriesRight HeadServed
PROPERTIES PublishedServed CallReturns ChainSpec
CHECK_DEADLOCK FALSE
