SPECIFICATION FairSpec
CONSTANTS
  Account = {a1}
  Batch = {b1, b2}
  Caller = {loop}
  Scheduler = loop
  NoBatch = none
  MaxCrashes = 0
PROPERTIES EveryBatchEnds
