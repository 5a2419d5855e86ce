SPECIFICATION Spec
CONSTANTS
  Account = {a1}
  Batch = {b1, b2}
  Caller = {loop, user}
  Scheduler = loop
  NoBatch = none
  MaxCrashes = 0
PROPERTIES CancellationKept
