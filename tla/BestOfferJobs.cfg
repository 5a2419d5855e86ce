SPECIFICATION Spec
CONSTANTS
  Account = {a1, a2}
  Batch = {b1, b2}
  Caller = {loop, user}
  Scheduler = loop
  NoBatch = none
  MaxCrashes = 1
SYMMETRY Symmetry
VIEW View
INVARIANTS TypeOK OneActiveBatch BatchKept
PROPERTIES JobOutcomeFinal ImplementsSingleFlight
