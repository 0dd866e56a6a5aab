SPECIFICATION SchemaFairSpec
CONSTANTS
  t1 = t1
  t2 = t2
  t3 = t3
  first = first
  second = second
  Calls = {t1, t2, t3}
  Processes = {first, second}
  ProcessOf <- MCProcessOf
  NoOne = NoOne
INVARIANTS
  NoThreadWaitsForItsSibling
  OnlyItsOwnCreatorMisleads
PROPERTY
  EveryCallEnds
