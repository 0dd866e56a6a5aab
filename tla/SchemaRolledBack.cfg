SPECIFICATION HealthySpec
CONSTANTS
  t1 = t1
  t2 = t2
  t3 = t3
  first = first
  second = second
  Calls = {t1, t2}
  Processes = {first}
  ProcessOf <- MCProcessOf
  NoOne = NoOne
PROPERTY
  AppliedIsThere
