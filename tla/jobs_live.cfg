SPECIFICATION FairSpec
CONSTANTS
  j1 = j1  c1 = c1  c2 = c2  d1 = d1
  Jobs = {j1}  Downloads = {}  Cleaners = {c1}
  Operations <- JustSplit
  None = None  Retention = 1  MaxTime = 2  MaxCrashes = 1
PROPERTIES AgedRemoved ExpiredArchived
