SPECIFICATION Spec
CONSTANTS
  NumRules = 1
  DueAt <- Staggered
  Ticks = {t1}
  Calls = {c1}
  CatchUp = 2
  Recheck = 1
  Durations = {2}
  MaxNow = 4
  Budget <- Everything
INVARIANT TypeOK
PROPERTY StartsOnceUnedited
