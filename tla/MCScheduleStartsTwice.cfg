SPECIFICATION Spec
CONSTANTS
  NumRules = 1
  DueAt <- Staggered
  Ticks = {t1}
  Calls = {c1}
  CatchUp = 2
  Recheck = 1
  Durations = {1, 9}
  MaxNow = 4
  Budget <- OneEdit
PROPERTY StartsOnce
