SPECIFICATION FairSpec
CONSTANTS
  Fields = {pose}
  Values = {v1, v2}
  KeyOf <- FlatKeys
  Interval = 2
  MaxWire = 1
  MaxFaults = 1
  MaxProbes = 1
INVARIANTS TypeOK PendingIsFlushed
PROPERTIES Converges ConnectionShown
