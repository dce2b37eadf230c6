SPECIFICATION FairSpec
CONSTANTS
  Handles = {h1, h2}
  NoHandle = NoHandle
  MaxRevision = 1
  Context <- PairedContext
  MaxReloads = 1
  MaxDrops = 1
  MaxFaults = 0
  MaxDetaches = 0
PROPERTY CatchesUp
