SPECIFICATION FairSpec
CONSTANTS
  Handles = {h1, h2}
  NoHandle = NoHandle
  MaxRevision = 2
  Context <- PairedContext
  MaxReloads = 1
  MaxDrops = 0
  MaxFaults = 1
  MaxDetaches = 0
INVARIANTS TypeOK NeverGarbled FramesInSequence
PROPERTIES ImplementsLiveView CatchesUp
