CONSTANTS
  game = game  monitor = monitor  stream = stream
  ChannelSlugs <- MCChannels
  Mixes <- MCMixes
  Orders <- MCOrders
  Starts <- MCStarts
  PerBus = 2
  PerName = 3
  MaxBehind = 2
  MaxOps = 1
  MaxFaults = 1
SPECIFICATION CellFairSpec
INVARIANTS CellTypeOK
PROPERTIES LoginHeals NothingMissing SweepSpares
CHECK_DEADLOCK FALSE
