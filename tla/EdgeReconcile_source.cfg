CONSTANTS
  Edges = {out, source}
  Watched = {out}
  PerEdge = 5
  MaxOps = 1
  MaxFaults = 0
  MaxDrops = 0
SPECIFICATION FairSpec
PROPERTIES EveryEdgeStands
\* The daemon rests once its graph stands and nobody gives commands.
CHECK_DEADLOCK FALSE
