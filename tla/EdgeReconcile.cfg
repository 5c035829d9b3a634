CONSTANTS
  Edges = {out}
  Watched = {out}
  PerEdge = 5
  MaxOps = 1
  MaxFaults = 1
  MaxDrops = 1
SPECIFICATION FairSpec
INVARIANTS NothingForgotten
PROPERTIES EdgesStand ReportHeals
\* The daemon rests once its graph stands and nobody gives commands.
CHECK_DEADLOCK FALSE
