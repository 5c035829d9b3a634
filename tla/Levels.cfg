CONSTANTS
  game = game  voice = voice  window = window  tray = tray
  Channels <- MCChannels
  Clients <- MCClients
  Mix = mix
  Edge = edge
  None = none
  MaxEvents = 4
  MaxLosses = 1
SYMMETRY MCSymmetry
SPECIFICATION Spec
INVARIANTS TypeOK MetersServe
PROPERTIES AnalysersKeepTheirWindows
CHECK_DEADLOCK FALSE
