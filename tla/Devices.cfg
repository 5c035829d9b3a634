CONSTANTS
  phones = phones  speakers = speakers  mic = mic  headset = headset
  whole = whole  aux = aux
  OutRefs <- MCOutRefs
  InRefs <- MCInRefs
  Whole = whole
  Null = null
  None = none
  Gone = gone
  MaxOuts = 2
  MaxWires = 3
  MaxEvents = 4
SPECIFICATION Spec
INVARIANTS TypeOK MixFollows WiresServe
PROPERTIES RemovalIsExact
CHECK_DEADLOCK FALSE
