\* Two overlapping calls, three bookings, settings of different zones.
SPECIFICATION Spec
CONSTANTS
  Day = 5
  Bookings = {b1, b2, b3}
  Handlers = {h1, h2}
  Availabilities <- MCAvailabilities
  Blackouts <- MCBlackouts
  UtcDays = {0}
  FirstTime <- MCFirstTime
  LastTime = 1
  None = None
SYMMETRY Symmetry
INVARIANTS
  TypeOK
  OverlapNeedsOverlappingCalls
  ShownSlotsAreFree
  SlotsFitWorkDay
CHECK_DEADLOCK FALSE
