\* A provider west of UTC: TLC finds a shown slot that cannot be booked.
SPECIFICATION ReliableSpec
CONSTANTS
  Day = 5
  Bookings = {b1, b2, b3}
  Handlers = {h1, h2}
  Availabilities <- WestOfUtc
  Blackouts <- MCBlackouts
  UtcDays = {5}
  FirstTime <- MCFirstTime
  LastTime = 1
  None = None
INVARIANT
  ShownSlotsAreBookable
CHECK_DEADLOCK FALSE
