\* Two overlapping calls, nothing fails: TLC finds a double booking.
SPECIFICATION ReliableSpec
CONSTANTS
  Day = 5
  Bookings = {b1, b2, b3}
  Handlers = {h1, h2}
  Availabilities <- MCAvailabilities
  Blackouts <- MCBlackouts
  UtcDays = {0}
  FirstTime <- MCFirstTime
  LastTime = 1
  None = None
INVARIANT
  NoDoubleBooking
CHECK_DEADLOCK FALSE
