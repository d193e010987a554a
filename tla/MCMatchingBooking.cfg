SPECIFICATION MSpec
CONSTANTS
  Rides = {r1, r2}
  Drivers = {d1}
  Calls = {c1}
  Rider = Rider
  NoDriver = NoDriver
  Worker = Worker
  Cancellers = {"RIDER"}
  Reasons = {"USER_CANCELLED"}
  MaxEvents = 6
  MaxCandidates = 2
  Attempts = 3
  RideOps = {}
  StatusChoices = {"ONLINE"}
  Faults = {}
  MaxCuts = 0
INVARIANT NoDoubleBooking
\* No ride operation arrives here, so the system comes to rest.
CHECK_DEADLOCK FALSE
