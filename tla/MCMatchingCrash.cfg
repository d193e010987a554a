SPECIFICATION FairSpec
CONSTANTS
  Rides = {r1}
  Drivers = {d1, d2}
  Calls = {c1}
  Rider = Rider
  NoDriver = NoDriver
  Worker = Worker
  Cancellers = {"RIDER"}
  Reasons = {"USER_CANCELLED"}
  MaxEvents = 6
  MaxCandidates = 2
  Attempts = 3
  RideOps = {}
  StatusChoices = {"ONLINE"}
  Faults = {"crash"}
  MaxCuts = 1
PROPERTY EveryRideDecided
\* No ride operation arrives here, so the system comes to rest.
CHECK_DEADLOCK FALSE
