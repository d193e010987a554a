SPECIFICATION FairSpec
CONSTANTS
  Rides = {r1}
  Drivers = {d1, d2}
  Calls = {c1}
  Rider = Rider
  NoDriver = NoDriver
  Worker = Worker
  Cancellers = {"RIDER"}
  Reasons = {"USER_CANCELLED"}
  MaxEvents = 6
  MaxCandidates = 2
  Attempts = 3
  RideOps = {"cancel"}
  StatusChoices = {"ONLINE"}
  Faults = {}
  MaxCuts = 0
PROPERTIES
  EveryRideDecided
  ClaimIsHonoured
  LifecycleSpec
