SPECIFICATION MSpec
CONSTANTS
  Rides = {r1}
  Drivers = {d1, d2}
  Calls = {c1}
  Rider = Rider
  NoDriver = NoDriver
  Worker = Worker
  Cancellers = {"RIDER"}
  Reasons = {"USER_CANCELLED"}
  MaxEvents = 6
  MaxCandidates = 2
  Attempts = 2
  RideOps = {"arrive", "start", "complete", "cancel"}
  StatusChoices = {"ONLINE"}
  Faults = {"enqueue", "crash", "error", "restore"}
  MaxCuts = 2
SYMMETRY Symmetric
ACTION_CONSTRAINT LifeOrCuts
INVARIANTS
  MTypeOK
  
  RestoresBelong
  NoRideAbandoned

  
