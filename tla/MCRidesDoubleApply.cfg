SPECIFICATION Spec
CONSTANTS
  Rides = {r1}
  Drivers = {d1, d2}
  Calls = {c1, c2}
  Rider = Rider
  NoDriver = NoDriver
  Cancellers = {"RIDER", "DRIVER", "SYSTEM"}
  Reasons = {"USER_CANCELLED"}
  MaxEvents = 7
INVARIANT NoDoubleApply
