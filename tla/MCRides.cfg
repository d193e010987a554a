SPECIFICATION MCSpec
CONSTANTS
  Rides = {r1}
  Drivers = {d1, d2}
  Calls = {c1, c2}
  Rider = Rider
  NoDriver = NoDriver
  Cancellers = {"RIDER", "DRIVER", "SYSTEM"}
  Reasons = {"USER_CANCELLED"}
  MaxEvents = 7
  PaymentIds = {p1, p2}
  NoPayment = NoPayment
  NoOrder = NoOrder
  ApiCalls = {c1, c2}
  OrderAttempts = 2
  PayFaults = {"enqueue", "crash"}
  WebhookPaths = {"secret", "unnamed", "named"}
  MaxPayCrashes = 1
  Instances = {i1, i2}
  Captains = {d1, d2}
  NoCaptain = NoDriver
  Trips = {t1, t2}
  TicksPerDay = 2
  MaxClock = 4
  MaxStamps = 1
SYMMETRY Symmetric
INVARIANTS
  TypeOK
  SettledByItsMove
  RestoresFollowCompletion
  PayTypeOK
  RefundsAreBacked
  BooksBalance
PROPERTIES
  LifecycleSpec
  LedgerSpec
\* Nobody has to call anything, and the clock is bounded.
CHECK_DEADLOCK FALSE
