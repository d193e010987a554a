SPECIFICATION MCSpec
CONSTANTS
  Requests = {r1, r2}
  Origins = {live, s1}
  Live = live
  Schedules = {s1}
  MaxActive = 1
  MaxPerHour = 2
  MaxRepeats = 1
  MaxUses = 1
  MaxAsked = 3
  MaxBookFaults = 1
  DispatchAttempts = 2
  Quotes = {q1, q2}
  FareConfigs <- CabOnly
  Routes <- MCRoutes
  Promos <- MCPromos
  MaxSupply = 1
  MaxDemand = 2
  Threshold = 6
  Step = 1
  MaxMultiplier = 5
INVARIANTS
  SchedTypeOK
  ActiveRidesBounded
  OneRidePerBooking
  PromoNeverOverused
  UsesAccountedFor
  PriceTypeOK
  LoneRequestNeverSurges
PROPERTIES
  BookingsSettle
  SurgeSubsides
\* Nobody has to ask for a ride, and requests are bounded.
CHECK_DEADLOCK FALSE
