SPECIFICATION MCSpec
CONSTANTS
  Relays = {a, b}
  EventsPerRide = 2
  BatchSize = 2
  MaxAttempts = 2
  MaxOutboxFaults = 1
  AuthCalls = {c1, c2}
  MaxTries = 1
  MaxSent = 1
  MaxTokens = 3
  MaxAuthFaults = 1
  Sockets = {k1, k2, k3}
  NoSocket = NoSocket
  SeedRiders = {r1}
  SeedDrivers = {d1, d2}
  MaxSaved = 3
  Notes = {n1}
  NoteAttempts = 3
  MaxNoteCrashes = 1
  Viewers = {v1, v2}
  MaxPlace = 2
  MaxLag = 1
  CacheTtl = 2
  BeatTtl = 2
  MaxChanges = 2
INVARIANTS
  OutboxTypeOK
  NoEventLost
  OrderedWhileCalm
  AuthTypeOK
  OneLiveTokenWhileSerial
  ConnectedIsRegistered
  SeedRepeatable
  RepeatsOnlyAfterCrash
PROPERTIES
  ChannelSpec
  EveryChannelTried
  EtaCatchesUp
  PingingDriverComesBack
\* Clients, riders and drivers may stop calling, and counters are bounded.
CHECK_DEADLOCK FALSE
