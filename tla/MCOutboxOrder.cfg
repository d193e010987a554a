SPECIFICATION OutboxSpec
CONSTANTS
  Relays = {a, b}
  EventsPerRide = 2
  BatchSize = 1
  MaxAttempts = 2
  MaxOutboxFaults = 0
INVARIANT OrderedPerAggregate
\* Nothing has to be written.
CHECK_DEADLOCK FALSE
