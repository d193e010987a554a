SPECIFICATION PriceSpec
CONSTANTS
  Quotes = {q1}
  FareConfigs <- MCConfigs
  Routes <- MCRoutes
  Promos <- MCPromos
  MaxSupply = 1
  MaxDemand = 1
  Threshold = 6
  Step = 1
  MaxMultiplier = 5
INVARIANT ConfigIsLocked
