SPECIFICATION FairSpec
CONSTANTS
  EndpointCount = 3
  Calls = {c1, c2}
  Threshold = 2
  Cooldown = 1
  MaxAttempts = 2
  Keys = {overview, market}
  Enriched = {market}
  NoKey = NoKey
  Ttl <- OneTick
  Vital <- OneVitalCall
  Optional <- OneOptionalForEnriched
INVARIANTS
  OpenCircuitsAreEarned
  OneFlightPerKey
PROPERTIES
  ImplementsSnapshots
  FlightsEnd
  GoodEndpointHeals
