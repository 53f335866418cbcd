SPECIFICATION Spec
CONSTANTS
  EndpointCount = 1
  Calls = {c1, c2, c3}
  Threshold = 2
  Cooldown = 1
  MaxAttempts = 2
  Keys = {market}
  Enriched = {market}
  NoKey = NoKey
  Ttl <- OneTick
  Vital <- OneVitalCall
  Optional <- OneOptionalForEnriched
SYMMETRY AnyCall
INVARIANT NoDuplicateUpstream
