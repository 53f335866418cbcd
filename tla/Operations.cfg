SPECIFICATION FairSpec
CONSTANTS
  rpc = rpc
  pyth = pyth
  jupiter = jupiter
  helius = helius
  Rpc = rpc
  Providers = {rpc, pyth, jupiter, helius}
  Market = {pyth, jupiter}
  Setups <- SixEnvironments
  MaxAge = 1
  FailureHysteresis = 2
  RecoveryHysteresis = 2
  Window = 0
  MaxSamples = 2
  MinSamples = 2
  AvailabilityTarget = 99
INVARIANTS
  TypeOK
  WindowIsExact
PROPERTIES
  StrictReadyIsCurrent
  QuorumIsDebounced
  QuorumFollows
  StrictRecovers
  SloForgives
