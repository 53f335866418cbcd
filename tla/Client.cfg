SPECIFICATION FairSpec
CONSTANTS
  Publishes = {p1, p2, p3}
  MessageLimit = 3
  Runs = 3
  Chains = 3
  StaleAfter = 2
  Kinds = {phantom, solflare}
  Accounts = {alice, bob}
  None = None
  MaxLoads = 2
INVARIANTS
  TypeOK
  SnapshotsAnswer
  OneConnection
PROPERTIES
  SubscriptionsSettle
  StreamRecovers
  LossIsShown
  PollingQuiets
  RefreshHeals
CHECK_DEADLOCK FALSE
