SPECIFICATION Spec
CONSTANTS
  Intents = {i1}
  Executions = {}
  Signatures = {}
  Destinations = {}
  Null = Null
  Keys = {}
  OnceKey = OnceKey
  NoEntry = NoEntry
  Roles = {r1, r2}
  Approvers = {a1, a2}
  Instants = {t1}
  Transitions <- GovernanceTransitions
  EvidenceInputs <- EvidenceRecords
  ApprovalInputs <- ApprovalRecords
  ReviewInputs <- GovernanceReviews
  Amounts = {}
  Production = FALSE
  MutationStore = "unset"
  MaxReceipts <- GovernanceReceipts
INVARIANTS
  AccountingChain
  OneApprovalPerRole
  ReleasesAreAudited
PROPERTIES
  PassedReviewsStayPassed
CHECK_DEADLOCK FALSE
