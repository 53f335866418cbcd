SPECIFICATION Spec
CONSTANTS
  Intents = {i1}
  Executions = {e1, e2}
  Signatures = {s1, s2}
  Destinations = {d1, d2}
  Null = Null
  Keys = {}
  OnceKey = OnceKey
  NoEntry = NoEntry
  Roles = {}
  Approvers = {}
  Instants = {}
  Transitions <- SettlementTransitions
  EvidenceInputs = {}
  ApprovalInputs = {}
  ReviewInputs = {}
  Amounts = {1, 2}
  Production = FALSE
  MutationStore = "unset"
  MaxReceipts <- SettlementReceipts
SYMMETRY Interchangeable
INVARIANTS
  OneJournalPerPayment
CHECK_DEADLOCK FALSE
