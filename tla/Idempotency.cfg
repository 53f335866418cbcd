SPECIFICATION Spec
CONSTANTS
  Intents = {i1, i2}
  Executions = {e1}
  Signatures = {s1}
  Destinations = {d1}
  Null = Null
  Keys = {k1}
  OnceKey = OnceKey
  NoEntry = NoEntry
  Roles = {}
  Approvers = {}
  Instants = {}
  Transitions <- KeyedTransitions
  EvidenceInputs = {}
  ApprovalInputs = {}
  ReviewInputs = {}
  Amounts = {1}
  Production = FALSE
  MutationStore = "unset"
  MaxReceipts <- KeyedReceipts
SYMMETRY EitherIntent
INVARIANTS
  TypeOK
  OneAnswerPerKey
  AnswersArePast
CHECK_DEADLOCK FALSE
