------------------------ MODULE ReliefCapital_proofs -----------------------
(***************************************************************************)
(* Proofs about ReliefCapital, for every set of intents, executions, keys  *)
(* and inputs and every bound.                                             *)
(***************************************************************************)
EXTENDS ReliefCapital, TLAPS

----------------------------------------------------------------------------
(* Lemmas about the capital state machine.                                 *)

\* A transition the code accepts returns an intent of the right shape.
LEMMA ApplyType ==
  ASSUME NEW x \in CapitalIntents, NEW t \in CapitalTransitions
  PROVE  Apply(x, t) \in CapitalIntents
<1>1. x.amounts \in [Stages -> Nat] /\ x.state \in CapitalStates /\ x.version \in Nat \ {0}
  BY DEF CapitalIntents
<1>2. t.type \in TransitionTypes /\ t.amount \in Nat
  BY DEF CapitalTransitions
<1>3. (IF t.type = "OTHER" THEN x.state ELSE LabelOf[t.type]) \in CapitalStates
  BY <1>1, <1>2 DEF LabelOf, TransitionTypes, AmountMoves, CapitalStates
<1>4. ASSUME t.type \in AmountMoves
      PROVE  StageOf[t.type] \in Stages
  BY <1>4 DEF StageOf, AmountMoves, Stages
<1>5. (IF t.type \in AmountMoves
       THEN [x.amounts EXCEPT ![StageOf[t.type]] = @ + t.amount]
       ELSE x.amounts) \in [Stages -> Nat]
  BY <1>1, <1>2, <1>4
<1> QED
  BY <1>1, <1>3, <1>5 DEF Apply, CapitalIntents

\* No transition takes anything out of a stage.
LEMMA GrowingTotals ==
  ASSUME NEW x \in CapitalIntents, NEW t \in CapitalTransitions, NEW s \in Stages
  PROVE  /\ Apply(x, t).amounts[s] \in Nat
         /\ Apply(x, t).amounts[s] >= x.amounts[s]
<1>1. x.amounts \in [Stages -> Nat] /\ t.amount \in Nat
  BY DEF CapitalIntents, CapitalTransitions
<1> QED
  BY <1>1 DEF Apply

\* The checks of the switch imply the final assertion: from an intent that
\* satisfies the accounting chain, no accepted transition breaks it.
LEMMA SwitchKeepsAccounting ==
  ASSUME NEW x \in CapitalIntents, NEW t \in CapitalTransitions,
         AssertAccounting(x.amounts), ~Refused(x, t)
  PROVE  AssertAccounting(Apply(x, t).amounts)
<1>1. x.amounts \in [Stages -> Nat]
  BY DEF CapitalIntents
<1>2. t.type \in TransitionTypes /\ t.amount \in Nat
  BY DEF CapitalTransitions
<1>3. Apply(x, t).amounts = IF t.type \in AmountMoves
                            THEN [x.amounts EXCEPT ![StageOf[t.type]] = @ + t.amount]
                            ELSE x.amounts
  BY DEF Apply
<1>4. CASE t.type \notin AmountMoves
  BY <1>3, <1>4
<1>5. CASE t.type \in AmountMoves
  <2> DEFINE s == StageOf[t.type]
             a == x.amounts
             b == [a EXCEPT ![s] = @ + t.amount]
  <2>1. s \in Stages
    BY <1>5 DEF StageOf, AmountMoves, Stages
  <2>2. b \in [Stages -> Nat] /\ b[s] = a[s] + t.amount
        /\ \A u \in Stages : u # s => b[u] = a[u]
    BY <1>1, <1>2, <2>1
  <2>3. \A u \in BoundedStages : Upstream[u] \in Stages /\ Upstream[u] # u
    BY DEF BoundedStages, Stages, Upstream
  <2>4. \A u \in BoundedStages : u \in Stages /\ a[u] <= a[Upstream[u]]
    BY DEF AssertAccounting, BoundedStages
  <2>5. s \in BoundedStages => a[s] + t.amount <= a[Upstream[s]]
    <3>1. t.type = "RAISE" => s = "raised"
      BY DEF StageOf
    <3>2. CASE t.type = "RAISE"
      BY <3>1, <3>2 DEF BoundedStages
    <3>3. CASE t.type # "RAISE"
      <4>1. ~(a[s] + t.amount > a[Upstream[s]])
        BY <3>3, <1>5 DEF Refused, Overdraws
      <4> QED
        BY <4>1, <1>1, <1>2, <2>1, <2>3
    <3> QED
      BY <3>2, <3>3
  <2>6. ASSUME NEW u \in BoundedStages
        PROVE  b[u] <= b[Upstream[u]]
    <3>1. CASE u = s
      BY <3>1, <2>2, <2>3, <2>5
    <3>2. CASE u # s
      <4>1. b[u] = a[u] /\ a[u] <= a[Upstream[u]]
        BY <3>2, <2>2, <2>4
      <4>2. b[Upstream[u]] >= a[Upstream[u]]
        BY <1>1, <1>2, <2>1, <2>2, <2>3
      <4> QED
        BY <4>1, <4>2, <1>1, <2>2, <2>3, <2>4
    <3> QED
      BY <3>1, <3>2
  <2> QED
    BY <1>3, <1>5, <2>2, <2>6 DEF AssertAccounting
<1> QED
  BY <1>4, <1>5

----------------------------------------------------------------------------
(* Type correctness.                                                       *)

\* The inputs the routes accept are of the types the domain expects.
LEMMA InputTypes ==
  /\ \A t \in Transitions : t \in CapitalTransitions
  /\ MarkReleaseReady \in CapitalTransitions
  /\ \A x \in ExecutionRecords : ReleaseOf(x) \in CapitalTransitions
  BY InputsAssumption
  DEF MarkReleaseReady, ReleaseOf, CapitalTransitions, TransitionTypes,
      AmountMoves, ExecutionRecords

\* The snapshot a handler answers with, taken after its writes, is well typed.
LEMMA SnapshotType ==
  ASSUME AggregatesOK', NEW i \in Intents
  PROVE  Snapshot(i)' \in Snapshots
<1>1. NoExecution \in ExecutionRecords
  BY DEF NoExecution, ExecutionRecords, ExecutionStates
<1> QED
  BY <1>1 DEF AggregatesOK, Snapshot, Snapshots

\* Remembering a well-typed request and response keeps the registry well typed.
LEMMA RememberType ==
  ASSUME RegistryOK, NEW k \in RequestKeys, NEW request \in Requests,
         NEW response \in Snapshots, Remember(k, request, response)
  PROVE  RegistryOK'
<1>1. CASE k = OnceKey
  BY <1>1 DEF Remember, RegistryOK
<1>2. CASE k # OnceKey
  <2>1. [request |-> request, response |-> response] \in RegistryEntries
    BY DEF RegistryEntries
  <2> QED
    BY <1>2, <2>1 DEF Remember, RegistryOK
<1> QED
  BY <1>1, <1>2

\* The receipt of a handler keeps the counters well typed.
LEMMA ReceiptType ==
  ASSUME receipts \in [Intents -> [ReceiptKinds -> Nat]],
         NEW i \in Intents, NEW kind \in ReceiptKinds, AppendReceipt(i, kind)
  PROVE  receipts' \in [Intents -> [ReceiptKinds -> Nat]]
  BY DEF AppendReceipt

LEMMA CreateIntentType ==
  ASSUME TypeOK, NEW k \in RequestKeys, NEW i \in Intents, CreateIntent(k, i)
  PROVE  TypeOK'
<1> USE DEF TypeOK
<1>1. "CAPITAL_INTENT_CREATED" \in ReceiptKinds
  BY DEF ReceiptKinds
<1>2. AggregatesOK'
  BY <1>1, ReceiptType DEF CreateIntent, AggregatesOK
<1>3. [op |-> "create"] \in Requests
  BY DEF Requests
<1>4. Snapshot(i)' \in Snapshots
  BY <1>2, SnapshotType
<1> QED
  BY <1>2, <1>3, <1>4, RememberType DEF CreateIntent

LEMMA TransitionIntentType ==
  ASSUME TypeOK, NEW k \in RequestKeys, NEW i \in Intents,
         NEW t \in Transitions, TransitionIntent(k, i, t)
  PROVE  TypeOK'
<1> USE DEF TypeOK
<1>1. TransitionReceipt(t) \in ReceiptKinds
  BY DEF TransitionReceipt, TransitionKinds, ReceiptKinds
<1>2. Apply(intent[i], t) \in CapitalIntents
  BY InputTypes, ApplyType DEF AggregatesOK
<1>3. AggregatesOK'
  BY <1>1, <1>2, ReceiptType DEF TransitionIntent, AggregatesOK
<1>4. [op |-> "transition", id |-> i, transition |-> t] \in Requests
  BY DEF Requests
<1>5. Snapshot(i)' \in Snapshots
  BY <1>3, SnapshotType
<1> QED
  BY <1>3, <1>4, <1>5, RememberType DEF TransitionIntent

LEMMA AddEvidenceType ==
  ASSUME TypeOK, NEW k \in RequestKeys, NEW i \in Intents,
         NEW input \in EvidenceInputs, AddEvidence(k, i, input)
  PROVE  TypeOK'
<1> USE DEF TypeOK
<1>1. "EVIDENCE_ADDED" \in ReceiptKinds
  BY DEF ReceiptKinds
<1>2. AggregatesOK'
  BY <1>1, ReceiptType, InputsAssumption DEF AddEvidence, AggregatesOK
<1>3. [op |-> "evidence", id |-> i, input |-> input] \in Requests
  BY DEF Requests
<1>4. Snapshot(i)' \in Snapshots
  BY <1>2, SnapshotType
<1> QED
  BY <1>2, <1>3, <1>4, RememberType DEF AddEvidence

LEMMA AddApprovalType ==
  ASSUME TypeOK, NEW k \in RequestKeys, NEW i \in Intents,
         NEW input \in ApprovalInputs, AddApproval(k, i, input)
  PROVE  TypeOK'
<1> USE DEF TypeOK
<1>1. "APPROVAL_RECORDED" \in ReceiptKinds
  BY DEF ReceiptKinds
<1>2. AggregatesOK'
  BY <1>1, ReceiptType, InputsAssumption DEF AddApproval, AggregatesOK
<1>3. [op |-> "approval", id |-> i, input |-> input] \in Requests
  BY DEF Requests
<1>4. Snapshot(i)' \in Snapshots
  BY <1>2, SnapshotType
<1> QED
  BY <1>2, <1>3, <1>4, RememberType DEF AddApproval

LEMMA PrepareReleaseType ==
  ASSUME TypeOK, NEW k \in RequestKeys, NEW i \in Intents,
         NEW review \in ReviewInputs, PrepareRelease(k, i, review)
  PROVE  TypeOK'
<1> USE DEF TypeOK
<1>1. "RELEASE_REVIEW_PASSED" \in ReceiptKinds
  BY DEF ReceiptKinds
<1>2. Apply(intent[i], MarkReleaseReady) \in CapitalIntents
  BY InputTypes, ApplyType DEF AggregatesOK
<1>3. AggregatesOK'
  BY <1>1, <1>2, ReceiptType DEF PrepareRelease, AggregatesOK
<1>4. [op |-> "release", id |-> i, review |-> review] \in Requests
  BY DEF Requests
<1>5. Snapshot(i)' \in Snapshots
  BY <1>3, SnapshotType
<1> QED
  BY <1>3, <1>4, <1>5, RememberType DEF PrepareRelease

LEMMA PrepareSettlementType ==
  ASSUME TypeOK, NEW k \in RequestKeys, NEW i \in Intents, NEW e \in Executions,
         NEW a \in Amounts, NEW d \in Destinations, PrepareSettlement(k, i, e, a, d)
  PROVE  TypeOK'
<1> USE DEF TypeOK
<1>1. "SETTLEMENT_PREPARED" \in ReceiptKinds
  BY DEF ReceiptKinds
<1>2. CreateExecution(i, a, d) \in ExecutionRecords
  BY InputsAssumption DEF CreateExecution, ExecutionRecords, ExecutionStates
<1>3. AggregatesOK'
  BY <1>1, <1>2, ReceiptType DEF PrepareSettlement, AggregatesOK
<1>4. [op |-> "prepare", id |-> i, amount |-> a, destination |-> d] \in Requests
  BY DEF Requests
<1>5. Snapshot(i)' \in Snapshots
  BY <1>3, SnapshotType
<1> QED
  BY <1>3, <1>4, <1>5, RememberType DEF PrepareSettlement

LEMMA SubmitSettlementType ==
  ASSUME TypeOK, NEW k \in RequestKeys, NEW i \in Intents, NEW e \in Executions,
         NEW s \in Signatures, SubmitSettlement(k, i, e, s)
  PROVE  TypeOK'
<1> USE DEF TypeOK
<1>1. "SETTLEMENT_SUBMITTED" \in ReceiptKinds
  BY DEF ReceiptKinds
<1>2. MarkSubmitted(execution[e], s) \in ExecutionRecords
  BY DEF AggregatesOK, MarkSubmitted, ExecutionRecords, ExecutionStates
<1>3. AggregatesOK'
  BY <1>1, <1>2, ReceiptType DEF SubmitSettlement, AggregatesOK
<1>4. [op |-> "submit", id |-> i, execution |-> e, signature |-> s] \in Requests
  BY DEF Requests
<1>5. Snapshot(i)' \in Snapshots
  BY <1>3, SnapshotType
<1> QED
  BY <1>3, <1>4, <1>5, RememberType DEF SubmitSettlement

LEMMA SetSettlementUnknownType ==
  ASSUME TypeOK, NEW k \in RequestKeys, NEW i \in Intents, NEW e \in Executions,
         SetSettlementUnknown(k, i, e)
  PROVE  TypeOK'
<1> USE DEF TypeOK
<1>1. "EXECUTION_UNKNOWN" \in ReceiptKinds
  BY DEF ReceiptKinds
<1>2. MarkUnknown(execution[e]) \in ExecutionRecords
  BY DEF AggregatesOK, MarkUnknown, ExecutionRecords, ExecutionStates
<1>3. AggregatesOK'
  BY <1>1, <1>2, ReceiptType DEF SetSettlementUnknown, AggregatesOK
<1>4. [op |-> "unknown", id |-> i, execution |-> e] \in Requests
  BY DEF Requests
<1>5. Snapshot(i)' \in Snapshots
  BY <1>3, SnapshotType
<1> QED
  BY <1>3, <1>4, <1>5, RememberType DEF SetSettlementUnknown

LEMMA ReconcileSettlementType ==
  ASSUME TypeOK, NEW k \in RequestKeys, NEW i \in Intents, NEW e \in Executions,
         NEW o \in ObservationInputs, ReconcileSettlement(k, i, e, o)
  PROVE  TypeOK'
<1> USE DEF TypeOK
<1>1. "SETTLEMENT_RECONCILED" \in ReceiptKinds
  BY DEF ReceiptKinds
<1>2. /\ execution[e] \in ExecutionRecords
      /\ ReconcileExecution(execution[e], o) \in ExecutionRecords
      /\ SettlementJournal(execution[e]) \in JournalEntries
  <2>1. execution[e] \in ExecutionRecords
    BY DEF AggregatesOK
  <2>2. o.amount \in Nat /\ o.destination \in Destinations
    BY InputsAssumption DEF ObservationInputs
  <2>3. ReconcileExecution(execution[e], o) \in ExecutionRecords
    <3>1. (IF o.finalized THEN "RECONCILED" ELSE "CONFIRMING") \in ExecutionStates
      BY DEF ExecutionStates
    <3> QED
      BY <2>1, <2>2, <3>1 DEF ReconcileExecution, ExecutionRecords
  <2>4. SettlementJournal(execution[e]) \in JournalEntries
    BY <2>1 DEF ExecutionRecords, SettlementJournal, JournalEntries
  <2> QED
    BY <2>1, <2>3, <2>4
<1>3. execution' \in [Executions -> ExecutionRecords]
  BY <1>2 DEF ReconcileSettlement, AggregatesOK
<1>4. ReconcileRequest(i, e, o) \in Requests
  BY DEF Requests, ReconcileRequest
<1>5. CASE Confirming(k, i, e, o)
  <2>1. AggregatesOK'
    BY <1>3, <1>5 DEF ReconcileSettlement, Confirming, AggregatesOK
  <2>2. Snapshot(i)' \in Snapshots
    BY <2>1, SnapshotType
  <2> QED
    BY <1>4, <1>5, <2>1, <2>2, RememberType DEF Confirming
<1>6. CASE ReleaseSettled(k, i, e, o)
  <2>1. Apply(intent[i], ReleaseOf(execution[e])) \in CapitalIntents
    BY <1>2, InputTypes, ApplyType DEF AggregatesOK
  <2>2. AggregatesOK'
    BY <1>1, <1>2, <1>3, <1>6, <2>1, ReceiptType
    DEF ReconcileSettlement, ReleaseSettled, AggregatesOK
  <2>3. Snapshot(i)' \in Snapshots
    BY <2>2, SnapshotType
  <2> QED
    BY <1>4, <1>6, <2>2, <2>3, RememberType DEF ReleaseSettled
<1>7. CASE ReleaseThrows(i, e, o)
  BY <1>3, <1>7 DEF ReconcileSettlement, ReleaseThrows, AggregatesOK, RegistryOK
<1> QED
  BY <1>5, <1>6, <1>7 DEF ReconcileSettlement

LEMMA ReplayRequestType ==
  ASSUME TypeOK, NEW k \in Keys, NEW request \in Requests, ReplayRequest(k, request)
  PROVE  TypeOK'
  BY DEF TypeOK, AggregatesOK, RegistryOK, ReplayRequest, Replay, aggregates

\* The aggregates and the registry always have the shape TypeOK describes.
THEOREM TypeCorrect == Spec => []TypeOK
<1>1. Init => TypeOK
  <2> SUFFICES ASSUME Init PROVE TypeOK
    OBVIOUS
  <2>1. NewIntent \in CapitalIntents
    BY DEF NewIntent, CapitalIntents, CapitalStates
  <2>2. NoExecution \in ExecutionRecords
    BY DEF NoExecution, ExecutionRecords, ExecutionStates
  <2>3. AggregatesOK
    BY <2>1, <2>2 DEF Init, AggregatesOK
  <2>4. RegistryOK
    BY DEF Init, RegistryInit, RegistryOK
  <2> QED
    BY <2>3, <2>4 DEF TypeOK
<1>2. TypeOK /\ [Next]_vars => TypeOK'
  <2> SUFFICES ASSUME TypeOK, [Next]_vars PROVE TypeOK'
    OBVIOUS
  <2>1. CASE UNCHANGED vars
    BY <2>1 DEF TypeOK, AggregatesOK, RegistryOK, vars, aggregates
  <2>2. ASSUME NEW k \in RequestKeys, NEW i \in Intents, NEW e \in Executions,
               SettlementNext(k, i, e)
        PROVE  TypeOK'
    BY <2>2, PrepareSettlementType, SubmitSettlementType,
       SetSettlementUnknownType, ReconcileSettlementType
    DEF SettlementNext
  <2> QED
    BY <2>1, <2>2, CreateIntentType, TransitionIntentType, AddEvidenceType,
       AddApprovalType, PrepareReleaseType, ReplayRequestType
    DEF Next
<1> QED
  BY <1>1, <1>2, PTL DEF Spec

----------------------------------------------------------------------------
(* Safety.  The theorems below rest on two facts about a step: what it may *)
(* do to the intents and journals, and what it may do to an execution.     *)

\* A step changes at most one intent, by one transition the domain accepts,
\* and writes a journal only together with the release of an execution; a
\* release without one leaves a receipt of its own.
MoneyStep(i, t) ==
  /\ CanApply(intent[i], t)
  /\ intent' = [intent EXCEPT ![i] = Apply(@, t)]
  /\ \/ /\ UNCHANGED journals
        /\ t.type = "RELEASE" => receipts'[i]["CAPITAL_RELEASE"] > 0
     \/ \E e \in Executions :
          /\ Holds(i, e)
          /\ t = ReleaseOf(execution[e])
          /\ journals' = [journals EXCEPT ![i] = Append(@, SettlementJournal(execution[e]))]
          /\ execution' = [execution EXCEPT ![e] = execution'[e]]
          /\ execution'[e].state = "RECONCILED"
          /\ SettlementJournal(execution'[e]) = SettlementJournal(execution[e])
          /\ execution'[e].intentId = i

LEMMA StepOfMoney ==
  ASSUME TypeOK, [Next]_vars
  PROVE  \/ UNCHANGED <<intent, journals>>
         \/ \E i \in Intents, t \in CapitalTransitions : MoneyStep(i, t)
<1>1. CASE UNCHANGED vars
  BY <1>1 DEF vars, aggregates
<1>2. ASSUME NEW k \in RequestKeys, NEW i \in Intents, NEW t \in Transitions,
             TransitionIntent(k, i, t)
      PROVE  MoneyStep(i, t) /\ t \in CapitalTransitions
  <2>1. t.type = "RELEASE" => receipts'[i]["CAPITAL_RELEASE"] > 0
    <3>1. receipts \in [Intents -> [ReceiptKinds -> Nat]] /\ "CAPITAL_RELEASE" \in ReceiptKinds
      BY DEF TypeOK, AggregatesOK, TransitionKinds, ReceiptKinds
    <3>2. t.type = "RELEASE" => AppendReceipt(i, "CAPITAL_RELEASE")
      BY <1>2 DEF TransitionIntent, TransitionReceipt
    <3> QED
      BY <3>1, <3>2 DEF AppendReceipt
  <2> QED
    BY <1>2, <2>1, InputTypes DEF TransitionIntent, MoneyStep
<1>3. ASSUME NEW k \in RequestKeys, NEW i \in Intents, NEW review \in ReviewInputs,
             PrepareRelease(k, i, review)
      PROVE  MoneyStep(i, MarkReleaseReady) /\ MarkReleaseReady \in CapitalTransitions
  BY <1>3, InputTypes DEF PrepareRelease, MoneyStep, MarkReleaseReady
<1>4. ASSUME NEW k \in RequestKeys, NEW i \in Intents, NEW e \in Executions,
             NEW o \in ObservationInputs, ReconcileSettlement(k, i, e, o)
      PROVE  \/ UNCHANGED <<intent, journals>>
             \/ /\ MoneyStep(i, ReleaseOf(execution[e]))
                /\ ReleaseOf(execution[e]) \in CapitalTransitions
  <2>1. execution[e] \in ExecutionRecords
    BY DEF TypeOK, AggregatesOK
  <2>2. CASE Confirming(k, i, e, o) \/ ReleaseThrows(i, e, o)
    BY <2>2 DEF Confirming, ReleaseThrows
  <2>3. CASE ReleaseSettled(k, i, e, o)
    <3>1. execution' = [execution EXCEPT ![e] = ReconcileExecution(execution[e], o)]
      BY <1>4 DEF ReconcileSettlement
    <3>2. execution'[e] = ReconcileExecution(execution[e], o)
      BY <3>1 DEF TypeOK, AggregatesOK
    <3>3. /\ execution'[e].state = "RECONCILED"
          /\ SettlementJournal(execution'[e]) = SettlementJournal(execution[e])
          /\ execution'[e].intentId = i
      <4>1. o.finalized
        BY <2>3 DEF ReleaseSettled
      <4>2. execution[e].intentId = i
        BY <1>4 DEF ReconcileSettlement, Holds
      <4>3. /\ ReconcileExecution(execution[e], o).state = "RECONCILED"
            /\ ReconcileExecution(execution[e], o).intentId = execution[e].intentId
            /\ ReconcileExecution(execution[e], o).signature = execution[e].signature
            /\ ReconcileExecution(execution[e], o).expectedAmount
                 = execution[e].expectedAmount
            /\ ReconcileExecution(execution[e], o).expectedDestination
                 = execution[e].expectedDestination
        BY <2>1, <4>1 DEF ReconcileExecution, ExecutionRecords
      <4> QED
        BY <3>2, <4>2, <4>3 DEF SettlementJournal
    <3>4. execution' = [execution EXCEPT ![e] = execution'[e]]
      BY <3>1, <3>2
    <3>5. Holds(i, e)
      BY <1>4 DEF ReconcileSettlement
    <3> QED
      BY <2>1, <2>3, <3>3, <3>4, <3>5, InputTypes DEF ReleaseSettled, MoneyStep
  <2> QED
    BY <1>4, <2>2, <2>3 DEF ReconcileSettlement
<1>5. ASSUME NEW k \in RequestKeys, NEW i \in Intents, NEW e \in Executions,
             SettlementNext(k, i, e)
      PROVE  \/ UNCHANGED <<intent, journals>>
             \/ \E t \in CapitalTransitions : MoneyStep(i, t)
  BY <1>4, <1>5
  DEF SettlementNext, PrepareSettlement, SubmitSettlement, SetSettlementUnknown
<1>6. ASSUME NEW k \in RequestKeys, NEW i \in Intents,
             \/ CreateIntent(k, i)
             \/ \E input \in EvidenceInputs : AddEvidence(k, i, input)
             \/ \E input \in ApprovalInputs : AddApproval(k, i, input)
      PROVE  UNCHANGED <<intent, journals>>
  BY <1>6 DEF CreateIntent, AddEvidence, AddApproval
<1>7. ASSUME NEW k \in Keys, NEW request \in Requests, ReplayRequest(k, request)
      PROVE  UNCHANGED <<intent, journals>>
  BY <1>7 DEF ReplayRequest, aggregates
<1> QED
  BY <1>1, <1>2, <1>3, <1>5, <1>6, <1>7 DEF Next

\* Whatever requests arrive, the accounting chain holds and the checks of the
\* switch are enough to keep it: the final assertion never throws.
THEOREM AccountingSafe == Spec => []AccountingChain
<1> DEFINE Chain == \A i \in Intents : AssertAccounting(intent[i].amounts)
<1>1. Init => Chain
  <2>1. Upstream \in [BoundedStages -> Stages]
    BY DEF Upstream, BoundedStages, Stages
  <2> QED
    BY <2>1 DEF Init, NewIntent, AssertAccounting, BoundedStages
<1>2. TypeOK /\ Chain /\ [Next]_vars => Chain'
  <2> SUFFICES ASSUME TypeOK, Chain, [Next]_vars
               PROVE  Chain'
    OBVIOUS
  <2>1. CASE UNCHANGED <<intent, journals>>
    BY <2>1
  <2>2. ASSUME NEW i \in Intents, NEW t \in CapitalTransitions, MoneyStep(i, t)
        PROVE  Chain'
    <3>1. intent[i] \in CapitalIntents
      BY DEF TypeOK, AggregatesOK
    <3>2. AssertAccounting(Apply(intent[i], t).amounts)
      BY <2>2, <3>1, SwitchKeepsAccounting DEF MoneyStep, CanApply
    <3> QED
      BY <2>2, <3>2 DEF MoneyStep, TypeOK, AggregatesOK
  <2> QED
    BY <2>1, <2>2, StepOfMoney
<1>3. TypeOK /\ Chain => AccountingChain
  BY InputTypes, SwitchKeepsAccounting DEF TypeOK, AggregatesOK, AccountingChain
<1> QED
  BY <1>1, <1>2, <1>3, TypeCorrect, PTL DEF Spec

\* The label of every intent is true of its amounts.  It is inductive together
\* with the accounting chain and the fact that a journal is preceded by a release.
JournalsFollowReleases ==
  \A i \in Intents : journals[i] # <<>> => intent[i].amounts["released"] > 0

THEOREM LabelsSafe == Spec => []LabelsTellTheTruth
<1> DEFINE IInv == LabelsTellTheTruth /\ JournalsFollowReleases
<1>1. Init => IInv
  BY DEF Init, NewIntent, LabelsTellTheTruth, JournalsFollowReleases, LabelOf, AmountMoves
<1>2. TypeOK /\ IInv /\ [Next]_vars => IInv'
  <2> SUFFICES ASSUME TypeOK, IInv, [Next]_vars
               PROVE  IInv'
    OBVIOUS
  <2>1. CASE UNCHANGED <<intent, journals>>
    BY <2>1 DEF LabelsTellTheTruth, JournalsFollowReleases
  <2>2. ASSUME NEW i \in Intents, NEW t \in CapitalTransitions, MoneyStep(i, t)
        PROVE  IInv'
    <3> DEFINE x == intent[i]
               y == Apply(x, t)
    <3>1. /\ x \in CapitalIntents /\ x.amounts \in [Stages -> Nat]
          /\ t.type \in TransitionTypes /\ t.amount \in Nat
          /\ x.state \in CapitalStates
      BY DEF TypeOK, AggregatesOK, CapitalIntents, CapitalTransitions
    <3>2. /\ intent'[i] = y
          /\ \A j \in Intents : j # i => intent'[j] = intent[j] /\ journals'[j] = journals[j]
      BY <2>2 DEF MoneyStep, TypeOK, AggregatesOK
    <3>3. ~Refused(x, t)
      BY <2>2 DEF MoneyStep, CanApply
    <3>4. \A s \in Stages : y.amounts[s] \in Nat /\ y.amounts[s] >= x.amounts[s]
      BY <3>1, GrowingTotals
    <3>5. \A move \in AmountMoves : StageOf[move] \in Stages
      BY DEF AmountMoves, StageOf, Stages
    <3>6. ASSUME NEW move \in AmountMoves, y.state = LabelOf[move]
          PROVE  y.amounts[StageOf[move]] > 0
      <4>1. CASE t.type = "OTHER"
        BY <3>1, <3>4, <3>5, <3>6, <4>1 DEF Apply, LabelsTellTheTruth
      <4>2. CASE t.type # "OTHER"
        <5>1. LabelOf[t.type] = LabelOf[move]
          BY <3>6, <4>2 DEF Apply
        <5>2. t.type = move
          BY <3>1, <4>2, <5>1 DEF LabelOf, AmountMoves, TransitionTypes
        <5>3. t.amount > 0
          BY <3>1, <3>3, <5>2 DEF Refused, NotPositive
        <5>4. y.amounts[StageOf[move]] = x.amounts[StageOf[move]] + t.amount
          BY <3>1, <3>5, <5>2 DEF Apply
        <5> QED
          BY <3>1, <3>5, <5>3, <5>4
      <4> QED
        BY <4>1, <4>2
    <3>7. ASSUME y.state = "RELEASE_READY"
          PROVE  y.amounts["escrowed"] > y.amounts["released"]
      <4>1. t.type \notin AmountMoves
        BY <3>1, <3>7 DEF Apply, LabelOf, AmountMoves
      <4>2. y.amounts = x.amounts
        BY <4>1 DEF Apply
      <4>3. t.type \in {"OTHER", "MARK_RELEASE_READY"}
        BY <3>1, <3>7 DEF Apply, LabelOf, AmountMoves, TransitionTypes
      <4>4. CASE t.type = "OTHER"
        BY <3>7, <4>2, <4>4 DEF Apply, LabelsTellTheTruth
      <4>5. CASE t.type = "MARK_RELEASE_READY"
        BY <3>1, <3>3, <4>2, <4>5 DEF Refused, NothingToRelease, Stages
      <4> QED
        BY <4>3, <4>4, <4>5
    <3>8. journals'[i] # <<>> => y.amounts["released"] > 0
      <4>1. CASE UNCHANGED journals
        <5>1. journals'[i] # <<>> => x.amounts["released"] > 0
          BY <4>1 DEF JournalsFollowReleases
        <5>2. "released" \in Stages
          BY DEF Stages
        <5> QED
          BY <3>1, <3>4, <5>1, <5>2
      <4>2. CASE t.type = "RELEASE"
        <5>1. t.amount > 0
          BY <3>1, <3>3, <4>2 DEF Refused, NotPositive, AmountMoves
        <5>2. y.amounts["released"] = x.amounts["released"] + t.amount
          BY <3>1, <4>2 DEF AmountMoves, Apply, StageOf, Stages
        <5> QED
          BY <3>1, <5>1, <5>2 DEF Stages
      <4> QED
        BY <2>2, <4>1, <4>2 DEF MoneyStep, ReleaseOf
    <3>9. ASSUME y.state = "CANCELLED"
          PROVE  y.amounts["released"] = 0 /\ journals'[i] = <<>>
      <4>1. t.type = "CANCEL"
        BY <3>1, <3>3, <3>9 DEF Apply, LabelOf, AmountMoves, TransitionTypes, Refused, Closed
      <4>2. y.amounts["released"] = 0
        BY <3>1, <3>3, <4>1 DEF Apply, Refused, AlreadyPaidOut, Stages, AmountMoves
      <4> QED
        BY <3>8, <4>2
    <3>10. LabelsTellTheTruth'
      BY <3>2, <3>6, <3>7, <3>9 DEF LabelsTellTheTruth
    <3>11. JournalsFollowReleases'
      BY <3>2, <3>8 DEF JournalsFollowReleases
    <3> QED
      BY <3>10, <3>11
  <2> QED
    BY <2>1, <2>2, StepOfMoney
<1> QED
  BY <1>1, <1>2, TypeCorrect, PTL DEF Spec

----------------------------------------------------------------------------
(* Settlement.                                                             *)

\* What a step may do to one execution: nothing, prepare it, submit it once, or
\* change its state without touching what identifies the payment.
Identity(x) ==
  <<x.intentId, x.signature, x.expectedAmount, x.expectedDestination>>

ExecutionStep(x, y) ==
  \/ y = x
  \/ /\ x.state = "UNUSED"
     /\ y.state = "PREPARED" /\ y.signature = Null
  \/ /\ x.state = "PREPARED"
     /\ y.state = "SUBMITTED" /\ y.signature \in Signatures
  \/ /\ x.state \in {"SUBMITTED", "CONFIRMING"} \/ x.signature # Null
     /\ y.state \in {"EXECUTION_UNKNOWN", "CONFIRMING", "RECONCILED"}
     /\ Identity(y) = Identity(x)

LEMMA StepOfExecution ==
  ASSUME TypeOK, [Next]_vars, NEW e \in Executions
  PROVE  ExecutionStep(execution[e], execution'[e])
<1> DEFINE x == execution[e]
           y == execution'[e]
<1>1. x \in ExecutionRecords /\ execution \in [Executions -> ExecutionRecords]
  BY DEF TypeOK, AggregatesOK
<1>2. CASE UNCHANGED execution
  BY <1>2 DEF ExecutionStep
<1>3. ASSUME NEW k \in RequestKeys, NEW i \in Intents, NEW f \in Executions,
             SettlementNext(k, i, f)
      PROVE  ExecutionStep(x, y)
  <2>1. ASSUME NEW a \in Amounts, NEW d \in Destinations, PrepareSettlement(k, i, f, a, d)
        PROVE  ExecutionStep(x, y)
    <3>1. y = (IF e = f THEN CreateExecution(i, a, d) ELSE x) /\ execution[f].state = "UNUSED"
      BY <1>1, <2>1 DEF PrepareSettlement
    <3> QED
      BY <3>1 DEF ExecutionStep, CreateExecution
  <2>2. ASSUME NEW s \in Signatures, SubmitSettlement(k, i, f, s)
        PROVE  ExecutionStep(x, y)
    <3>1. y = (IF e = f THEN MarkSubmitted(x, s) ELSE x) /\ execution[f].state = "PREPARED"
      BY <1>1, <2>2 DEF SubmitSettlement, CanMarkSubmitted
    <3>2. MarkSubmitted(x, s).state = "SUBMITTED" /\ MarkSubmitted(x, s).signature = s
      BY <1>1 DEF MarkSubmitted, ExecutionRecords
    <3> QED
      BY <3>1, <3>2 DEF ExecutionStep
  <2>3. CASE SetSettlementUnknown(k, i, f)
    <3>1. /\ y = (IF e = f THEN MarkUnknown(x) ELSE x)
          /\ execution[f].state \in {"SUBMITTED", "CONFIRMING"}
      BY <1>1, <2>3 DEF SetSettlementUnknown, CanMarkUnknown
    <3>2. MarkUnknown(x).state = "EXECUTION_UNKNOWN" /\ Identity(MarkUnknown(x)) = Identity(x)
      BY <1>1 DEF MarkUnknown, ExecutionRecords, Identity
    <3> QED
      BY <3>1, <3>2 DEF ExecutionStep
  <2>4. ASSUME NEW o \in ObservationInputs, ReconcileSettlement(k, i, f, o)
        PROVE  ExecutionStep(x, y)
    <3>1. y = (IF e = f THEN ReconcileExecution(x, o) ELSE x) /\ execution[f].signature # Null
      BY <1>1, <2>4 DEF ReconcileSettlement, CanReconcile
    <3>2. /\ ReconcileExecution(x, o).state \in {"CONFIRMING", "RECONCILED"}
          /\ Identity(ReconcileExecution(x, o)) = Identity(x)
      BY <1>1 DEF ReconcileExecution, ExecutionRecords, Identity
    <3> QED
      BY <3>1, <3>2 DEF ExecutionStep
  <2> QED
    BY <1>3, <2>1, <2>2, <2>3, <2>4 DEF SettlementNext
<1> QED
  BY <1>2, <1>3
  DEF Next, vars, aggregates, CreateIntent, TransitionIntent, AddEvidence, AddApproval,
      PrepareRelease, ReplayRequest

\* An execution carries a signature exactly from its submission on.
SignedWhenSubmitted ==
  \A e \in Executions :
    execution[e].signature # Null <=> execution[e].state \notin {"UNUSED", "PREPARED"}

LEMMA SignedInvariant == Spec => []SignedWhenSubmitted
<1>1. Init => SignedWhenSubmitted
  BY DEF Init, NoExecution, SignedWhenSubmitted
<1>2. TypeOK /\ SignedWhenSubmitted /\ [Next]_vars => SignedWhenSubmitted'
  <2> SUFFICES ASSUME TypeOK, SignedWhenSubmitted, [Next]_vars, NEW e \in Executions
               PROVE  execution'[e].signature # Null
                      <=> execution'[e].state \notin {"UNUSED", "PREPARED"}
    BY DEF SignedWhenSubmitted
  <2> QED
    BY StepOfExecution, NullAssumption DEF ExecutionStep, Identity, SignedWhenSubmitted
<1> QED
  BY <1>1, <1>2, TypeCorrect, PTL DEF Spec

\* A submitted payment keeps its identity for ever and is never prepared or
\* submitted again, whatever the order of observations and unknown outcomes.
THEOREM SubmittedOnce == Spec => NeverResubmitted
<1> DEFINE Kept ==
      \A e \in Executions :
        execution[e].signature # Null =>
          /\ execution[e]'.intentId = execution[e].intentId
          /\ execution[e]'.signature = execution[e].signature
          /\ execution[e]'.expectedAmount = execution[e].expectedAmount
          /\ execution[e]'.expectedDestination = execution[e].expectedDestination
          /\ execution[e]'.state \in {"SUBMITTED", "PREPARED"}
               => execution[e]'.state = execution[e].state
<1>1. TypeOK /\ SignedWhenSubmitted /\ [Next]_vars => [Kept]_vars
  <2> SUFFICES ASSUME TypeOK, SignedWhenSubmitted, [Next]_vars, NEW e \in Executions,
                      execution[e].signature # Null
               PROVE  /\ Identity(execution'[e]) = Identity(execution[e])
                      /\ execution'[e].state \in {"SUBMITTED", "PREPARED"}
                           => execution'[e].state = execution[e].state
    BY DEF Identity
  <2> QED
    BY StepOfExecution DEF ExecutionStep, SignedWhenSubmitted
<1> QED
  BY <1>1, TypeCorrect, SignedInvariant, PTL DEF Spec, NeverResubmitted

\* Every journal stays traceable to the payment it records.
THEOREM JournalsTraceable == Spec => []JournalsBackedByExecutions
<1> DEFINE Backs(e, i, journal) ==
      /\ Holds(i, e)
      /\ execution[e].state \in {"RECONCILED", "CONFIRMING", "EXECUTION_UNKNOWN"}
      /\ journal = SettlementJournal(execution[e])
<1>1. Init => JournalsBackedByExecutions
  BY DEF Init, JournalsBackedByExecutions
<1>2. TypeOK /\ JournalsBackedByExecutions /\ [Next]_vars => JournalsBackedByExecutions'
  <2> SUFFICES ASSUME TypeOK, JournalsBackedByExecutions, [Next]_vars
               PROVE  JournalsBackedByExecutions'
    OBVIOUS
  <2>1. ASSUME NEW e \in Executions, NEW i \in Intents, NEW journal, Backs(e, i, journal)
        PROVE  Backs(e, i, journal)'
    BY <2>1, StepOfExecution DEF ExecutionStep, Holds, Identity, SettlementJournal
  <2>2. ASSUME NEW i \in Intents, NEW n \in DOMAIN journals[i],
               NEW journal, journal = journals[i][n]
        PROVE  \E e \in Executions : Backs(e, i, journal)'
    <3>1. PICK e \in Executions : Backs(e, i, journal)
      BY <2>2 DEF JournalsBackedByExecutions
    <3> QED
      BY <3>1, <2>1
  <2>3. CASE UNCHANGED journals
    <3> SUFFICES ASSUME NEW i \in Intents, NEW n \in DOMAIN journals'[i],
                        NEW journal, journal = journals'[i][n]
                 PROVE  \E e \in Executions : Backs(e, i, journal)'
      BY DEF JournalsBackedByExecutions
    <3> QED
      BY <2>2, <2>3
  <2>4. ASSUME NEW i \in Intents, NEW t \in CapitalTransitions, MoneyStep(i, t),
               ~UNCHANGED journals
        PROVE  JournalsBackedByExecutions'
    <3>1. PICK e \in Executions :
            /\ journals' = [journals EXCEPT ![i] = Append(@, SettlementJournal(execution[e]))]
            /\ execution'[e].state = "RECONCILED"
            /\ SettlementJournal(execution'[e]) = SettlementJournal(execution[e])
            /\ execution'[e].intentId = i
      BY <2>4 DEF MoneyStep
    <3> SUFFICES ASSUME NEW j \in Intents, NEW n \in DOMAIN journals'[j],
                        NEW journal, journal = journals'[j][n]
                 PROVE  \E x \in Executions : Backs(x, j, journal)'
      BY DEF JournalsBackedByExecutions
    <3>2. journals[j] \in Seq(JournalEntries)
      BY DEF TypeOK, AggregatesOK
    <3>3. CASE n \in DOMAIN journals[j] /\ journal = journals[j][n]
      BY <3>3, <2>2
    <3>4. CASE j = i /\ journal = SettlementJournal(execution[e])
      BY <3>1, <3>4 DEF Holds
    <3>5. CASE j = i
      <4>1. journals'[j] = Append(journals[j], SettlementJournal(execution[e]))
        BY <3>1, <3>5 DEF TypeOK, AggregatesOK
      <4>2. SettlementJournal(execution[e]) \in JournalEntries
        BY DEF TypeOK, AggregatesOK, ExecutionRecords, SettlementJournal, JournalEntries
      <4>3. /\ n \in 1..(Len(journals[j]) + 1)
            /\ n <= Len(journals[j]) => n \in DOMAIN journals[j] /\ journal = journals[j][n]
            /\ n = Len(journals[j]) + 1 => journal = SettlementJournal(execution[e])
        BY <4>1, <4>2, <3>2
      <4> QED
        BY <4>3, <3>2, <3>3, <3>4, <3>5
    <3>6. CASE j # i
      BY <3>1, <3>3, <3>6 DEF TypeOK, AggregatesOK
    <3> QED
      BY <3>5, <3>6
  <2> QED
    BY <2>3, <2>4, StepOfMoney
<1> QED
  BY <1>1, <1>2, TypeCorrect, PTL DEF Spec
----------------------------------------------------------------------------
(* The service implements the waterfall.                                   *)

AmountsOf == [i \in Intents |-> intent[i].amounts]
OpenOf == [i \in Intents |-> intent[i].state # "CANCELLED"]

\* One transition the domain accepts is one step of the waterfall, or none.
LEMMA MoneyStepIsWaterfall ==
  ASSUME TypeOK, NEW i \in Intents, NEW t \in CapitalTransitions, MoneyStep(i, t)
  PROVE  [Promise!WaterfallNext]_(Promise!waterfall)
<1> DEFINE x == intent[i]
           y == Apply(x, t)
<1>1. x \in CapitalIntents /\ y \in CapitalIntents
  BY ApplyType DEF TypeOK, AggregatesOK
<1>2. /\ intent'[i] = y
      /\ \A j \in Intents : j # i => intent'[j] = intent[j]
      /\ ~Refused(x, t)
  BY DEF MoneyStep, CanApply, TypeOK, AggregatesOK
<1>3. /\ AmountsOf' = [AmountsOf EXCEPT ![i] = y.amounts]
      /\ OpenOf' = [OpenOf EXCEPT ![i] = (y.state # "CANCELLED")]
  BY <1>2 DEF AmountsOf, OpenOf
<1>4. x.state # "CANCELLED"
  BY <1>2 DEF Refused, Closed
<1>5. CASE t.type \in AmountMoves
  <2> DEFINE s == StageOf[t.type]
  <2>1. s \in Stages /\ t.amount \in Nat /\ x.amounts \in [Stages -> Nat]
    BY <1>1, <1>5 DEF StageOf, AmountMoves, Stages, CapitalTransitions, CapitalIntents
  <2>2. t.amount > 0
    BY <1>2, <1>5, <2>1 DEF Refused, NotPositive
  <2>3. /\ y.amounts = [x.amounts EXCEPT ![s] = x.amounts[s] + t.amount]
        /\ y.state # "CANCELLED"
    BY <1>5 DEF Apply, AmountMoves, LabelOf
  <2>4. s # "raised" => x.amounts[s] + t.amount <= x.amounts[Upstream[s]]
    <3>1. ASSUME s # "raised"
          PROVE  /\ t.type # "RAISE"
                 /\ Upstream[s] \in Stages
      BY <3>1, <2>1 DEF StageOf, Upstream, Stages
    <3>2. t.type # "RAISE" => ~(x.amounts[s] + t.amount > x.amounts[Upstream[s]])
      BY <1>2, <1>5 DEF Refused, Overdraws
    <3> QED
      BY <2>1, <3>1, <3>2
  <2>5. /\ AmountsOf'[i][s] = x.amounts[s] + t.amount
        /\ AmountsOf[i] = x.amounts
        /\ AmountsOf' = [AmountsOf EXCEPT ![i][s] = x.amounts[s] + t.amount]
    BY <1>3, <2>1, <2>3 DEF AmountsOf
  <2>6. OpenOf[i] /\ UNCHANGED OpenOf
    BY <1>2, <1>4, <2>3 DEF OpenOf
  <2>7. Promise!Grow(i, s)
    <3>1. /\ OpenOf[i]
          /\ AmountsOf'[i][s] > AmountsOf[i][s]
          /\ s # "raised" => AmountsOf'[i][s] <= AmountsOf[i][Upstream[s]]
          /\ AmountsOf' = [AmountsOf EXCEPT ![i][s] = AmountsOf'[i][s]]
          /\ OpenOf' = OpenOf
      BY <2>1, <2>2, <2>4, <2>5, <2>6
    <3> QED
      BY <3>1, Zenon DEF Promise!Grow, AmountsOf, OpenOf
  <2> QED
    BY <2>1, <2>7 DEF Promise!WaterfallNext
<1>6. CASE t.type \notin AmountMoves
  <2>1. y.amounts = x.amounts
    BY <1>6 DEF Apply
  <2>2. UNCHANGED AmountsOf
    BY <1>2, <2>1 DEF AmountsOf
  <2>3. CASE t.type = "CANCEL"
    <3>1. y.state = "CANCELLED"
      BY <2>3 DEF Apply, LabelOf
    <3>2. x.amounts["released"] = 0
      BY <1>1, <1>2, <2>3 DEF Refused, AlreadyPaidOut, CapitalIntents, Stages
    <3>3. Promise!Cancel(i)
      BY <1>3, <1>4, <2>2, <3>1, <3>2 DEF Promise!Cancel, AmountsOf, OpenOf
    <3> QED
      BY <3>3 DEF Promise!WaterfallNext
  <2>4. CASE t.type # "CANCEL"
    <3>1. y.state # "CANCELLED"
      BY <1>4, <1>6, <2>4 DEF Apply, LabelOf, CapitalTransitions, TransitionTypes
    <3>2. UNCHANGED OpenOf
      BY <1>2, <1>4, <3>1 DEF OpenOf
    <3> QED
      BY <2>2, <3>2 DEF Promise!waterfall, AmountsOf, OpenOf
  <2> QED
    BY <2>3, <2>4
<1> QED
  BY <1>5, <1>6

\* Whatever clients send, the money of every intent follows the waterfall of
\* CapitalWaterfall: totals only grow, within the stage before, and a
\* cancelled intent never moves again.
THEOREM WaterfallImplemented == Spec => ImplementsWaterfall
<1>1. Init => Promise!WaterfallInit
  <2> SUFFICES ASSUME Init
               PROVE  /\ AmountsOf = [i \in Intents |-> [s \in Stages |-> 0]]
                      /\ OpenOf = [i \in Intents |-> TRUE]
    BY DEF Promise!WaterfallInit, AmountsOf, OpenOf
  <2>1. \A i \in Intents : /\ intent[i].amounts = [s \in Stages |-> 0]
                           /\ intent[i].state # "CANCELLED"
    BY DEF Init, NewIntent
  <2> QED
    BY <2>1 DEF AmountsOf, OpenOf
<1>2. TypeOK /\ [Next]_vars => [Promise!WaterfallNext]_(Promise!waterfall)
  <2> SUFFICES ASSUME TypeOK, [Next]_vars
               PROVE  [Promise!WaterfallNext]_(Promise!waterfall)
    OBVIOUS
  <2>1. CASE UNCHANGED <<intent, journals>>
    BY <2>1 DEF Promise!waterfall
  <2> QED
    BY <2>1, StepOfMoney, MoneyStepIsWaterfall
<1> QED
  BY <1>1, <1>2, TypeCorrect, PTL DEF Spec, ImplementsWaterfall, Promise!Waterfall
----------------------------------------------------------------------------
(* The registry of keys.                                                   *)

\* A handler stores the answer to a request under a key without an entry.
Stores(request, response) ==
  \E k \in RequestKeys : Unseen(k) /\ Remember(k, request, response)

\* A step leaves the registry alone, makes an entry under a key that has
\* none, or repeats the answer of an entry.
LEMMA StepOfRegistry ==
  ASSUME TypeOK, TypeOK', [Next]_vars
  PROVE  \/ UNCHANGED <<entries, answers>>
         \/ \E request \in Requests, response \in Snapshots : Stores(request, response)
         \/ \E k \in Keys, request \in Requests : Replay(k, request)
<1> DEFINE Stored == \E request \in Requests, response \in Snapshots :
                       Stores(request, response)
<1>1. \A i \in Intents : Snapshot(i)' \in Snapshots
  BY SnapshotType DEF TypeOK
<1>2. CASE UNCHANGED vars
  BY <1>2 DEF vars
<1>3. ASSUME NEW k \in RequestKeys, NEW i \in Intents, CreateIntent(k, i)
      PROVE  Stored
  <2>1. [op |-> "create"] \in Requests
    BY DEF Requests
  <2> QED
    BY <1>1, <1>3, <2>1 DEF CreateIntent, Stores
<1>4. ASSUME NEW k \in RequestKeys, NEW i \in Intents, NEW t \in Transitions,
             TransitionIntent(k, i, t)
      PROVE  Stored
  <2>1. [op |-> "transition", id |-> i, transition |-> t] \in Requests
    BY DEF Requests
  <2> QED
    BY <1>1, <1>4, <2>1 DEF TransitionIntent, Accepts, Stores
<1>5. ASSUME NEW k \in RequestKeys, NEW i \in Intents, NEW input \in EvidenceInputs,
             AddEvidence(k, i, input)
      PROVE  Stored
  <2>1. [op |-> "evidence", id |-> i, input |-> input] \in Requests
    BY DEF Requests
  <2> QED
    BY <1>1, <1>5, <2>1 DEF AddEvidence, Accepts, Stores
<1>6. ASSUME NEW k \in RequestKeys, NEW i \in Intents, NEW input \in ApprovalInputs,
             AddApproval(k, i, input)
      PROVE  Stored
  <2>1. [op |-> "approval", id |-> i, input |-> input] \in Requests
    BY DEF Requests
  <2> QED
    BY <1>1, <1>6, <2>1 DEF AddApproval, Accepts, Stores
<1>7. ASSUME NEW k \in RequestKeys, NEW i \in Intents, NEW review \in ReviewInputs,
             PrepareRelease(k, i, review)
      PROVE  Stored
  <2>1. [op |-> "release", id |-> i, review |-> review] \in Requests
    BY DEF Requests
  <2> QED
    BY <1>1, <1>7, <2>1 DEF PrepareRelease, Accepts, Stores
<1>8. ASSUME NEW k \in RequestKeys, NEW i \in Intents, NEW e \in Executions,
             SettlementNext(k, i, e)
      PROVE  Stored \/ UNCHANGED <<entries, answers>>
  <2>1. ASSUME NEW a \in Amounts, NEW d \in Destinations, PrepareSettlement(k, i, e, a, d)
        PROVE  Stored
    <3>1. [op |-> "prepare", id |-> i, amount |-> a, destination |-> d] \in Requests
      BY DEF Requests
    <3> QED
      BY <1>1, <2>1, <3>1 DEF PrepareSettlement, Accepts, Stores
  <2>2. ASSUME NEW s \in Signatures, SubmitSettlement(k, i, e, s)
        PROVE  Stored
    <3>1. [op |-> "submit", id |-> i, execution |-> e, signature |-> s] \in Requests
      BY DEF Requests
    <3> QED
      BY <1>1, <2>2, <3>1 DEF SubmitSettlement, Accepts, Stores
  <2>3. CASE SetSettlementUnknown(k, i, e)
    <3>1. [op |-> "unknown", id |-> i, execution |-> e] \in Requests
      BY DEF Requests
    <3> QED
      BY <1>1, <2>3, <3>1 DEF SetSettlementUnknown, Accepts, Stores
  <2>4. ASSUME NEW o \in ObservationInputs, ReconcileSettlement(k, i, e, o)
        PROVE  Stored \/ UNCHANGED <<entries, answers>>
    <3>1. ReconcileRequest(i, e, o) \in Requests
      BY DEF Requests, ReconcileRequest
    <3> QED
      BY <1>1, <2>4, <3>1
      DEF ReconcileSettlement, Confirming, ReleaseSettled, ReleaseThrows, Accepts, Stores
  <2> QED
    BY <1>8, <2>1, <2>2, <2>3, <2>4 DEF SettlementNext
<1>9. ASSUME NEW k \in Keys, NEW request \in Requests, ReplayRequest(k, request)
      PROVE  \E q \in Keys, r \in Requests : Replay(q, r)
  BY <1>9 DEF ReplayRequest
<1> QED
  BY <1>2, <1>3, <1>4, <1>5, <1>6, <1>7, <1>8, <1>9 DEF Next

\* Every answer sent is the answer of its key's entry.
AnswersOfEntries ==
  \A a \in answers :
    /\ a.key \in Keys
    /\ entries[a.key] # NoEntry
    /\ a = [key |-> a.key, request |-> entries[a.key].request,
            response |-> entries[a.key].response]

LEMMA AnswersInvariant == Spec => []AnswersOfEntries
<1>1. Init => AnswersOfEntries
  BY DEF Init, RegistryInit, AnswersOfEntries
<1>2. TypeOK /\ TypeOK' /\ AnswersOfEntries /\ [Next]_vars => AnswersOfEntries'
  <2> SUFFICES ASSUME TypeOK, TypeOK', AnswersOfEntries, [Next]_vars
               PROVE  AnswersOfEntries'
    OBVIOUS
  <2>1. CASE UNCHANGED <<entries, answers>>
    BY <2>1 DEF AnswersOfEntries
  <2>2. ASSUME NEW request \in Requests, NEW response \in Snapshots,
               Stores(request, response)
        PROVE  AnswersOfEntries'
    <3> DEFINE entry == [request |-> request, response |-> response]
    <3>1. entry # NoEntry
      BY NoEntryAssumption DEF RegistryEntries
    <3>2. PICK k \in RequestKeys : Unseen(k) /\ Remember(k, request, response)
      BY <2>2 DEF Stores
    <3>3. CASE k = OnceKey
      BY <2>1, <3>2, <3>3 DEF Remember
    <3>4. CASE k # OnceKey
      <4>1. /\ k \in Keys
            /\ entries[k] = NoEntry
            /\ entries' = [entries EXCEPT ![k] = entry]
            /\ answers' = answers \cup
                 {[key |-> k, request |-> request, response |-> response]}
        BY <3>2, <3>4 DEF RequestKeys, Unseen, Remember
      <4>2. /\ entries'[k] = entry
            /\ \A q \in Keys : q # k => entries'[q] = entries[q]
        BY <4>1 DEF TypeOK, RegistryOK
      <4>3. \A a \in answers : a.key # k
        BY <4>1 DEF AnswersOfEntries
      <4> QED
        BY <3>1, <4>1, <4>2, <4>3 DEF AnswersOfEntries
    <3> QED
      BY <3>3, <3>4
  <2>3. ASSUME NEW k \in Keys, NEW request \in Requests, Replay(k, request)
        PROVE  AnswersOfEntries'
    BY <2>3 DEF Replay, AnswersOfEntries
  <2> QED
    BY <2>1, <2>2, <2>3, StepOfRegistry
<1> QED
  BY <1>1, <1>2, TypeCorrect, PTL DEF Spec

\* All the answers under one key are the same answer to the same request,
\* for every number of keys, clients and retries.
THEOREM OneAnswer == Spec => []OneAnswerPerKey
<1>1. AnswersOfEntries => OneAnswerPerKey
  BY DEF AnswersOfEntries, OneAnswerPerKey
<1> QED
  BY <1>1, AnswersInvariant, PTL
============================================================================
