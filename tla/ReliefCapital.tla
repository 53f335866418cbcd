--------------------------- MODULE ReliefCapital ---------------------------
(***************************************************************************)
(* The capital service, services/relief-capital.ts, behind the routes of   *)
(* api/v1/capital.ts.                                                      *)
(*                                                                         *)
(* The service keeps one aggregate per intent in a Map and one registry of *)
(* idempotency keys.  Every handler is synchronous, so a request is one    *)
(* step of the server and requests reach it in any order: a client that    *)
(* loses a reply and retries, a duplicated or a delayed call are all       *)
(* further requests.  A handler that throws leaves no trace, except        *)
(* reconcileSettlement, which writes the execution before the release that *)
(* may throw.  Refused requests are therefore not actions here, and that   *)
(* partial failure is.                                                     *)
(***************************************************************************)
EXTENDS ReleasePolicy, Reconciliation, IdempotencyRegistry, Sequences

CONSTANTS
  Executions,        \* what randomUUID() may name an execution
  Transitions,       \* the inputs clients send, per route
  EvidenceInputs,
  ApprovalInputs,
  ReviewInputs,
  Amounts,
  Production,        \* NODE_ENV or POWERCHAIN_ENV is "production"
  MutationStore,     \* RELIEF_MUTATION_STORE
  MaxReceipts        \* bound: receipts of each kind an intent may collect

\* The two transitions a review and a reconciliation also make have a kind of
\* their own here, CAPITAL_TRANSITION stands for every other CAPITAL_<type>.
TransitionKinds == {"CAPITAL_TRANSITION", "CAPITAL_MARK_RELEASE_READY", "CAPITAL_RELEASE"}

ReceiptKinds == TransitionKinds \cup
                {"CAPITAL_INTENT_CREATED", "EVIDENCE_ADDED", "APPROVAL_RECORDED",
                 "RELEASE_REVIEW_PASSED", "SETTLEMENT_PREPARED",
                 "SETTLEMENT_SUBMITTED", "EXECUTION_UNKNOWN",
                 "SETTLEMENT_RECONCILED"}

ASSUME InputsAssumption ==
  /\ Transitions \subseteq CapitalTransitions
  /\ EvidenceInputs \subseteq EvidenceRecords
  /\ ApprovalInputs \subseteq ApprovalRecords
  /\ ReviewInputs \subseteq Reviews
  /\ Amounts \subseteq Nat

ASSUME EnvironmentAssumption ==
  /\ Production \in BOOLEAN
  /\ MutationStore \in {"durable", "disabled", "unset"}

ASSUME BoundAssumption == MaxReceipts \in [ReceiptKinds -> Nat]

VARIABLES
  store,       \* the identifiers in the Map
  intent,      \* the parts of each aggregate
  evidence,
  approvals,
  receipts,    \* how many receipts of each kind
  execution,
  journals

aggregates == <<store, intent, evidence, approvals, receipts, execution, journals>>

vars == <<aggregates, entries, answers>>

Init ==
  /\ store = {}
  /\ intent = [i \in Intents |-> NewIntent]
  /\ evidence = [i \in Intents |-> <<>>]
  /\ approvals = [i \in Intents |-> <<>>]
  /\ receipts = [i \in Intents |-> [kind \in ReceiptKinds |-> 0]]
  /\ execution = [e \in Executions |-> NoExecution]
  /\ journals = [i \in Intents |-> <<>>]
  /\ RegistryInit

----------------------------------------------------------------------------

\* assertMutationStore: no production configuration passes, because the
\* durable repository it asks for is not installed.
MutationsAllowed ==
  /\ IF Production THEN MutationStore = "durable" ELSE MutationStore # "disabled"
  /\ ~(Production /\ MutationStore = "durable")

\* The part common to every handler on an existing intent.
Accepts(k, i) ==
  /\ MutationsAllowed
  /\ Unseen(k)
  /\ i \in store

\* findIndex over the executions of the intent.
Holds(i, e) == execution[e].intentId = i

AppendReceipt(i, kind) ==
  /\ receipts[i][kind] < MaxReceipts[kind]
  /\ receipts' = [receipts EXCEPT ![i][kind] = @ + 1]

\* What every handler answers with: a copy of the aggregate.
Snapshot(i) ==
  [intent     |-> intent[i],
   evidence   |-> evidence[i],
   approvals  |-> approvals[i],
   receipts   |-> receipts[i],
   executions |-> [e \in Executions |-> IF Holds(i, e) THEN execution[e] ELSE NoExecution],
   journals   |-> journals[i]]

----------------------------------------------------------------------------
(* The handlers.                                                           *)

\* Faulty variant (mutant): an identifier in use is written over.
CreateIntentOverwriting(k, i) ==
  /\ MutationsAllowed
  /\ Unseen(k)
  /\ store' = store \cup {i}
  /\ intent' = [intent EXCEPT ![i] = NewIntent]
  /\ receipts' = [receipts EXCEPT ![i] =
       [kind \in ReceiptKinds |-> IF kind = "CAPITAL_INTENT_CREATED" THEN 1 ELSE 0]]
  /\ UNCHANGED <<evidence, approvals, execution, journals>>
  /\ Remember(k, [op |-> "create"], Snapshot(i)')

CreateIntent(k, i) ==
  /\ MutationsAllowed
  /\ Unseen(k)
  /\ i \notin store
  /\ store' = store \cup {i}
  /\ AppendReceipt(i, "CAPITAL_INTENT_CREATED")
  /\ UNCHANGED <<intent, evidence, approvals, execution, journals>>
  /\ Remember(k, [op |-> "create"], Snapshot(i)')

\* The kind of the receipt of a transition that came by its own route.
TransitionReceipt(t) ==
  CASE t.type = "MARK_RELEASE_READY" -> "CAPITAL_MARK_RELEASE_READY"
    [] t.type = "RELEASE"            -> "CAPITAL_RELEASE"
    [] OTHER                         -> "CAPITAL_TRANSITION"

TransitionIntent(k, i, t) ==
  /\ Accepts(k, i)
  /\ CanApply(intent[i], t)
  /\ intent' = [intent EXCEPT ![i] = Apply(@, t)]
  /\ AppendReceipt(i, TransitionReceipt(t))
  /\ UNCHANGED <<store, evidence, approvals, execution, journals>>
  /\ Remember(k, [op |-> "transition", id |-> i, transition |-> t], Snapshot(i)')

AddEvidence(k, i, input) ==
  /\ Accepts(k, i)
  /\ input.verified => input.attested
  /\ evidence' = [evidence EXCEPT ![i] = Append(@, input)]
  /\ AppendReceipt(i, "EVIDENCE_ADDED")
  /\ UNCHANGED <<store, intent, approvals, execution, journals>>
  /\ Remember(k, [op |-> "evidence", id |-> i, input |-> input], Snapshot(i)')

\* Faulty variant (mutant): looks for a rejection instead of an approval.
AlreadyRejected(i, input) ==
  \E n \in DOMAIN approvals[i] :
    /\ approvals[i][n].approver = input.approver
    /\ approvals[i][n].role = input.role
    /\ ~approvals[i][n].approved

\* The approver already approved in this role; a later rejection by the same
\* approver does not take that back.
AlreadyApproved(i, input) ==
  \E n \in DOMAIN approvals[i] :
    /\ approvals[i][n].approver = input.approver
    /\ approvals[i][n].role = input.role
    /\ approvals[i][n].approved

\* Faulty variant (mutant): a record replaces the approver's earlier ones.
AddApprovalReplacing(k, i, input) ==
  /\ Accepts(k, i)
  /\ ~(AlreadyApproved(i, input) /\ input.approved)
  /\ approvals' = [approvals EXCEPT ![i] =
       Append(SelectSeq(@, LAMBDA a : a.approver # input.approver), input)]
  /\ AppendReceipt(i, "APPROVAL_RECORDED")
  /\ UNCHANGED <<store, intent, evidence, execution, journals>>
  /\ Remember(k, [op |-> "approval", id |-> i, input |-> input], Snapshot(i)')

AddApproval(k, i, input) ==
  /\ Accepts(k, i)
  /\ ~(AlreadyApproved(i, input) /\ input.approved)
  /\ approvals' = [approvals EXCEPT ![i] = Append(@, input)]
  /\ AppendReceipt(i, "APPROVAL_RECORDED")
  /\ UNCHANGED <<store, intent, evidence, execution, journals>>
  /\ Remember(k, [op |-> "approval", id |-> i, input |-> input], Snapshot(i)')

MarkReleaseReady == [type |-> "MARK_RELEASE_READY", amount |-> 0]

\* Faulty variant (mutant): the result of the review is not looked at.
PrepareReleaseUnreviewed(k, i, review) ==
  /\ Accepts(k, i)
  /\ CanApply(intent[i], MarkReleaseReady)
  /\ intent' = [intent EXCEPT ![i] = Apply(@, MarkReleaseReady)]
  /\ AppendReceipt(i, "RELEASE_REVIEW_PASSED")
  /\ UNCHANGED <<store, evidence, approvals, execution, journals>>
  /\ Remember(k, [op |-> "release", id |-> i, review |-> review], Snapshot(i)')

PrepareRelease(k, i, review) ==
  /\ Accepts(k, i)
  /\ Eligible(intent[i], evidence[i], approvals[i], review)
  /\ CanApply(intent[i], MarkReleaseReady)
  /\ intent' = [intent EXCEPT ![i] = Apply(@, MarkReleaseReady)]
  /\ AppendReceipt(i, "RELEASE_REVIEW_PASSED")
  /\ UNCHANGED <<store, evidence, approvals, execution, journals>>
  /\ Remember(k, [op |-> "release", id |-> i, review |-> review], Snapshot(i)')

\* Faulty variant (mutant): the amount is not compared with the escrow.
PrepareSettlementUncovered(k, i, e, amount, destination) ==
  /\ Accepts(k, i)
  /\ intent[i].state = "RELEASE_READY"
  /\ CanCreateExecution(amount)
  /\ execution[e].state = "UNUSED"
  /\ execution' = [execution EXCEPT ![e] = CreateExecution(i, amount, destination)]
  /\ AppendReceipt(i, "SETTLEMENT_PREPARED")
  /\ UNCHANGED <<store, intent, evidence, approvals, journals>>
  /\ Remember(k, [op |-> "prepare", id |-> i, amount |-> amount,
                  destination |-> destination], Snapshot(i)')

PrepareSettlement(k, i, e, amount, destination) ==
  /\ Accepts(k, i)
  /\ intent[i].state = "RELEASE_READY"
  /\ CanCreateExecution(amount)
  /\ intent[i].amounts["released"] + amount <= intent[i].amounts["escrowed"]
  /\ execution[e].state = "UNUSED"
  /\ execution' = [execution EXCEPT ![e] = CreateExecution(i, amount, destination)]
  /\ AppendReceipt(i, "SETTLEMENT_PREPARED")
  /\ UNCHANGED <<store, intent, evidence, approvals, journals>>
  /\ Remember(k, [op |-> "prepare", id |-> i, amount |-> amount,
                  destination |-> destination], Snapshot(i)')

SubmitSettlement(k, i, e, signature) ==
  /\ Accepts(k, i)
  /\ Holds(i, e)
  /\ CanMarkSubmitted(execution[e])
  /\ execution' = [execution EXCEPT ![e] = MarkSubmitted(@, signature)]
  /\ AppendReceipt(i, "SETTLEMENT_SUBMITTED")
  /\ UNCHANGED <<store, intent, evidence, approvals, journals>>
  /\ Remember(k, [op |-> "submit", id |-> i, execution |-> e,
                  signature |-> signature], Snapshot(i)')

SetSettlementUnknown(k, i, e) ==
  /\ Accepts(k, i)
  /\ Holds(i, e)
  /\ CanMarkUnknown(execution[e])
  /\ execution' = [execution EXCEPT ![e] = MarkUnknown(@)]
  /\ AppendReceipt(i, "EXECUTION_UNKNOWN")
  /\ UNCHANGED <<store, intent, evidence, approvals, journals>>
  /\ Remember(k, [op |-> "unknown", id |-> i, execution |-> e], Snapshot(i)')

----------------------------------------------------------------------------
(* reconcileSettlement: the execution is overwritten first; what follows   *)
(* depends on the observation and on whether the intent can take the       *)
(* release.                                                                *)

ReleaseOf(x) == [type |-> "RELEASE", amount |-> x.expectedAmount]

ReconcileRequest(i, e, o) ==
  [op |-> "reconcile", id |-> i, execution |-> e, observation |-> o]

\* Faulty variant (mutant): the receipt is written for every observation.
ConfirmingWithReceipt(k, i, e, o) ==
  /\ ~o.finalized
  /\ AppendReceipt(i, "SETTLEMENT_RECONCILED")
  /\ UNCHANGED <<intent, journals>>
  /\ Remember(k, ReconcileRequest(i, e, o), Snapshot(i)')

\* Not finalized: the execution is confirming, and no receipt is written.
Confirming(k, i, e, o) ==
  /\ ~o.finalized
  /\ UNCHANGED <<intent, receipts, journals>>
  /\ Remember(k, ReconcileRequest(i, e, o), Snapshot(i)')

\* Faulty variant (mutant): the released intent is not stored.
ReleaseForgotten(k, i, e, o) ==
  /\ o.finalized
  /\ CanApply(intent[i], ReleaseOf(execution[e]))
  /\ journals' = [journals EXCEPT ![i] = Append(@, SettlementJournal(execution[e]))]
  /\ AppendReceipt(i, "SETTLEMENT_RECONCILED")
  /\ UNCHANGED intent
  /\ Remember(k, ReconcileRequest(i, e, o), Snapshot(i)')

\* Finalized: release, journal, receipt.
ReleaseSettled(k, i, e, o) ==
  /\ o.finalized
  /\ CanApply(intent[i], ReleaseOf(execution[e]))
  /\ intent' = [intent EXCEPT ![i] = Apply(@, ReleaseOf(execution[e]))]
  /\ journals' = [journals EXCEPT ![i] = Append(@, SettlementJournal(execution[e]))]
  /\ AppendReceipt(i, "SETTLEMENT_RECONCILED")
  /\ Remember(k, ReconcileRequest(i, e, o), Snapshot(i)')

\* Finalized, but applyCapitalTransition throws: the execution stays
\* reconciled and nothing else happens, the key included.
ReleaseThrows(i, e, o) ==
  /\ o.finalized
  /\ ~CanApply(intent[i], ReleaseOf(execution[e]))
  /\ UNCHANGED <<intent, receipts, journals, entries, answers>>

ReconcileSettlement(k, i, e, o) ==
  /\ Accepts(k, i)
  /\ Holds(i, e)
  /\ CanReconcile(execution[e], o)
  /\ execution' = [execution EXCEPT ![e] = ReconcileExecution(@, o)]
  /\ UNCHANGED <<store, evidence, approvals>>
  /\ \/ Confirming(k, i, e, o)
     \/ ReleaseSettled(k, i, e, o)
     \/ ReleaseThrows(i, e, o)

----------------------------------------------------------------------------

\* Every request a client of this instance may send.
ObservationInputs == [signature : Signatures, finalized : BOOLEAN,
                      amount : Amounts, destination : Destinations]

Requests ==
       [op : {"create"}]
  \cup [op : {"transition"}, id : Intents, transition : Transitions]
  \cup [op : {"evidence"}, id : Intents, input : EvidenceInputs]
  \cup [op : {"approval"}, id : Intents, input : ApprovalInputs]
  \cup [op : {"release"}, id : Intents, review : ReviewInputs]
  \cup [op : {"prepare"}, id : Intents, amount : Amounts, destination : Destinations]
  \cup [op : {"submit"}, id : Intents, execution : Executions, signature : Signatures]
  \cup [op : {"unknown"}, id : Intents, execution : Executions]
  \cup [op : {"reconcile"}, id : Intents, execution : Executions,
        observation : ObservationInputs]

\* A request under a key that has an entry; the factory does not run.
ReplayRequest(k, request) ==
  /\ MutationsAllowed
  /\ Replay(k, request)
  /\ UNCHANGED aggregates

SettlementNext(k, i, e) ==
  \/ \E a \in Amounts, d \in Destinations : PrepareSettlement(k, i, e, a, d)
  \/ \E s \in Signatures : SubmitSettlement(k, i, e, s)
  \/ SetSettlementUnknown(k, i, e)
  \/ \E o \in ObservationInputs : ReconcileSettlement(k, i, e, o)

Next ==
  \/ \E k \in RequestKeys, i \in Intents :
       \/ CreateIntent(k, i)
       \/ \E t \in Transitions : TransitionIntent(k, i, t)
       \/ \E input \in EvidenceInputs : AddEvidence(k, i, input)
       \/ \E input \in ApprovalInputs : AddApproval(k, i, input)
       \/ \E review \in ReviewInputs : PrepareRelease(k, i, review)
       \/ \E e \in Executions : SettlementNext(k, i, e)
  \/ \E k \in Keys, request \in Requests : ReplayRequest(k, request)

Spec == Init /\ [][Next]_vars

----------------------------------------------------------------------------
(* Properties.                                                             *)

Snapshots ==
  [intent     : CapitalIntents,
   evidence   : Seq(EvidenceRecords),
   approvals  : Seq(ApprovalRecords),
   receipts   : [ReceiptKinds -> Nat],
   executions : [Executions -> ExecutionRecords],
   journals   : Seq(JournalEntries)]

RegistryEntries == [request : Requests, response : Snapshots]

ASSUME NoEntryAssumption == NoEntry \notin RegistryEntries

AggregatesOK ==
  /\ store \subseteq Intents
  /\ intent \in [Intents -> CapitalIntents]
  /\ evidence \in [Intents -> Seq(EvidenceRecords)]
  /\ approvals \in [Intents -> Seq(ApprovalRecords)]
  /\ receipts \in [Intents -> [ReceiptKinds -> Nat]]
  /\ execution \in [Executions -> ExecutionRecords]
  /\ journals \in [Intents -> Seq(JournalEntries)]

RegistryOK == entries \in [Keys -> {NoEntry} \cup RegistryEntries]

\* The shape of the state: which values the aggregates and the registry hold.
TypeOK == AggregatesOK /\ RegistryOK

\* The accounting chain of README.md, and that the checks of the switch are
\* enough for it: the assertion applyCapitalTransition ends with never throws,
\* whatever order transitions, reviews and settlements come in.
AccountingChain ==
  \A i \in Intents :
    /\ AssertAccounting(intent[i].amounts)
    /\ \A t \in Transitions :
         ~Refused(intent[i], t) => AssertAccounting(Apply(intent[i], t).amounts)

\* The journals of an intent never credit the escrow with more than the intent
\* has released: a running balance exists that starts at 0, moves by one
\* journal at a time and stays within the released amount.  It ends at the
\* released amount unless the receipts show a release that no settlement made.
JournalsWithinReleased ==
  \A i \in Intents :
    LET released == intent[i].amounts["released"]
        last == Len(journals[i])
    IN  \E balance \in [0..last -> 0..released] :
          /\ balance[0] = 0
          /\ \A n \in 1..last :
               balance[n] = balance[n-1] + journals[i][n].credit.amount
          /\ receipts[i]["CAPITAL_RELEASE"] = 0 => balance[last] = released

\* Every journal can be traced to a payment: an execution of the same intent
\* that carries its signature, amount and destination, also after later
\* observations of that execution.
JournalsBackedByExecutions ==
  \A i \in Intents : \A n \in DOMAIN journals[i] :
    \E e \in Executions :
      /\ Holds(i, e)
      /\ execution[e].state \in {"RECONCILED", "CONFIRMING", "EXECUTION_UNKNOWN"}
      /\ journals[i][n] = SettlementJournal(execution[e])

\* The label of an intent is true of its amounts: after a move its stage is not
\* empty, a ready intent has escrow left to release, a cancelled one was never
\* paid from nor journaled.
LabelsTellTheTruth ==
  \A i \in Intents :
    LET amounts == intent[i].amounts
        label == intent[i].state
    IN  /\ \A move \in AmountMoves : label = LabelOf[move] => amounts[StageOf[move]] > 0
        /\ label = "RELEASE_READY" => amounts["escrowed"] > amounts["released"]
        /\ label = "CANCELLED" => amounts["released"] = 0 /\ journals[i] = <<>>

\* The receipts account for the aggregate: every version of the intent, every
\* execution, signature, journal, piece of evidence and approval has exactly
\* one receipt, and so has the intent itself.
ReceiptsAccountForState ==
  \A i \in Intents :
    LET count == receipts[i]
        mine == {e \in Executions : Holds(i, e)}
    IN  /\ count["CAPITAL_INTENT_CREATED"] = (IF i \in store THEN 1 ELSE 0)
        /\ intent[i].version = 1 + count["CAPITAL_TRANSITION"]
                                 + count["CAPITAL_MARK_RELEASE_READY"]
                                 + count["CAPITAL_RELEASE"]
                                 + count["RELEASE_REVIEW_PASSED"]
                                 + count["SETTLEMENT_RECONCILED"]
        /\ count["SETTLEMENT_PREPARED"] = Cardinality(mine)
        /\ count["SETTLEMENT_SUBMITTED"]
             = Cardinality({e \in mine : execution[e].signature # Null})
        /\ count["SETTLEMENT_RECONCILED"] = Len(journals[i])
        /\ count["EVIDENCE_ADDED"] = Len(evidence[i])
        /\ count["APPROVAL_RECORDED"] = Len(approvals[i])

\* Once a payment was submitted nothing turns its record into another payment:
\* its signature, amount and destination stay, and it is never prepared or
\* submitted again, EXECUTION_UNKNOWN included.
NeverResubmitted ==
  [][\A e \in Executions :
       execution[e].signature # Null =>
         /\ execution[e]'.intentId = execution[e].intentId
         /\ execution[e]'.signature = execution[e].signature
         /\ execution[e]'.expectedAmount = execution[e].expectedAmount
         /\ execution[e]'.expectedDestination = execution[e].expectedDestination
         /\ execution[e]'.state \in {"SUBMITTED", "PREPARED"}
              => execution[e]'.state = execution[e].state]_vars

\* One approver counts once per role towards a release, under whatever keys
\* and in whatever order the approvals and rejections arrive.
OneApprovalPerRole ==
  \A i \in Intents : \A m, n \in DOMAIN approvals[i] :
    LET a == approvals[i][m]
        b == approvals[i][n]
    IN  /\ a.approved /\ b.approved
        /\ a.approver = b.approver /\ a.role = b.role
        => m = n

\* A review that passed cannot be invalidated by another request before the
\* release it was made for: evidence and approvals are only added to, so what
\* passed still passes as long as no money left the escrow.
PassedReviewsStayPassed ==
  [][\A i \in Intents, review \in ReviewInputs :
       /\ Eligible(intent[i], evidence[i], approvals[i], review)
       /\ intent[i]'.amounts["released"] = intent[i].amounts["released"]
       => Eligible(intent[i]', evidence[i]', approvals[i]', review)]_vars

\* The part of a review that rests on what was recorded.
Backed(i, review) ==
  LET policy == review.policy
  IN  /\ Cardinality(Approved(approvals[i])) >= policy.minimumApprovals
      /\ policy.requiredRoles
           \subseteq {approvals[i][n].role : n \in Approved(approvals[i])}
      /\ policy.requireVerifiedEvidence
           => Cardinality(Verified(evidence[i])) >= policy.minimumVerifiedEvidence

\* Every release, of a settlement or by the transitions route, has used up a
\* readiness of its own, that came from a review or left the receipt of a mark
\* by hand.  While an intent has no such receipt, it is ready only as long as a
\* review of it would pass now, and money has left its escrow only with the
\* approvals and the evidence of a review on record.
ReleasesAreAudited ==
  \A i \in Intents :
    LET ready == intent[i].state = "RELEASE_READY"
        marked == receipts[i]["CAPITAL_MARK_RELEASE_READY"]
        permits == receipts[i]["RELEASE_REVIEW_PASSED"] + marked
        releases == Len(journals[i]) + receipts[i]["CAPITAL_RELEASE"]
    IN  /\ releases <= permits
        /\ ready => releases < permits
        /\ ready /\ marked = 0 =>
             \E review \in ReviewInputs :
               Eligible(intent[i], evidence[i], approvals[i], review)
        /\ intent[i].amounts["released"] > 0 /\ marked = 0 =>
             \E review \in ReviewInputs : Backed(i, review)

\* The check of a settlement's amount when it is prepared still holds when it is
\* reconciled, however much later, as long as nothing was released since: the
\* first finalized observation of a ready intent does not make the release throw.
FirstReleaseFits ==
  \A i \in Intents, e \in Executions :
    /\ Holds(i, e)
    /\ intent[i].state = "RELEASE_READY"
    /\ intent[i].amounts["released"] = 0
    => CanApply(intent[i], ReleaseOf(execution[e]))

\* All the replies a client gets under one key are replies to one request and
\* the same reply, so the operation ran at most once.
OneAnswerPerKey ==
  \A a, b \in answers : a.key = b.key => a = b

\* A reply, however late it is replayed, is a past of the aggregate: what it
\* shows was there and was only added to since.
AnswersArePast ==
  \A a \in answers : \E i \in store :
    /\ a.request.op # "create" => a.request.id = i
    /\ a.response.intent.version <= intent[i].version
    /\ \A kind \in ReceiptKinds : a.response.receipts[kind] <= receipts[i][kind]
    /\ \A n \in DOMAIN a.response.journals :
         n \in DOMAIN journals[i] /\ a.response.journals[n] = journals[i][n]

\* The abstract specification of the money, read off the aggregates.
Promise == INSTANCE CapitalWaterfall
             WITH First   <- "raised",
                  Before  <- Upstream,
                  Paid    <- "released",
                  amounts <- [i \in Intents |-> intent[i].amounts],
                  open    <- [i \in Intents |-> intent[i].state # "CANCELLED"]

\* Whatever clients send, the money of every intent follows the waterfall.
ImplementsWaterfall == Promise!Waterfall

----------------------------------------------------------------------------
(* What the documentation says of settlement and the code does not do.     *)

\* capital-domain.md, "Only after reconciliation does the capital engine
\* advance RELEASE_READY -> RELEASED": nothing is released without a journal.
ReleasedOnlyByReconciliation ==
  \A i \in Intents : intent[i].amounts["released"] > 0 => journals[i] # <<>>

\* ARCHITECTURE.md, "Reconcile, Ledger + receipt": an execution is RECONCILED
\* only together with the journal of its payment.
ReconciledHasJournal ==
  \A e \in Executions :
    execution[e].state = "RECONCILED" =>
      \E n \in DOMAIN journals[execution[e].intentId] :
        journals[execution[e].intentId][n] = SettlementJournal(execution[e])

\* api/README.md, "all state-changing capital operations are idempotent": one
\* payment, known by its signature, is released and journaled once.
OneJournalPerPayment ==
  \A i, j \in Intents : \A m \in DOMAIN journals[i], n \in DOMAIN journals[j] :
    journals[i][m].reference = journals[j][n].reference => i = j /\ m = n

\* OPERATIONS.md, "Operators must reconcile that signature before initiating
\* another payment": no settlement is prepared while one of the same intent
\* has an unknown outcome.
NoNewPaymentWhileUnknown ==
  [][\A e, x \in Executions :
       /\ execution[e].state = "UNUSED"
       /\ execution[e]'.state = "PREPARED"
       /\ execution[x].intentId = execution[e]'.intentId
       => execution[x].state # "EXECUTION_UNKNOWN"]_vars
============================================================================
