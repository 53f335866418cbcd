---------------------- MODULE CapitalRecords_proofs ------------------------
(***************************************************************************)
(* Proofs about what ReliefCapital records: approvals, reviews, receipts   *)
(* and the answers that are replayed.                                      *)
(***************************************************************************)
EXTENDS ReliefCapital_proofs, FiniteSetTheorems

----------------------------------------------------------------------------
(* Approvals and reviews. *)

\* Evidence and approvals of an intent only get longer, by one record at a time,
\* and an approval that is already there is not added again.
LEMMA StepOfRecords ==
  ASSUME TypeOK, [Next]_vars, NEW j \in Intents
  PROVE  /\ \/ evidence'[j] = evidence[j]
            \/ \E r \in EvidenceRecords : evidence'[j] = Append(evidence[j], r)
         /\ \/ approvals'[j] = approvals[j]
            \/ \E r \in ApprovalRecords :
                 /\ ~(AlreadyApproved(j, r) /\ r.approved)
                 /\ approvals'[j] = Append(approvals[j], r)
<1>1. CASE UNCHANGED <<evidence, approvals>>
  BY <1>1
<1>2. ASSUME NEW k \in RequestKeys, NEW i \in Intents, NEW r \in EvidenceInputs,
             AddEvidence(k, i, r)
      PROVE  /\ evidence'[j] = (IF j = i THEN Append(evidence[j], r) ELSE evidence[j])
             /\ r \in EvidenceRecords
             /\ UNCHANGED approvals
  BY <1>2, InputsAssumption DEF AddEvidence, TypeOK, AggregatesOK
<1>3. ASSUME NEW k \in RequestKeys, NEW i \in Intents, NEW r \in ApprovalInputs,
             AddApproval(k, i, r)
      PROVE  /\ approvals'[j] = (IF j = i THEN Append(approvals[j], r) ELSE approvals[j])
             /\ r \in ApprovalRecords
             /\ ~(AlreadyApproved(i, r) /\ r.approved)
             /\ UNCHANGED evidence
  BY <1>3, InputsAssumption DEF AddApproval, TypeOK, AggregatesOK
<1>4. ASSUME NEW k \in RequestKeys, NEW i \in Intents, NEW e \in Executions,
             SettlementNext(k, i, e)
      PROVE  UNCHANGED <<evidence, approvals>>
  BY <1>4
  DEF SettlementNext, PrepareSettlement, SubmitSettlement, SetSettlementUnknown,
      ReconcileSettlement
<1>5. ASSUME NEW k \in RequestKeys, NEW i \in Intents,
             \/ CreateIntent(k, i)
             \/ \E t \in Transitions : TransitionIntent(k, i, t)
             \/ \E review \in ReviewInputs : PrepareRelease(k, i, review)
      PROVE  UNCHANGED <<evidence, approvals>>
  BY <1>5 DEF CreateIntent, TransitionIntent, PrepareRelease
<1>6. ASSUME NEW k \in Keys, NEW request \in Requests, ReplayRequest(k, request)
      PROVE  UNCHANGED <<evidence, approvals>>
  BY <1>6 DEF ReplayRequest, aggregates
<1>7. CASE UNCHANGED vars
  BY <1>7 DEF vars, aggregates
<1> QED
  BY <1>1, <1>2, <1>3, <1>4, <1>5, <1>6, <1>7 DEF Next

\* An approver counts once per role, whatever approvals and rejections arrive
\* under whatever keys (addApproval).
THEOREM ApprovalsCountOnce == Spec => []OneApprovalPerRole
<1>1. Init => OneApprovalPerRole
  BY DEF Init, OneApprovalPerRole
<1>2. TypeOK /\ OneApprovalPerRole /\ [Next]_vars => OneApprovalPerRole'
  <2> SUFFICES ASSUME TypeOK, OneApprovalPerRole, [Next]_vars, NEW i \in Intents,
                      NEW m \in DOMAIN approvals'[i], NEW n \in DOMAIN approvals'[i],
                      approvals'[i][m].approved, approvals'[i][n].approved,
                      approvals'[i][m].approver = approvals'[i][n].approver,
                      approvals'[i][m].role = approvals'[i][n].role
               PROVE  m = n
    BY DEF OneApprovalPerRole
  <2>1. CASE approvals'[i] = approvals[i]
    BY <2>1 DEF OneApprovalPerRole
  <2>2. ASSUME NEW r \in ApprovalRecords, ~(AlreadyApproved(i, r) /\ r.approved),
               approvals'[i] = Append(approvals[i], r)
        PROVE  m = n
    <3> DEFINE seq == approvals[i]
               last == Len(seq) + 1
    <3>1. /\ seq \in Seq(ApprovalRecords)
          /\ DOMAIN seq = 1..Len(seq) /\ Len(seq) \in Nat
      BY DEF TypeOK, AggregatesOK
    <3>2. /\ DOMAIN approvals'[i] = 1..last
          /\ approvals'[i][last] = r
          /\ \A p \in DOMAIN seq : approvals'[i][p] = seq[p]
      BY <2>2, <3>1
    <3>3. m \in DOMAIN seq \/ m = last
      BY <3>1, <3>2
    <3>4. n \in DOMAIN seq \/ n = last
      BY <3>1, <3>2
    <3>5. CASE m \in DOMAIN seq /\ n \in DOMAIN seq
      BY <3>2, <3>5, Zenon DEF OneApprovalPerRole
    <3>6. CASE m \in DOMAIN seq /\ n = last
      BY <2>2, <3>2, <3>6, Zenon DEF AlreadyApproved
    <3>7. CASE m = last /\ n \in DOMAIN seq
      BY <2>2, <3>2, <3>7, Zenon DEF AlreadyApproved
    <3> QED
      BY <3>3, <3>4, <3>5, <3>6, <3>7
  <2> QED
    BY <2>1, <2>2, StepOfRecords
<1> QED
  BY <1>1, <1>2, TypeCorrect, PTL DEF Spec

\* What was recorded stays in its place, and a longer record counts for at least
\* as much.
LEMMA Longer ==
  ASSUME NEW S, NEW seq \in Seq(S), NEW r \in S
  PROVE  /\ DOMAIN seq \subseteq DOMAIN Append(seq, r)
         /\ \A n \in DOMAIN seq : Append(seq, r)[n] = seq[n]
         /\ IsFiniteSet(DOMAIN seq) /\ IsFiniteSet(DOMAIN Append(seq, r))
<1>1. Len(seq) \in Nat /\ DOMAIN seq = 1..Len(seq)
  OBVIOUS
<1>2. Append(seq, r) \in Seq(S) /\ DOMAIN Append(seq, r) = 1..Len(seq) + 1
  OBVIOUS
<1>3. IsFiniteSet(1..Len(seq)) /\ IsFiniteSet(1..Len(seq) + 1)
  BY <1>1, FS_Interval
<1>4. /\ DOMAIN seq \subseteq DOMAIN Append(seq, r)
      /\ \A n \in DOMAIN seq : Append(seq, r)[n] = seq[n]
  BY <1>1, <1>2
<1> QED
  BY <1>1, <1>2, <1>3, <1>4

LEMMA MoreApprovals ==
  ASSUME NEW seq \in Seq(ApprovalRecords), NEW r \in ApprovalRecords
  PROVE  LET longer == Append(seq, r)
         IN  /\ Cardinality(Approved(seq)) <= Cardinality(Approved(longer))
             /\ Cardinality(Approved(seq)) \in Nat /\ Cardinality(Approved(longer)) \in Nat
             /\ {seq[n].role : n \in Approved(seq)}
                  \subseteq {longer[n].role : n \in Approved(longer)}
<1> DEFINE longer == Append(seq, r)
<1>1. /\ DOMAIN seq \subseteq DOMAIN longer
      /\ \A n \in DOMAIN seq : longer[n] = seq[n]
      /\ IsFiniteSet(DOMAIN longer)
  BY Longer
<1>2. Approved(seq) \subseteq Approved(longer) /\ Approved(longer) \subseteq DOMAIN longer
  BY <1>1, Zenon DEF Approved
<1>3. IsFiniteSet(Approved(longer)) /\ IsFiniteSet(Approved(seq))
  BY <1>1, <1>2, FS_Subset
<1>4. /\ Cardinality(Approved(seq)) <= Cardinality(Approved(longer))
      /\ Cardinality(Approved(seq)) \in Nat /\ Cardinality(Approved(longer)) \in Nat
  BY <1>2, <1>3, FS_Subset, FS_CardinalityType
<1>5. \A n \in Approved(seq) : n \in Approved(longer) /\ longer[n] = seq[n]
  BY <1>1, <1>2 DEF Approved
<1> QED
  BY <1>4, <1>5

LEMMA MoreEvidence ==
  ASSUME NEW seq \in Seq(EvidenceRecords), NEW r \in EvidenceRecords
  PROVE  LET longer == Append(seq, r)
         IN  /\ Cardinality(Verified(seq)) <= Cardinality(Verified(longer))
             /\ Cardinality(Verified(seq)) \in Nat /\ Cardinality(Verified(longer)) \in Nat
<1> DEFINE longer == Append(seq, r)
<1>1. /\ DOMAIN seq \subseteq DOMAIN longer
      /\ \A n \in DOMAIN seq : longer[n] = seq[n]
      /\ IsFiniteSet(DOMAIN longer)
  BY Longer
<1>2. Verified(seq) \subseteq Verified(longer) /\ Verified(longer) \subseteq DOMAIN longer
  BY <1>1, Zenon DEF Verified
<1>3. IsFiniteSet(Verified(longer)) /\ IsFiniteSet(Verified(seq))
  BY <1>1, <1>2, FS_Subset
<1> QED
  BY <1>2, <1>3, FS_Subset, FS_CardinalityType

\* Escrow is never taken back.
LEMMA EscrowGrows ==
  ASSUME TypeOK, [Next]_vars, NEW i \in Intents
  PROVE  /\ intent[i] \in CapitalIntents
         /\ intent'[i].amounts["escrowed"] \in Nat
         /\ intent'[i].amounts["escrowed"] >= intent[i].amounts["escrowed"]
<1>1. intent \in [Intents -> CapitalIntents]
  BY DEF TypeOK, AggregatesOK
<1>2. "escrowed" \in Stages
  BY DEF Stages
<1>3. intent[i].amounts["escrowed"] \in Nat
  BY <1>1, <1>2 DEF CapitalIntents
<1>4. CASE UNCHANGED intent
  BY <1>1, <1>3, <1>4
<1>5. ASSUME NEW j \in Intents, NEW t \in CapitalTransitions, MoneyStep(j, t)
      PROVE  intent'[i] = (IF i = j THEN Apply(intent[i], t) ELSE intent[i])
  BY <1>1, <1>5 DEF MoneyStep
<1> QED
  BY <1>1, <1>2, <1>3, <1>4, <1>5, GrowingTotals, StepOfMoney

\* No request takes back what a review rests on.
LEMMA BackingLasts ==
  ASSUME TypeOK, [Next]_vars, NEW i \in Intents, NEW review \in ReviewInputs,
         Backed(i, review)
  PROVE  Backed(i, review)'
<1>1. /\ review.policy.minimumApprovals \in Nat
      /\ review.policy.minimumVerifiedEvidence \in Nat
  BY InputsAssumption DEF Reviews, Policies
<1>2. evidence[i] \in Seq(EvidenceRecords) /\ approvals[i] \in Seq(ApprovalRecords)
  BY DEF TypeOK, AggregatesOK
<1>3. /\ Cardinality(Approved(approvals'[i])) >= review.policy.minimumApprovals
      /\ review.policy.requiredRoles
           \subseteq {approvals'[i][n].role : n \in Approved(approvals'[i])}
  <2>1. /\ Cardinality(Approved(approvals[i])) >= review.policy.minimumApprovals
        /\ review.policy.requiredRoles
             \subseteq {approvals[i][n].role : n \in Approved(approvals[i])}
    BY DEF Backed
  <2>2. CASE approvals'[i] = approvals[i]
    BY <2>1, <2>2
  <2>3. ASSUME NEW r \in ApprovalRecords, approvals'[i] = Append(approvals[i], r)
        PROVE  /\ Cardinality(Approved(approvals'[i])) >= review.policy.minimumApprovals
               /\ review.policy.requiredRoles
                    \subseteq {approvals'[i][n].role : n \in Approved(approvals'[i])}
    <3> DEFINE longer == Append(approvals[i], r)
    <3>1. /\ Cardinality(Approved(approvals[i])) <= Cardinality(Approved(longer))
          /\ Cardinality(Approved(approvals[i])) \in Nat
          /\ Cardinality(Approved(longer)) \in Nat
          /\ {approvals[i][n].role : n \in Approved(approvals[i])}
               \subseteq {longer[n].role : n \in Approved(longer)}
      BY <1>2, MoreApprovals
    <3> HIDE DEF longer
    <3>2. Cardinality(Approved(longer)) >= review.policy.minimumApprovals
      BY <1>1, <2>1, <3>1
    <3>3. review.policy.requiredRoles \subseteq {longer[n].role : n \in Approved(longer)}
      BY <2>1, <3>1, Zenon
    <3> QED
      BY <2>3, <3>2, <3>3, Zenon DEF longer
  <2> QED
    BY <2>2, <2>3, StepOfRecords
<1>4. review.policy.requireVerifiedEvidence
        => Cardinality(Verified(evidence'[i])) >= review.policy.minimumVerifiedEvidence
  <2> SUFFICES ASSUME review.policy.requireVerifiedEvidence
               PROVE  Cardinality(Verified(evidence'[i]))
                        >= review.policy.minimumVerifiedEvidence
    OBVIOUS
  <2>1. Cardinality(Verified(evidence[i])) >= review.policy.minimumVerifiedEvidence
    BY Zenon DEF Backed
  <2>2. CASE evidence'[i] = evidence[i]
    BY <2>1, <2>2
  <2>3. ASSUME NEW r \in EvidenceRecords, evidence'[i] = Append(evidence[i], r)
        PROVE  Cardinality(Verified(evidence'[i])) >= review.policy.minimumVerifiedEvidence
    BY <1>1, <1>2, <2>1, <2>3, MoreEvidence
  <2> QED
    BY <2>2, <2>3, StepOfRecords
<1> QED
  BY <1>3, <1>4, Zenon DEF Backed

LEMMA EligibilityLasts ==
  ASSUME TypeOK, [Next]_vars, NEW i \in Intents, NEW review \in ReviewInputs,
         Eligible(intent[i], evidence[i], approvals[i], review),
         intent'[i].amounts["released"] = intent[i].amounts["released"]
  PROVE  Eligible(intent'[i], evidence'[i], approvals'[i], review)
<1>1. review.requested \in Nat
  BY InputsAssumption DEF Reviews
<1>2. UnreleasedEscrow(intent'[i]) >= review.requested
  <2>1. "released" \in Stages /\ "escrowed" \in Stages
    BY DEF Stages
  <2>2. intent[i].amounts["released"] \in Nat /\ intent[i].amounts["escrowed"] \in Nat
    BY <2>1, EscrowGrows DEF CapitalIntents
  <2>3. UnreleasedEscrow(intent[i]) >= review.requested
    BY DEF Eligible
  <2> QED
    BY <1>1, <2>2, <2>3, EscrowGrows DEF UnreleasedEscrow
<1>3. Backed(i, review)'
  BY BackingLasts, Zenon DEF Backed, Eligible
<1> QED
  BY <1>2, <1>3, Zenon DEF Backed, Eligible

\* A review that passed still passes after any other request, as long as no money
\* left the escrow (evaluateRelease over what the handlers keep).
THEOREM ReviewsLast == Spec => PassedReviewsStayPassed
<1> DEFINE Kept ==
      \A i \in Intents, review \in ReviewInputs :
        /\ Eligible(intent[i], evidence[i], approvals[i], review)
        /\ intent[i]'.amounts["released"] = intent[i].amounts["released"]
        => Eligible(intent[i]', evidence[i]', approvals[i]', review)
<1>1. TypeOK /\ [Next]_vars => [Kept]_vars
  BY EligibilityLasts
<1> QED
  BY <1>1, TypeCorrect, PTL DEF Spec, PassedReviewsStayPassed

\* What the records of an intent say of its releases.
Marked(i) == receipts[i]["CAPITAL_MARK_RELEASE_READY"]
Permits(i) == receipts[i]["RELEASE_REVIEW_PASSED"] + Marked(i)
Releases(i) == Len(journals[i]) + receipts[i]["CAPITAL_RELEASE"]
Ready(i) == intent[i].state = "RELEASE_READY"

Audited(i) ==
  /\ Releases(i) <= Permits(i)
  /\ Ready(i) => Releases(i) < Permits(i)
  /\ Ready(i) /\ Marked(i) = 0 =>
       \E review \in ReviewInputs : Eligible(intent[i], evidence[i], approvals[i], review)
  /\ intent[i].amounts["released"] > 0 /\ Marked(i) = 0 =>
       \E review \in ReviewInputs : Backed(i, review)

LEMMA AuditTypes ==
  ASSUME TypeOK, NEW i \in Intents
  PROVE  /\ Marked(i) \in Nat /\ Permits(i) \in Nat /\ Releases(i) \in Nat
         /\ Len(journals[i]) \in Nat
         /\ receipts[i]["RELEASE_REVIEW_PASSED"] \in Nat
         /\ receipts[i]["CAPITAL_RELEASE"] \in Nat
  BY DEF TypeOK, AggregatesOK, ReceiptKinds, TransitionKinds, Marked, Permits, Releases

\* What each of the receipts the audit counts becomes, when one is appended.
AuditKinds == {"RELEASE_REVIEW_PASSED", "CAPITAL_MARK_RELEASE_READY", "CAPITAL_RELEASE"}

LEMMA AuditReceipts ==
  ASSUME TypeOK, NEW i \in Intents, NEW j \in Intents, NEW kind \in ReceiptKinds,
         AppendReceipt(i, kind)
  PROVE  \A q \in AuditKinds :
           receipts'[j][q] = IF i = j /\ kind = q THEN receipts[j][q] + 1 ELSE receipts[j][q]
<1>1. receipts \in [Intents -> [ReceiptKinds -> Nat]] /\ AuditKinds \subseteq ReceiptKinds
  BY DEF TypeOK, AggregatesOK, AuditKinds, ReceiptKinds, TransitionKinds
<1> QED
  BY <1>1 DEF AppendReceipt

\* What a step does to one intent, as its audit sees it: nothing, a review, a
\* mark by hand, or another transition.
Untouched(j) ==
  /\ intent'[j] = intent[j] /\ journals'[j] = journals[j]
  /\ \A q \in AuditKinds : receipts'[j][q] = receipts[j][q]

ReviewedNow(j) ==
  /\ \E review \in ReviewInputs : Eligible(intent[j], evidence[j], approvals[j], review)
  /\ intent'[j] = Apply(intent[j], MarkReleaseReady)
  /\ UNCHANGED <<evidence, approvals>>
  /\ Marked(j)' = Marked(j)
  /\ Permits(j)' = Permits(j) + 1
  /\ Releases(j)' = Releases(j)

MarkedNow(j) ==
  /\ Marked(j)' = Marked(j) + 1
  /\ Permits(j)' = Permits(j) + 1
  /\ Releases(j)' = Releases(j)

MovedNow(j, t) ==
  /\ t.type # "MARK_RELEASE_READY"
  /\ ~Refused(intent[j], t)
  /\ intent'[j] = Apply(intent[j], t)
  /\ Marked(j)' = Marked(j)
  /\ Permits(j)' = Permits(j)
  /\ t.type = "RELEASE" => Releases(j)' = Releases(j) + 1
  /\ t.type # "RELEASE" => Releases(j)' = Releases(j)

LEMMA TransitionAudit ==
  ASSUME TypeOK, NEW j \in Intents, NEW k \in RequestKeys, NEW i \in Intents,
         NEW t \in Transitions, TransitionIntent(k, i, t)
  PROVE  Untouched(j) \/ MarkedNow(j) \/ MovedNow(j, t)
<1>1. /\ TransitionReceipt(t) \in ReceiptKinds /\ AppendReceipt(i, TransitionReceipt(t))
      /\ UNCHANGED journals
      /\ intent'[j] = IF i = j THEN Apply(intent[j], t) ELSE intent[j]
      /\ ~Refused(intent[i], t)
  BY DEF TransitionIntent, TransitionReceipt, TransitionKinds, ReceiptKinds, CanApply, TypeOK,
         AggregatesOK
<1>2. CASE j # i
  BY <1>1, <1>2, AuditReceipts DEF Untouched
<1>3. CASE j = i /\ t.type = "MARK_RELEASE_READY"
  <2>1. TransitionReceipt(t) = "CAPITAL_MARK_RELEASE_READY"
    BY <1>3 DEF TransitionReceipt
  <2>2. /\ receipts'[j]["CAPITAL_MARK_RELEASE_READY"]
             = receipts[j]["CAPITAL_MARK_RELEASE_READY"] + 1
        /\ receipts'[j]["RELEASE_REVIEW_PASSED"] = receipts[j]["RELEASE_REVIEW_PASSED"]
        /\ receipts'[j]["CAPITAL_RELEASE"] = receipts[j]["CAPITAL_RELEASE"]
    BY <1>1, <1>3, <2>1, AuditReceipts DEF AuditKinds
  <2> QED
    BY <1>1, <2>2, AuditTypes DEF MarkedNow, Marked, Permits, Releases
<1>4. CASE j = i /\ t.type = "RELEASE"
  <2>1. TransitionReceipt(t) = "CAPITAL_RELEASE"
    BY <1>4 DEF TransitionReceipt
  <2>2. /\ receipts'[j]["CAPITAL_RELEASE"] = receipts[j]["CAPITAL_RELEASE"] + 1
        /\ receipts'[j]["RELEASE_REVIEW_PASSED"] = receipts[j]["RELEASE_REVIEW_PASSED"]
        /\ receipts'[j]["CAPITAL_MARK_RELEASE_READY"]
             = receipts[j]["CAPITAL_MARK_RELEASE_READY"]
    BY <1>1, <1>4, <2>1, AuditReceipts DEF AuditKinds
  <2>3. Marked(j)' = Marked(j) /\ Permits(j)' = Permits(j) /\ Releases(j)' = Releases(j) + 1
    BY <1>1, <2>2, AuditTypes DEF Marked, Permits, Releases
  <2> QED
    BY <1>1, <1>4, <2>3 DEF MovedNow
<1>5. CASE j = i /\ t.type \notin {"MARK_RELEASE_READY", "RELEASE"}
  <2>1. TransitionReceipt(t) = "CAPITAL_TRANSITION"
    BY <1>5 DEF TransitionReceipt
  <2>2. \A q \in AuditKinds : receipts'[j][q] = receipts[j][q]
    BY <1>1, <2>1, AuditReceipts DEF AuditKinds
  <2> QED
    BY <1>1, <1>5, <2>2 DEF MovedNow, Marked, Permits, Releases, AuditKinds
<1> QED
  BY <1>2, <1>3, <1>4, <1>5

LEMMA ReviewAudit ==
  ASSUME TypeOK, NEW j \in Intents, NEW k \in RequestKeys, NEW i \in Intents,
         NEW review \in ReviewInputs, PrepareRelease(k, i, review)
  PROVE  Untouched(j) \/ ReviewedNow(j)
<1>1. /\ "RELEASE_REVIEW_PASSED" \in ReceiptKinds /\ AppendReceipt(i, "RELEASE_REVIEW_PASSED")
      /\ Eligible(intent[i], evidence[i], approvals[i], review)
      /\ UNCHANGED <<evidence, approvals, journals>>
      /\ intent'[j] = IF i = j THEN Apply(intent[j], MarkReleaseReady) ELSE intent[j]
  BY DEF PrepareRelease, ReceiptKinds, TypeOK, AggregatesOK
<1>2. CASE j # i
  BY <1>1, <1>2, AuditReceipts DEF Untouched
<1>3. CASE j = i
  <2>1. /\ receipts'[j]["RELEASE_REVIEW_PASSED"] = receipts[j]["RELEASE_REVIEW_PASSED"] + 1
        /\ receipts'[j]["CAPITAL_MARK_RELEASE_READY"]
             = receipts[j]["CAPITAL_MARK_RELEASE_READY"]
        /\ receipts'[j]["CAPITAL_RELEASE"] = receipts[j]["CAPITAL_RELEASE"]
    BY <1>1, <1>3, AuditReceipts DEF AuditKinds
  <2>2. Marked(j)' = Marked(j) /\ Permits(j)' = Permits(j) + 1 /\ Releases(j)' = Releases(j)
    BY <1>1, <2>1, AuditTypes DEF Marked, Permits, Releases
  <2> QED
    BY <1>1, <1>3, <2>2 DEF ReviewedNow
<1> QED
  BY <1>2, <1>3

LEMMA SettlementAudit ==
  ASSUME TypeOK, NEW j \in Intents, NEW k \in RequestKeys, NEW i \in Intents,
         NEW e \in Executions, SettlementNext(k, i, e)
  PROVE  \/ Untouched(j)
         \/ \E t \in CapitalTransitions : MovedNow(j, t)
<1>1. ASSUME NEW kind \in ReceiptKinds \ AuditKinds, AppendReceipt(i, kind)
      PROVE  \A q \in AuditKinds : receipts'[j][q] = receipts[j][q]
  BY <1>1, AuditReceipts
<1>2. {"SETTLEMENT_PREPARED", "SETTLEMENT_SUBMITTED", "EXECUTION_UNKNOWN",
       "SETTLEMENT_RECONCILED"} \subseteq ReceiptKinds \ AuditKinds
  BY DEF ReceiptKinds, AuditKinds
<1>3. ASSUME \/ \E a \in Amounts, d \in Destinations : PrepareSettlement(k, i, e, a, d)
             \/ \E s \in Signatures : SubmitSettlement(k, i, e, s)
             \/ SetSettlementUnknown(k, i, e)
      PROVE  Untouched(j)
  BY <1>1, <1>2, <1>3
  DEF PrepareSettlement, SubmitSettlement, SetSettlementUnknown, Untouched
<1>4. ASSUME NEW o \in ObservationInputs, Confirming(k, i, e, o) \/ ReleaseThrows(i, e, o)
      PROVE  Untouched(j)
  BY <1>4 DEF Confirming, ReleaseThrows, Untouched
<1>5. ASSUME NEW o \in ObservationInputs, ReleaseSettled(k, i, e, o)
      PROVE  \/ Untouched(j)
             \/ \E t \in CapitalTransitions : MovedNow(j, t)
  <2> DEFINE t == ReleaseOf(execution[e])
  <2>1. /\ \A q \in AuditKinds : receipts'[j][q] = receipts[j][q]
        /\ intent'[j] = IF i = j THEN Apply(intent[j], t) ELSE intent[j]
        /\ journals'[j] = IF i = j THEN Append(journals[j], SettlementJournal(execution[e]))
                                   ELSE journals[j]
        /\ ~Refused(intent[i], t)
    BY <1>1, <1>2, <1>5 DEF ReleaseSettled, CanApply, TypeOK, AggregatesOK
  <2>2. execution[e] \in ExecutionRecords
    BY DEF TypeOK, AggregatesOK
  <2>3. t \in CapitalTransitions /\ t.type = "RELEASE"
    BY <2>2, InputTypes DEF ReleaseOf
  <2>4. SettlementJournal(execution[e]) \in JournalEntries
    BY <2>2 DEF ExecutionRecords, SettlementJournal, JournalEntries
  <2>5. CASE j # i
    BY <2>1, <2>5 DEF Untouched
  <2>6. CASE j = i
    <3>1. Len(journals'[j]) = Len(journals[j]) + 1
      BY <2>1, <2>4, <2>6 DEF TypeOK, AggregatesOK
    <3>2. /\ receipts'[j]["RELEASE_REVIEW_PASSED"] = receipts[j]["RELEASE_REVIEW_PASSED"]
          /\ receipts'[j]["CAPITAL_MARK_RELEASE_READY"]
               = receipts[j]["CAPITAL_MARK_RELEASE_READY"]
          /\ receipts'[j]["CAPITAL_RELEASE"] = receipts[j]["CAPITAL_RELEASE"]
      BY <2>1 DEF AuditKinds
    <3>3. Marked(j)' = Marked(j) /\ Permits(j)' = Permits(j) /\ Releases(j)' = Releases(j) + 1
      BY <3>1, <3>2, AuditTypes DEF Marked, Permits, Releases
    <3> QED
      BY <2>1, <2>3, <2>6, <3>3 DEF MovedNow
  <2> QED
    BY <2>5, <2>6
<1> QED
  BY <1>3, <1>4, <1>5 DEF SettlementNext, ReconcileSettlement

LEMMA StepOfAudit ==
  ASSUME TypeOK, [Next]_vars, NEW j \in Intents
  PROVE  \/ Untouched(j)
         \/ ReviewedNow(j)
         \/ MarkedNow(j)
         \/ \E t \in CapitalTransitions : MovedNow(j, t)
<1>1. ASSUME NEW k \in RequestKeys, NEW i \in Intents,
             \/ CreateIntent(k, i)
             \/ \E input \in EvidenceInputs : AddEvidence(k, i, input)
             \/ \E input \in ApprovalInputs : AddApproval(k, i, input)
      PROVE  Untouched(j)
  <2>1. PICK kind \in ReceiptKinds \ AuditKinds : AppendReceipt(i, kind)
    BY <1>1 DEF CreateIntent, AddEvidence, AddApproval, ReceiptKinds, AuditKinds
  <2>2. UNCHANGED <<intent, journals>>
    BY <1>1 DEF CreateIntent, AddEvidence, AddApproval
  <2> QED
    BY <2>1, <2>2, AuditReceipts DEF Untouched
<1>2. ASSUME NEW k \in Keys, NEW request \in Requests, ReplayRequest(k, request)
      PROVE  Untouched(j)
  BY <1>2 DEF ReplayRequest, aggregates, Untouched
<1>3. CASE UNCHANGED vars
  BY <1>3 DEF vars, aggregates, Untouched
<1>4. \A t \in Transitions : t \in CapitalTransitions
  BY InputsAssumption
<1> QED
  BY <1>1, <1>2, <1>3, <1>4, TransitionAudit, ReviewAudit, SettlementAudit DEF Next

LEMMA AuditedStep ==
  ASSUME TypeOK, TypeOK', [Next]_vars, NEW i \in Intents, Audited(i)
  PROVE  Audited(i)'
<1>1. /\ Marked(i) \in Nat /\ Permits(i) \in Nat /\ Releases(i) \in Nat
      /\ intent[i] \in CapitalIntents /\ "released" \in Stages
  BY AuditTypes DEF TypeOK, AggregatesOK, Stages
<1>2. Releases(i) <= Permits(i) /\ (Ready(i) => Releases(i) < Permits(i))
  BY DEF Audited
<1>3. ASSUME intent'[i].amounts["released"] = intent[i].amounts["released"],
             Marked(i) = 0
      PROVE  /\ Ready(i) =>
                  \E review \in ReviewInputs :
                    Eligible(intent'[i], evidence'[i], approvals'[i], review)
             /\ intent'[i].amounts["released"] > 0 =>
                  \E review \in ReviewInputs : Backed(i, review)'
  BY <1>3, EligibilityLasts, BackingLasts DEF Audited
<1>4. CASE Untouched(i)
  <2>1. /\ Marked(i)' = Marked(i) /\ Permits(i)' = Permits(i) /\ Releases(i)' = Releases(i)
        /\ intent'[i] = intent[i] /\ Ready(i)' = Ready(i)
    BY <1>4 DEF Untouched, AuditKinds, Marked, Permits, Releases, Ready
  <2> QED
    BY <1>2, <1>3, <2>1 DEF Audited
<1>5. CASE ReviewedNow(i)
  <2>1. intent'[i].amounts = intent[i].amounts
    BY <1>5 DEF ReviewedNow, Apply, MarkReleaseReady, AmountMoves
  <2>2. \E review \in ReviewInputs :
          Eligible(intent'[i], evidence'[i], approvals'[i], review)
    BY <1>5, <2>1, EligibilityLasts DEF ReviewedNow
  <2>3. Releases(i)' < Permits(i)'
    BY <1>1, <1>2, <1>5 DEF ReviewedNow
  <2>4. Releases(i)' <= Permits(i)'
    BY <1>1, <1>2, <1>5 DEF ReviewedNow
  <2>5. Marked(i)' = Marked(i)
    BY <1>5 DEF ReviewedNow
  <2> QED
    BY <1>3, <2>1, <2>2, <2>3, <2>4, <2>5 DEF Audited
<1>6. CASE MarkedNow(i)
  <2>1. Releases(i)' < Permits(i)' /\ Releases(i)' <= Permits(i)' /\ Marked(i)' # 0
    BY <1>1, <1>2, <1>6 DEF MarkedNow
  <2> QED
    BY <2>1 DEF Audited
<1>7. ASSUME NEW t \in CapitalTransitions, MovedNow(i, t)
      PROVE  Audited(i)'
  <2>1. /\ ~Refused(intent[i], t) /\ intent'[i] = Apply(intent[i], t)
        /\ t.type # "MARK_RELEASE_READY" /\ t.type \in TransitionTypes
        /\ Marked(i)' = Marked(i) /\ Permits(i)' = Permits(i)
    BY <1>7 DEF MovedNow, CapitalTransitions
  <2>2. Ready(i)' => t.type = "OTHER" /\ Ready(i)
    BY <2>1 DEF Ready, Apply, LabelOf, TransitionTypes, AmountMoves
  <2>3. CASE t.type = "RELEASE"
    <3>1. Ready(i)
      BY <2>1, <2>3 DEF Ready, Refused, NotReady
    <3>2. ASSUME Marked(i) = 0 PROVE \E review \in ReviewInputs : Backed(i, review)'
      <4>1. PICK review \in ReviewInputs :
              Eligible(intent[i], evidence[i], approvals[i], review)
        BY <3>1, <3>2 DEF Audited
      <4>2. Backed(i, review)'
        BY <4>1, BackingLasts, Zenon DEF Backed, Eligible
      <4> QED
        BY <4>2
    <3>3. ~Ready(i)'
      BY <2>2, <2>3
    <3>4. Releases(i)' <= Permits(i)'
      BY <1>1, <1>2, <1>7, <2>3, <3>1 DEF MovedNow
    <3> QED
      BY <2>1, <3>2, <3>3, <3>4 DEF Audited
  <2>4. CASE t.type # "RELEASE"
    <3>1. intent'[i].amounts["released"] = intent[i].amounts["released"]
      <4>1. t.type \in AmountMoves => StageOf[t.type] # "released"
        BY <2>4 DEF AmountMoves, StageOf
      <4>2. intent[i].amounts \in [Stages -> Nat]
        BY <1>1 DEF CapitalIntents
      <4> QED
        BY <1>1, <2>1, <4>1, <4>2 DEF Apply
    <3>2. Releases(i)' = Releases(i)
      BY <1>7, <2>4 DEF MovedNow
    <3> QED
      BY <1>2, <1>3, <2>1, <2>2, <3>1, <3>2 DEF Audited
  <2> QED
    BY <2>3, <2>4
<1> QED
  BY <1>4, <1>5, <1>6, <1>7, StepOfAudit

\* Whatever clients send, MARK_RELEASE_READY and RELEASE by hand included, every
\* release used up a readiness whose review or mark is on record, and without a
\* mark on record no intent is ready and no money has left without the approvals
\* and evidence of a review (prepareRelease, transitionIntent,
\* reconcileSettlement, appendReceipt).
THEOREM AuditComplete == Spec => []ReleasesAreAudited
<1> DEFINE AllAudited == \A i \in Intents : Audited(i)
<1>1. Init => AllAudited
  <2> SUFFICES ASSUME Init, NEW i \in Intents PROVE Audited(i)
    OBVIOUS
  <2>1. Marked(i) = 0 /\ Permits(i) = 0 /\ Releases(i) = 0
    BY DEF Init, ReceiptKinds, TransitionKinds, Marked, Permits, Releases
  <2>2. ~Ready(i) /\ ~(intent[i].amounts["released"] > 0)
    BY DEF Init, NewIntent, Stages, Ready
  <2> QED
    BY <2>1, <2>2 DEF Audited
<1>2. TypeOK /\ TypeOK' /\ AllAudited /\ [Next]_vars => AllAudited'
  BY AuditedStep
<1>3. AllAudited => ReleasesAreAudited
  BY DEF Audited, Marked, Permits, Releases, Ready, ReleasesAreAudited
<1> QED
  BY <1>1, <1>2, <1>3, TypeCorrect, PTL DEF Spec

----------------------------------------------------------------------------
(* Payments. *)

\* Every execution asks for a positive amount that the escrow once covered, and
\* escrow is never taken back.
PaymentsFit ==
  \A i \in Intents, e \in Executions :
    Holds(i, e) =>
      /\ execution[e].expectedAmount > 0
      /\ execution[e].expectedAmount <= intent[i].amounts["escrowed"]

\* A step leaves the payment of an execution alone, or prepares it.
SamePayment(e) ==
  /\ execution'[e].intentId = execution[e].intentId
  /\ execution'[e].expectedAmount = execution[e].expectedAmount

PreparedPayment(e) ==
  \E i \in Intents, a \in Amounts :
    /\ execution'[e].intentId = i
    /\ execution'[e].expectedAmount = a
    /\ a > 0
    /\ intent[i].amounts["released"] + a <= intent[i].amounts["escrowed"]

LEMMA StepOfPayment ==
  ASSUME TypeOK, [Next]_vars, NEW e \in Executions
  PROVE  SamePayment(e) \/ PreparedPayment(e)
<1>1. execution \in [Executions -> ExecutionRecords]
  BY DEF TypeOK, AggregatesOK
<1>2. CASE UNCHANGED execution
  BY <1>2 DEF SamePayment
<1>3. ASSUME NEW k \in RequestKeys, NEW i \in Intents, NEW f \in Executions,
             SettlementNext(k, i, f)
      PROVE  SamePayment(e) \/ PreparedPayment(e)
  <2>1. ASSUME NEW a \in Amounts, NEW d \in Destinations, PrepareSettlement(k, i, f, a, d)
        PROVE  SamePayment(e) \/ PreparedPayment(e)
    <3>1. execution'[e] = (IF e = f THEN CreateExecution(i, a, d) ELSE execution[e])
      BY <1>1, <2>1 DEF PrepareSettlement
    <3> QED
      BY <2>1, <3>1
      DEF PrepareSettlement, CanCreateExecution, CreateExecution, SamePayment, PreparedPayment
  <2>2. ASSUME NEW s \in Signatures, SubmitSettlement(k, i, f, s)
        PROVE  SamePayment(e)
    BY <1>1, <2>2 DEF SubmitSettlement, MarkSubmitted, SamePayment, ExecutionRecords
  <2>3. CASE SetSettlementUnknown(k, i, f)
    BY <1>1, <2>3 DEF SetSettlementUnknown, MarkUnknown, SamePayment, ExecutionRecords
  <2>4. ASSUME NEW o \in ObservationInputs, ReconcileSettlement(k, i, f, o)
        PROVE  SamePayment(e)
    BY <1>1, <2>4 DEF ReconcileSettlement, ReconcileExecution, SamePayment, ExecutionRecords
  <2> QED
    BY <1>3, <2>1, <2>2, <2>3, <2>4 DEF SettlementNext
<1> QED
  BY <1>2, <1>3
  DEF Next, vars, aggregates, CreateIntent, TransitionIntent, AddEvidence, AddApproval,
      PrepareRelease, ReplayRequest

LEMMA PaymentsFitInvariant == Spec => []PaymentsFit
<1>1. Init => PaymentsFit
  BY NullAssumption DEF Init, NoExecution, PaymentsFit, Holds
<1>2. TypeOK /\ PaymentsFit /\ [Next]_vars => PaymentsFit'
  <2> SUFFICES ASSUME TypeOK, PaymentsFit, [Next]_vars,
                      NEW i \in Intents, NEW e \in Executions, Holds(i, e)'
               PROVE  /\ execution'[e].expectedAmount > 0
                      /\ execution'[e].expectedAmount <= intent'[i].amounts["escrowed"]
    BY DEF PaymentsFit
  <2>1. /\ intent[i].amounts["escrowed"] \in Nat /\ intent[i].amounts["released"] \in Nat
        /\ execution[e].expectedAmount \in Nat
    BY DEF TypeOK, AggregatesOK, CapitalIntents, Stages, ExecutionRecords
  <2>2. /\ intent'[i].amounts["escrowed"] \in Nat
        /\ intent'[i].amounts["escrowed"] >= intent[i].amounts["escrowed"]
    BY EscrowGrows
  <2>3. CASE SamePayment(e)
    <3>1. Holds(i, e)
      BY <2>3 DEF Holds, SamePayment
    <3>2. /\ execution[e].expectedAmount > 0
          /\ execution[e].expectedAmount <= intent[i].amounts["escrowed"]
      BY <3>1 DEF PaymentsFit
    <3> QED
      BY <2>1, <2>2, <2>3, <3>2 DEF SamePayment
  <2>4. CASE PreparedPayment(e)
    <3>1. PICK a \in Amounts :
            /\ execution'[e].expectedAmount = a /\ a > 0
            /\ intent[i].amounts["released"] + a <= intent[i].amounts["escrowed"]
      BY <2>4 DEF PreparedPayment, Holds
    <3>2. a \in Nat
      BY InputsAssumption
    <3> QED
      BY <2>1, <2>2, <3>1, <3>2
  <2> QED
    BY <2>3, <2>4, StepOfPayment
<1> QED
  BY <1>1, <1>2, TypeCorrect, PTL DEF Spec

\* A settlement whose intent is ready and has released nothing cannot make its
\* release throw, however much later it is reconciled and whatever else was
\* prepared meanwhile; the partial failure of reconcileSettlement needs an earlier
\* release or an intent that is not ready (prepareSettlement, applyCapitalTransition).
THEOREM FirstReleaseSafe == Spec => []FirstReleaseFits
<1>1. TypeOK /\ AccountingChain /\ PaymentsFit => FirstReleaseFits
  <2> SUFFICES ASSUME TypeOK, AccountingChain, PaymentsFit,
                      NEW i \in Intents, NEW e \in Executions, Holds(i, e),
                      intent[i].state = "RELEASE_READY",
                      intent[i].amounts["released"] = 0
               PROVE  CanApply(intent[i], ReleaseOf(execution[e]))
    BY DEF FirstReleaseFits
  <2> DEFINE x == intent[i]
             t == ReleaseOf(execution[e])
  <2>1. execution[e] \in ExecutionRecords /\ x \in CapitalIntents
    BY DEF TypeOK, AggregatesOK
  <2>2. /\ t \in CapitalTransitions /\ t.type = "RELEASE"
        /\ t.amount = execution[e].expectedAmount /\ t.amount \in Nat
    BY <2>1, InputTypes DEF ReleaseOf, ExecutionRecords
  <2>3. t.amount > 0 /\ t.amount <= x.amounts["escrowed"] /\ x.amounts["escrowed"] \in Nat
    BY <2>1, <2>2 DEF PaymentsFit, CapitalIntents, Stages
  <2>4. ~Overdraws(x, t)
    BY <2>2, <2>3 DEF Overdraws, StageOf, Upstream
  <2>5. ~Refused(x, t)
    BY <2>2, <2>3, <2>4
    DEF Refused, Closed, NotPositive, NotReady, NothingToRelease, AlreadyPaidOut
  <2>6. AssertAccounting(x.amounts)
    BY DEF AccountingChain
  <2> QED
    BY <2>1, <2>2, <2>5, <2>6, SwitchKeepsAccounting DEF CanApply
<1> QED
  BY <1>1, TypeCorrect, AccountingSafe, PaymentsFitInvariant, PTL

----------------------------------------------------------------------------
(* Answers. *)

\* An entry is made together with its first answer.
EntriesAnswered ==
  \A k \in Keys :
    entries[k] # NoEntry =>
      [key |-> k, request |-> entries[k].request, response |-> entries[k].response]
        \in answers

\* A new answer shows the aggregate of the intent its request names, at the
\* moment it is given.
NewAnswer(k, i, request) ==
  /\ i \in store'
  /\ request.op # "create" => request.id = i
  /\ Remember(k, request, Snapshot(i)')

LEMMA StepOfAnswers ==
  ASSUME TypeOK, [Next]_vars
  PROVE  \/ UNCHANGED <<entries, answers>>
         \/ \E k \in RequestKeys, i \in Intents :
              Unseen(k) /\ \E request \in Requests : NewAnswer(k, i, request)
         \/ \E k \in Keys, request \in Requests : Replay(k, request)
<1> DEFINE Given == \E k \in RequestKeys, i \in Intents :
                      Unseen(k) /\ \E request \in Requests : NewAnswer(k, i, request)
<1>1. CASE UNCHANGED vars
  BY <1>1 DEF vars
<1>2. ASSUME NEW k \in RequestKeys, NEW i \in Intents, CreateIntent(k, i)
      PROVE  Given
  <2>1. [op |-> "create"] \in Requests
    BY DEF Requests
  <2>2. NewAnswer(k, i, [op |-> "create"])
    BY <1>2 DEF CreateIntent, NewAnswer
  <2> QED
    BY <1>2, <2>1, <2>2 DEF CreateIntent
<1>3. ASSUME NEW k \in RequestKeys, NEW i \in Intents, NEW t \in Transitions,
             TransitionIntent(k, i, t)
      PROVE  Given
  <2> DEFINE request == [op |-> "transition", id |-> i, transition |-> t]
  <2>1. request \in Requests
    BY DEF Requests
  <2>2. NewAnswer(k, i, request)
    BY <1>3 DEF TransitionIntent, Accepts, NewAnswer
  <2> QED
    BY <1>3, <2>1, <2>2 DEF TransitionIntent, Accepts
<1>4. ASSUME NEW k \in RequestKeys, NEW i \in Intents, NEW input \in EvidenceInputs,
             AddEvidence(k, i, input)
      PROVE  Given
  <2> DEFINE request == [op |-> "evidence", id |-> i, input |-> input]
  <2>1. request \in Requests
    BY DEF Requests
  <2>2. NewAnswer(k, i, request)
    BY <1>4 DEF AddEvidence, Accepts, NewAnswer
  <2> QED
    BY <1>4, <2>1, <2>2 DEF AddEvidence, Accepts
<1>5. ASSUME NEW k \in RequestKeys, NEW i \in Intents, NEW input \in ApprovalInputs,
             AddApproval(k, i, input)
      PROVE  Given
  <2> DEFINE request == [op |-> "approval", id |-> i, input |-> input]
  <2>1. request \in Requests
    BY DEF Requests
  <2>2. NewAnswer(k, i, request)
    BY <1>5 DEF AddApproval, Accepts, NewAnswer
  <2> QED
    BY <1>5, <2>1, <2>2 DEF AddApproval, Accepts
<1>6. ASSUME NEW k \in RequestKeys, NEW i \in Intents, NEW review \in ReviewInputs,
             PrepareRelease(k, i, review)
      PROVE  Given
  <2> DEFINE request == [op |-> "release", id |-> i, review |-> review]
  <2>1. request \in Requests
    BY DEF Requests
  <2>2. NewAnswer(k, i, request)
    BY <1>6 DEF PrepareRelease, Accepts, NewAnswer
  <2> QED
    BY <1>6, <2>1, <2>2 DEF PrepareRelease, Accepts
<1>7. ASSUME NEW k \in RequestKeys, NEW i \in Intents, NEW e \in Executions,
             NEW a \in Amounts, NEW d \in Destinations, PrepareSettlement(k, i, e, a, d)
      PROVE  Given
  <2> DEFINE request == [op |-> "prepare", id |-> i, amount |-> a, destination |-> d]
  <2>1. request \in Requests
    BY DEF Requests
  <2>2. NewAnswer(k, i, request)
    BY <1>7 DEF PrepareSettlement, Accepts, NewAnswer
  <2> QED
    BY <1>7, <2>1, <2>2 DEF PrepareSettlement, Accepts
<1>8. ASSUME NEW k \in RequestKeys, NEW i \in Intents, NEW e \in Executions,
             NEW s \in Signatures, SubmitSettlement(k, i, e, s)
      PROVE  Given
  <2> DEFINE request == [op |-> "submit", id |-> i, execution |-> e, signature |-> s]
  <2>1. request \in Requests
    BY DEF Requests
  <2>2. NewAnswer(k, i, request)
    BY <1>8 DEF SubmitSettlement, Accepts, NewAnswer
  <2> QED
    BY <1>8, <2>1, <2>2 DEF SubmitSettlement, Accepts
<1>9. ASSUME NEW k \in RequestKeys, NEW i \in Intents, NEW e \in Executions,
             SetSettlementUnknown(k, i, e)
      PROVE  Given
  <2> DEFINE request == [op |-> "unknown", id |-> i, execution |-> e]
  <2>1. request \in Requests
    BY DEF Requests
  <2>2. NewAnswer(k, i, request)
    BY <1>9 DEF SetSettlementUnknown, Accepts, NewAnswer
  <2> QED
    BY <1>9, <2>1, <2>2 DEF SetSettlementUnknown, Accepts
<1>10. ASSUME NEW k \in RequestKeys, NEW i \in Intents, NEW e \in Executions,
              NEW o \in ObservationInputs, ReconcileSettlement(k, i, e, o)
       PROVE  Given \/ UNCHANGED <<entries, answers>>
  <2> DEFINE request == ReconcileRequest(i, e, o)
  <2>1. request \in Requests
    BY DEF Requests, ReconcileRequest
  <2>2. CASE Confirming(k, i, e, o) \/ ReleaseSettled(k, i, e, o)
    <3>1. NewAnswer(k, i, request)
      BY <1>10, <2>2
      DEF ReconcileSettlement, Accepts, NewAnswer, Confirming, ReleaseSettled,
          ReconcileRequest
    <3> QED
      BY <1>10, <2>1, <3>1 DEF ReconcileSettlement, Accepts
  <2>3. CASE ReleaseThrows(i, e, o)
    BY <2>3 DEF ReleaseThrows
  <2> QED
    BY <1>10, <2>2, <2>3 DEF ReconcileSettlement
<1>11. ASSUME NEW k \in RequestKeys, NEW i \in Intents, NEW e \in Executions,
              SettlementNext(k, i, e)
       PROVE  Given \/ UNCHANGED <<entries, answers>>
  BY <1>7, <1>8, <1>9, <1>10, <1>11 DEF SettlementNext
<1>12. ASSUME NEW k \in Keys, NEW request \in Requests, ReplayRequest(k, request)
       PROVE  \E q \in Keys, r \in Requests : Replay(q, r)
  BY <1>12 DEF ReplayRequest
<1> QED
  BY <1>1, <1>2, <1>3, <1>4, <1>5, <1>6, <1>11, <1>12 DEF Next

LEMMA AnsweredInvariant == Spec => []EntriesAnswered
<1>1. Init => EntriesAnswered
  BY DEF Init, RegistryInit, EntriesAnswered
<1>2. TypeOK /\ EntriesAnswered /\ [Next]_vars => EntriesAnswered'
  <2> SUFFICES ASSUME TypeOK, EntriesAnswered, [Next]_vars
               PROVE  EntriesAnswered'
    OBVIOUS
  <2>1. CASE UNCHANGED <<entries, answers>>
    BY <2>1 DEF EntriesAnswered
  <2>2. ASSUME NEW k \in RequestKeys, NEW i \in Intents, NEW request \in Requests,
               NewAnswer(k, i, request)
        PROVE  EntriesAnswered'
    <3>1. CASE k = OnceKey
      BY <2>1, <2>2, <3>1 DEF NewAnswer, Remember
    <3>2. CASE k # OnceKey
      <4>1. /\ entries' = [entries EXCEPT ![k] = [request  |-> request,
                                                  response |-> Snapshot(i)']]
            /\ answers' = answers \cup {[key |-> k, request |-> request,
                                         response |-> Snapshot(i)']}
        BY <2>2, <3>2 DEF NewAnswer, Remember
      <4> QED
        BY <4>1 DEF TypeOK, RegistryOK, EntriesAnswered
    <3> QED
      BY <3>1, <3>2
  <2>3. ASSUME NEW k \in Keys, NEW request \in Requests, Replay(k, request)
        PROVE  EntriesAnswered'
    BY <2>3 DEF Replay, EntriesAnswered
  <2> QED
    BY <2>1, <2>2, <2>3, StepOfAnswers
<1> QED
  BY <1>1, <1>2, TypeCorrect, PTL DEF Spec

\* Nothing that was recorded is taken back.
LEMMA StepOfHistory ==
  ASSUME TypeOK, [Next]_vars, NEW j \in Intents
  PROVE  /\ store \subseteq store'
         /\ intent[j].version <= intent'[j].version
         /\ \A kind \in ReceiptKinds : receipts[j][kind] <= receipts'[j][kind]
         /\ \A n \in DOMAIN journals[j] :
              n \in DOMAIN journals'[j] /\ journals'[j][n] = journals[j][n]
<1>1. /\ intent \in [Intents -> CapitalIntents]
      /\ receipts \in [Intents -> [ReceiptKinds -> Nat]]
      /\ journals \in [Intents -> Seq(JournalEntries)]
      /\ execution \in [Executions -> ExecutionRecords]
  BY DEF TypeOK, AggregatesOK
<1>2. intent[j].version \in Nat
  BY <1>1 DEF CapitalIntents
<1>3. /\ intent[j].version <= intent'[j].version
      /\ \A n \in DOMAIN journals[j] :
           n \in DOMAIN journals'[j] /\ journals'[j][n] = journals[j][n]
  <2>1. CASE UNCHANGED <<intent, journals>>
    BY <1>2, <2>1
  <2>2. ASSUME NEW i \in Intents, NEW t \in CapitalTransitions, MoneyStep(i, t)
        PROVE  /\ intent[j].version <= intent'[j].version
               /\ \A n \in DOMAIN journals[j] :
                    n \in DOMAIN journals'[j] /\ journals'[j][n] = journals[j][n]
    <3>1. intent'[j] = (IF i = j THEN Apply(intent[j], t) ELSE intent[j])
      BY <1>1, <2>2 DEF MoneyStep
    <3>2. intent[j].version <= intent'[j].version
      BY <1>2, <3>1 DEF Apply
    <3>3. \/ journals'[j] = journals[j]
          \/ \E e \in Executions : journals'[j] = Append(journals[j], SettlementJournal(execution[e]))
      BY <1>1, <2>2 DEF MoneyStep
    <3>4. \A e \in Executions : SettlementJournal(execution[e]) \in JournalEntries
      BY <1>1 DEF SettlementJournal, JournalEntries, ExecutionRecords
    <3>5. \A n \in DOMAIN journals[j] :
            n \in DOMAIN journals'[j] /\ journals'[j][n] = journals[j][n]
      <4>1. CASE journals'[j] = journals[j]
        BY <4>1
      <4>2. ASSUME NEW e \in Executions,
                   journals'[j] = Append(journals[j], SettlementJournal(execution[e]))
            PROVE  \A n \in DOMAIN journals[j] :
                     n \in DOMAIN journals'[j] /\ journals'[j][n] = journals[j][n]
        <5> DEFINE seq == journals[j]
                   entry == SettlementJournal(execution[e])
        <5>1. seq \in Seq(JournalEntries) /\ entry \in JournalEntries
          BY <1>1, <3>4
        <5>2. /\ DOMAIN seq \subseteq DOMAIN Append(seq, entry)
              /\ \A n \in DOMAIN seq : Append(seq, entry)[n] = seq[n]
          BY <5>1, Longer
        <5> QED
          BY <4>2, <5>2, Zenon
      <4> QED
        BY <3>3, <4>1, <4>2
    <3> QED
      BY <3>2, <3>5
  <2> QED
    BY <2>1, <2>2, StepOfMoney
<1>4. ASSUME NEW i \in Intents, NEW kind \in ReceiptKinds, AppendReceipt(i, kind)
      PROVE  \A other \in ReceiptKinds : receipts[j][other] <= receipts'[j][other]
  BY <1>1, <1>4 DEF AppendReceipt
<1>5. CASE UNCHANGED <<store, receipts>>
  BY <1>1, <1>3, <1>5
<1>6. /\ {"CAPITAL_INTENT_CREATED", "EVIDENCE_ADDED", "APPROVAL_RECORDED",
          "RELEASE_REVIEW_PASSED", "SETTLEMENT_PREPARED", "SETTLEMENT_SUBMITTED",
          "EXECUTION_UNKNOWN", "SETTLEMENT_RECONCILED"} \subseteq ReceiptKinds
      /\ \A t \in Transitions : TransitionReceipt(t) \in ReceiptKinds
  BY DEF ReceiptKinds, TransitionKinds, TransitionReceipt
<1>7. ASSUME NEW k \in RequestKeys, NEW i \in Intents,
             \/ CreateIntent(k, i)
             \/ \E t \in Transitions : TransitionIntent(k, i, t)
             \/ \E input \in EvidenceInputs : AddEvidence(k, i, input)
             \/ \E input \in ApprovalInputs : AddApproval(k, i, input)
             \/ \E review \in ReviewInputs : PrepareRelease(k, i, review)
      PROVE  /\ store \subseteq store'
             /\ \E kind \in ReceiptKinds : AppendReceipt(i, kind)
  BY <1>6, <1>7
  DEF CreateIntent, TransitionIntent, AddEvidence, AddApproval, PrepareRelease
<1>8. ASSUME NEW k \in RequestKeys, NEW i \in Intents, NEW e \in Executions,
             SettlementNext(k, i, e)
      PROVE  /\ UNCHANGED store
             /\ UNCHANGED receipts \/ \E kind \in ReceiptKinds : AppendReceipt(i, kind)
  BY <1>6, <1>8
  DEF SettlementNext, PrepareSettlement, SubmitSettlement, SetSettlementUnknown,
      ReconcileSettlement, Confirming, ReleaseSettled, ReleaseThrows
<1>9. ASSUME NEW k \in Keys, NEW request \in Requests, ReplayRequest(k, request)
      PROVE  UNCHANGED <<store, receipts>>
  BY <1>9 DEF ReplayRequest, aggregates
<1>10. CASE UNCHANGED vars
  BY <1>5, <1>10 DEF vars, aggregates
<1> QED
  BY <1>3, <1>4, <1>5, <1>7, <1>8, <1>9, <1>10 DEF Next

\* Whatever answer a client gets, and however late it is replayed, what it shows
\* was once there and was only added to since (snapshot, IdempotencyRegistry).
THEOREM AnswersStayPast == Spec => []AnswersArePast
<1> DEFINE Past(a, i) ==
      /\ a.request.op # "create" => a.request.id = i
      /\ a.response.intent.version <= intent[i].version
      /\ \A kind \in ReceiptKinds : a.response.receipts[kind] <= receipts[i][kind]
      /\ \A n \in DOMAIN a.response.journals :
           n \in DOMAIN journals[i] /\ a.response.journals[n] = journals[i][n]
<1>1. Init => AnswersArePast
  BY DEF Init, RegistryInit, AnswersArePast
<1>2. TypeOK /\ TypeOK' /\ AnswersOfEntries /\ EntriesAnswered /\ AnswersArePast /\ [Next]_vars
        => AnswersArePast'
  <2> SUFFICES ASSUME TypeOK, TypeOK', AnswersOfEntries, EntriesAnswered, AnswersArePast,
                      [Next]_vars, NEW a \in answers'
               PROVE  \E i \in store' : Past(a, i)'
    BY DEF AnswersArePast
  <2>1. CASE a \in answers
    <3>1. PICK i \in store : Past(a, i)
      BY <2>1 DEF AnswersArePast
    <3>2. i \in Intents
      BY DEF TypeOK, AggregatesOK
    <3>3. a.response \in Snapshots
      <4>1. a.key \in Keys /\ entries[a.key] # NoEntry
        BY <2>1 DEF AnswersOfEntries
      <4>2. a.response = entries[a.key].response
        BY <2>1 DEF AnswersOfEntries
      <4> QED
        BY <4>1, <4>2 DEF TypeOK, RegistryOK, RegistryEntries
    <3>4. /\ a.response.intent.version \in Nat
          /\ \A kind \in ReceiptKinds : a.response.receipts[kind] \in Nat
      BY <3>3 DEF Snapshots, CapitalIntents
    <3>5. /\ intent[i].version \in Nat /\ intent'[i].version \in Nat
          /\ \A kind \in ReceiptKinds : receipts[i][kind] \in Nat /\ receipts'[i][kind] \in Nat
      BY <3>2 DEF TypeOK, AggregatesOK, CapitalIntents
    <3>6. a.response.intent.version <= intent'[i].version
      BY <3>1, <3>2, <3>4, <3>5, StepOfHistory
    <3>7. \A kind \in ReceiptKinds : a.response.receipts[kind] <= receipts'[i][kind]
      BY <3>1, <3>2, <3>4, <3>5, StepOfHistory
    <3>8. \A n \in DOMAIN a.response.journals :
            n \in DOMAIN journals'[i] /\ a.response.journals[n] = journals'[i][n]
      BY <3>1, <3>2, StepOfHistory
    <3> QED
      BY <3>1, <3>2, <3>6, <3>7, <3>8, StepOfHistory
  <2>2. CASE a \notin answers
    <3>1. ASSUME NEW k \in Keys, NEW request \in Requests, Replay(k, request)
          PROVE  FALSE
      BY <2>2, <3>1 DEF Replay, EntriesAnswered
    <3>2. PICK k \in RequestKeys, i \in Intents :
            \E request \in Requests : NewAnswer(k, i, request)
      BY <2>2, <3>1, StepOfAnswers
    <3>3. PICK request \in Requests : NewAnswer(k, i, request)
      BY <3>2
    <3>4. a = [key |-> k, request |-> request, response |-> Snapshot(i)']
      BY <2>2, <3>3 DEF NewAnswer, Remember
    <3>5. /\ a.response.intent = intent'[i]
          /\ a.response.receipts = receipts'[i]
          /\ a.response.journals = journals'[i]
      BY <3>4 DEF Snapshot
    <3>6. /\ intent'[i].version \in Nat
          /\ \A kind \in ReceiptKinds : receipts'[i][kind] \in Nat
      BY DEF TypeOK, AggregatesOK, CapitalIntents
    <3> QED
      BY <3>3, <3>4, <3>5, <3>6 DEF NewAnswer
  <2> QED
    BY <2>1, <2>2
<1> QED
  BY <1>1, <1>2, TypeCorrect, AnswersInvariant, AnsweredInvariant, PTL DEF Spec

----------------------------------------------------------------------------
(* Journals and the money they record. *)

\* The credits of a sequence of journals add up to a total.
AddsUpTo(seq, total) ==
  \E balance \in [0..Len(seq) -> 0..total] :
    /\ balance[0] = 0
    /\ balance[Len(seq)] = total
    /\ \A n \in 1..Len(seq) : balance[n] = balance[n-1] + seq[n].credit.amount

LEMMA OneMoreCredit ==
  ASSUME NEW seq \in Seq(JournalEntries), NEW journal \in JournalEntries,
         NEW total \in Nat, AddsUpTo(seq, total)
  PROVE  AddsUpTo(Append(seq, journal), total + journal.credit.amount)
<1> DEFINE a == journal.credit.amount
           longer == Append(seq, journal)
<1>1. /\ Len(seq) \in Nat /\ Len(longer) = Len(seq) + 1
      /\ \A n \in 1..Len(seq) : longer[n] = seq[n]
      /\ longer[Len(seq) + 1] = journal
  OBVIOUS
<1>2. a \in Nat
  BY DEF JournalEntries
<1>3. PICK balance \in [0..Len(seq) -> 0..total] :
        /\ balance[0] = 0
        /\ balance[Len(seq)] = total
        /\ \A n \in 1..Len(seq) : balance[n] = balance[n-1] + seq[n].credit.amount
  BY DEF AddsUpTo
<1> DEFINE extended == [n \in 0..(Len(seq) + 1) |->
                          IF n <= Len(seq) THEN balance[n] ELSE total + a]
<1> HIDE DEF longer, a
<1>4. extended \in [0..Len(longer) -> 0..(total + a)]
  <2>1. ASSUME NEW n \in 0..(Len(seq) + 1)
        PROVE  extended[n] \in 0..(total + a)
    <3>1. CASE n <= Len(seq)
      <4>1. extended[n] = balance[n] /\ n \in 0..Len(seq)
        BY <1>1, <3>1
      <4>2. balance[n] \in 0..total
        BY <1>3, <4>1
      <4> QED
        BY <1>2, <4>1, <4>2
    <3>2. CASE ~(n <= Len(seq))
      BY <1>2, <3>2
    <3> QED
      BY <3>1, <3>2
  <2> QED
    BY <1>1, <2>1
<1>5. extended[0] = 0 /\ extended[Len(longer)] = total + a
  BY <1>1, <1>3
<1>6. ASSUME NEW n \in 1..Len(longer)
      PROVE  extended[n] = extended[n-1] + longer[n].credit.amount
  <2>1. CASE n <= Len(seq)
    BY <1>1, <1>3, <2>1
  <2>2. CASE n = Len(seq) + 1
    BY <1>1, <1>3, <2>2 DEF a
  <2> QED
    BY <1>1, <2>1, <2>2
<1> QED
  BY <1>4, <1>5, <1>6 DEF AddsUpTo, longer, a

\* An intent's journals add up to a part of what it released, and to all of it
\* unless a receipt shows a release by the transitions route.
Journaled(i) ==
  \E total \in 0..intent[i].amounts["released"] :
    /\ AddsUpTo(journals[i], total)
    /\ receipts[i]["CAPITAL_RELEASE"] = 0 => total = intent[i].amounts["released"]

LEMMA JournaledStep ==
  ASSUME TypeOK, TypeOK', [Next]_vars, NEW j \in Intents, Journaled(j)
  PROVE  Journaled(j)'
<1> DEFINE released == intent[j].amounts["released"]
           byHand == receipts[j]["CAPITAL_RELEASE"]
<1>1. /\ intent[j] \in CapitalIntents /\ journals[j] \in Seq(JournalEntries)
      /\ "released" \in Stages /\ released \in Nat
      /\ "CAPITAL_RELEASE" \in ReceiptKinds /\ byHand \in Nat
  BY DEF TypeOK, AggregatesOK, CapitalIntents, Stages, ReceiptKinds, TransitionKinds
<1>2. PICK total \in 0..released :
        AddsUpTo(journals[j], total) /\ (byHand = 0 => total = released)
  BY DEF Journaled
<1>3. receipts'[j]["CAPITAL_RELEASE"] >= byHand
  BY <1>1, StepOfHistory
<1>4. ASSUME intent'[j].amounts["released"] = released, journals'[j] = journals[j]
      PROVE  Journaled(j)'
  <2>1. receipts'[j]["CAPITAL_RELEASE"] = 0 => byHand = 0
    <3>1. receipts'[j]["CAPITAL_RELEASE"] \in Nat
      BY <1>1 DEF TypeOK, AggregatesOK
    <3> QED
      BY <1>1, <1>3, <3>1
  <2> QED
    BY <1>2, <1>4, <2>1 DEF Journaled
<1>5. ASSUME NEW i \in Intents, NEW t \in CapitalTransitions, MoneyStep(i, t)
      PROVE  Journaled(j)'
  <2>1. intent'[j] = IF j = i THEN Apply(intent[j], t) ELSE intent[j]
    BY <1>1, <1>5 DEF MoneyStep, TypeOK, AggregatesOK
  <2>2. CASE j # i
    <3>1. journals'[j] = journals[j]
      BY <1>5, <2>2 DEF MoneyStep, TypeOK, AggregatesOK
    <3> QED
      BY <1>4, <2>1, <2>2, <3>1
  <2>3. CASE j = i /\ UNCHANGED journals /\ t.type # "RELEASE"
    <3>1. t.type \in AmountMoves => StageOf[t.type] # "released"
      BY <2>3 DEF AmountMoves, StageOf
    <3>2. intent'[j].amounts["released"] = released
      BY <1>1, <2>1, <2>3, <3>1 DEF Apply, CapitalIntents
    <3> QED
      BY <1>4, <2>3, <3>2
  <2>4. CASE j = i /\ UNCHANGED journals /\ receipts'[i]["CAPITAL_RELEASE"] > 0
    <3>1. /\ intent'[j].amounts["released"] >= released
          /\ intent'[j].amounts["released"] \in Nat
      BY <1>1, <2>1, <2>4, GrowingTotals
    <3>2. total \in 0..intent'[j].amounts["released"]
      BY <1>1, <1>2, <3>1
    <3> QED
      BY <1>2, <2>4, <3>2 DEF Journaled
  <2>5. ASSUME j = i, NEW e \in Executions, t = ReleaseOf(execution[e]),
               journals' = [journals EXCEPT ![i] = Append(@, SettlementJournal(execution[e]))]
        PROVE  Journaled(j)'
    <3> DEFINE journal == SettlementJournal(execution[e])
               a == execution[e].expectedAmount
    <3>1. a \in Nat /\ journal \in JournalEntries /\ journal.credit.amount = a
      BY DEF TypeOK, AggregatesOK, ExecutionRecords, SettlementJournal, JournalEntries
    <3>2. intent'[j].amounts["released"] = released + a
      BY <1>1, <2>1, <2>5 DEF CapitalIntents, Apply, ReleaseOf, AmountMoves, StageOf
    <3>3. journals'[j] = Append(journals[j], journal)
      BY <2>5 DEF TypeOK, AggregatesOK
    <3>4. AddsUpTo(journals'[j], total + a)
      <4> HIDE DEF journal
      <4>1. total \in Nat
        BY <1>1
      <4> QED
        BY <1>1, <1>2, <3>1, <3>3, <4>1, OneMoreCredit
    <3>5. total + a \in 0..intent'[j].amounts["released"]
      BY <1>1, <3>1, <3>2
    <3>6. receipts'[j]["CAPITAL_RELEASE"] = 0 => total + a = intent'[j].amounts["released"]
      <4>1. receipts'[j]["CAPITAL_RELEASE"] = 0 => byHand = 0
        <5>1. receipts'[j]["CAPITAL_RELEASE"] \in Nat
          BY <1>1 DEF TypeOK, AggregatesOK
        <5> QED
          BY <1>1, <1>3, <5>1
      <4> QED
        BY <1>2, <3>2, <4>1
    <3> QED
      BY <3>4, <3>5, <3>6 DEF Journaled
  <2> QED
    BY <1>5, <2>2, <2>3, <2>4, <2>5 DEF MoneyStep
<1> QED
  BY <1>4, <1>5, StepOfMoney

\* The journals of an intent never add up to more than it released, and add up to
\* exactly that unless its receipts show a release by hand: each reconciliation
\* extends both by the same amount (reconcileSettlement, transitionIntent).
THEOREM JournalsSafe == Spec => []JournalsWithinReleased
<1> DEFINE AllJournaled == \A i \in Intents : Journaled(i)
<1>1. Init => AllJournaled
  <2> SUFFICES ASSUME Init, NEW i \in Intents PROVE Journaled(i)
    OBVIOUS
  <2>1. journals[i] = <<>> /\ intent[i].amounts["released"] = 0
    BY DEF Init, NewIntent, Stages
  <2> DEFINE none == [n \in 0..0 |-> 0]
  <2>2. none \in [0..Len(<<>>) -> 0..0] /\ none[0] = 0 /\ none[Len(<<>>)] = 0
    OBVIOUS
  <2>3. \A n \in 1..Len(<<>>) : FALSE
    OBVIOUS
  <2>4. AddsUpTo(<<>>, 0)
    BY <2>2, <2>3 DEF AddsUpTo
  <2>5. 0 \in 0..0
    OBVIOUS
  <2> QED
    BY <2>1, <2>4, <2>5 DEF Journaled
<1>2. TypeOK /\ TypeOK' /\ AllJournaled /\ [Next]_vars => AllJournaled'
  BY JournaledStep
<1>3. TypeOK /\ AllJournaled => JournalsWithinReleased
  <2> SUFFICES ASSUME TypeOK, NEW i \in Intents, Journaled(i)
               PROVE  \E balance \in [0..Len(journals[i]) -> 0..intent[i].amounts["released"]] :
                        /\ balance[0] = 0
                        /\ \A n \in 1..Len(journals[i]) :
                             balance[n] = balance[n-1] + journals[i][n].credit.amount
                        /\ receipts[i]["CAPITAL_RELEASE"] = 0
                             => balance[Len(journals[i])] = intent[i].amounts["released"]
    BY DEF JournalsWithinReleased
  <2>1. PICK total \in 0..intent[i].amounts["released"] :
          /\ AddsUpTo(journals[i], total)
          /\ receipts[i]["CAPITAL_RELEASE"] = 0 => total = intent[i].amounts["released"]
    BY DEF Journaled
  <2>2. PICK balance \in [0..Len(journals[i]) -> 0..total] :
          /\ balance[0] = 0
          /\ balance[Len(journals[i])] = total
          /\ \A n \in 1..Len(journals[i]) :
               balance[n] = balance[n-1] + journals[i][n].credit.amount
    BY <2>1 DEF AddsUpTo
  <2>3. intent[i].amounts["released"] \in Nat
    BY DEF TypeOK, AggregatesOK, CapitalIntents, Stages
  <2>4. 0..total \subseteq 0..intent[i].amounts["released"]
    BY <2>1, <2>3
  <2>5. balance \in [0..Len(journals[i]) -> 0..intent[i].amounts["released"]]
    BY <2>2, <2>4
  <2> QED
    BY <2>1, <2>2, <2>5
<1> QED
  BY <1>1, <1>2, <1>3, TypeCorrect, PTL DEF Spec

----------------------------------------------------------------------------
(* Receipts. *)

Mine(i) == {e \in Executions : Holds(i, e)}
Signed(i) == {e \in Mine(i) : execution[e].signature # Null}

\* The receipts of one intent account for it.
AccountsFor(i) ==
  /\ receipts[i]["CAPITAL_INTENT_CREATED"] = (IF i \in store THEN 1 ELSE 0)
  /\ intent[i].version = 1 + receipts[i]["CAPITAL_TRANSITION"]
                           + receipts[i]["CAPITAL_MARK_RELEASE_READY"]
                           + receipts[i]["CAPITAL_RELEASE"]
                           + receipts[i]["RELEASE_REVIEW_PASSED"]
                           + receipts[i]["SETTLEMENT_RECONCILED"]
  /\ receipts[i]["SETTLEMENT_PREPARED"] = Cardinality(Mine(i))
  /\ receipts[i]["SETTLEMENT_SUBMITTED"] = Cardinality(Signed(i))
  /\ receipts[i]["SETTLEMENT_RECONCILED"] = Len(journals[i])
  /\ receipts[i]["EVIDENCE_ADDED"] = Len(evidence[i])
  /\ receipts[i]["APPROVAL_RECORDED"] = Len(approvals[i])

\* The strengthening: an intent has finitely many executions, and one that was
\* never prepared has none.
ReceiptsOK ==
  /\ \A i \in Intents : AccountsFor(i) /\ IsFiniteSet(Mine(i))
  /\ \A e \in Executions : execution[e].state = "UNUSED" => execution[e].intentId = Null

\* Each version has a receipt of one of these kinds.
VersionKinds == TransitionKinds \cup {"RELEASE_REVIEW_PASSED", "SETTLEMENT_RECONCILED"}

Versions(i) ==
  intent[i].version = 1 + receipts[i]["CAPITAL_TRANSITION"]
                        + receipts[i]["CAPITAL_MARK_RELEASE_READY"]
                        + receipts[i]["CAPITAL_RELEASE"]
                        + receipts[i]["RELEASE_REVIEW_PASSED"]
                        + receipts[i]["SETTLEMENT_RECONCILED"]

LEMMA OneMoreVersion ==
  ASSUME NEW i \in Intents, NEW kind \in VersionKinds, Versions(i),
         VersionKinds \subseteq ReceiptKinds,
         \A q \in ReceiptKinds : receipts[i][q] \in Nat,
         receipts'[i][kind] = receipts[i][kind] + 1,
         \A q \in ReceiptKinds \ {kind} : receipts'[i][q] = receipts[i][q],
         intent'[i].version = intent[i].version + 1
  PROVE  Versions(i)'
<1>1. \A q \in VersionKinds :
        /\ receipts[i][q] \in Nat
        /\ receipts'[i][q] = (IF q = kind THEN receipts[i][q] + 1 ELSE receipts[i][q])
  OBVIOUS
<1>2. /\ "CAPITAL_TRANSITION" \in VersionKinds
      /\ "CAPITAL_MARK_RELEASE_READY" \in VersionKinds
      /\ "CAPITAL_RELEASE" \in VersionKinds
      /\ "RELEASE_REVIEW_PASSED" \in VersionKinds
      /\ "SETTLEMENT_RECONCILED" \in VersionKinds
  BY DEF VersionKinds, TransitionKinds
<1> QED
  BY <1>1, <1>2 DEF Versions, VersionKinds, TransitionKinds

LEMMA OneMoreReceipt ==
  ASSUME TypeOK, NEW i \in Intents, NEW kind \in ReceiptKinds, AppendReceipt(i, kind)
  PROVE  /\ \A j \in Intents \ {i} : receipts'[j] = receipts[j]
         /\ \A q \in ReceiptKinds \ {kind} : receipts'[i][q] = receipts[i][q]
         /\ receipts'[i][kind] = receipts[i][kind] + 1
  BY DEF AppendReceipt, TypeOK, AggregatesOK

\* A handler that prepares and signs nothing leaves both sets alone.
LEMMA SameExecutions ==
  ASSUME NEW j \in Intents,
         \A e \in Executions : Identity(execution'[e]) = Identity(execution[e])
  PROVE  Mine(j)' = Mine(j) /\ Signed(j)' = Signed(j)
  BY DEF Mine, Signed, Holds, Identity

LEMMA CreateReceipts ==
  ASSUME TypeOK, ReceiptsOK, NEW k \in RequestKeys, NEW i \in Intents,
         CreateIntent(k, i)
  PROVE  \A j \in Intents : AccountsFor(j)'
<1>1. /\ AppendReceipt(i, "CAPITAL_INTENT_CREATED")
      /\ i \notin store /\ store' = store \cup {i}
      /\ UNCHANGED <<intent, evidence, approvals, execution, journals>>
  BY DEF CreateIntent
<1>2. \A j \in Intents : Mine(j)' = Mine(j) /\ Signed(j)' = Signed(j)
  BY <1>1 DEF Mine, Signed, Holds
<1> QED
  BY <1>1, <1>2, OneMoreReceipt DEF ReceiptsOK, AccountsFor, ReceiptKinds, TransitionKinds

LEMMA TransitionReceipts ==
  ASSUME TypeOK, ReceiptsOK, NEW k \in RequestKeys, NEW i \in Intents,
         \/ \E t \in Transitions : TransitionIntent(k, i, t)
         \/ \E review \in ReviewInputs : PrepareRelease(k, i, review)
  PROVE  \A j \in Intents : AccountsFor(j)'
<1>1. PICK kind \in TransitionKinds \cup {"RELEASE_REVIEW_PASSED"} :
        /\ AppendReceipt(i, kind)
        /\ \E t : intent' = [intent EXCEPT ![i] = Apply(@, t)]
        /\ UNCHANGED <<store, evidence, approvals, execution, journals>>
  BY DEF TransitionIntent, PrepareRelease, TransitionReceipt, TransitionKinds
<1>2. \A j \in Intents : Mine(j)' = Mine(j) /\ Signed(j)' = Signed(j)
  BY <1>1 DEF Mine, Signed, Holds
<1>3. \A j \in Intents :
        intent'[j].version = (IF j = i THEN intent[j].version + 1 ELSE intent[j].version)
  BY <1>1 DEF Apply, TypeOK, AggregatesOK
<1>4. \A j \in Intents : \A q \in ReceiptKinds : receipts[j][q] \in Nat
  BY DEF TypeOK, AggregatesOK, ReceiptKinds
<1>5. kind \in ReceiptKinds
  BY DEF ReceiptKinds, TransitionKinds
<1> SUFFICES ASSUME NEW j \in Intents PROVE AccountsFor(j)'
  OBVIOUS
<1>6. CASE j # i
  <2>1. receipts'[j] = receipts[j] /\ intent'[j].version = intent[j].version
    BY <1>1, <1>3, <1>5, <1>6, OneMoreReceipt
  <2> QED
    BY <1>1, <1>2, <2>1 DEF ReceiptsOK, AccountsFor
<1>7. CASE j = i
  <2>1. /\ receipts'[i][kind] = receipts[i][kind] + 1
        /\ \A q \in ReceiptKinds \ {kind} : receipts'[i][q] = receipts[i][q]
        /\ intent'[i].version = intent[i].version + 1
    BY <1>1, <1>3, <1>5, OneMoreReceipt
  <2>2. Versions(i) /\ VersionKinds \subseteq ReceiptKinds /\ kind \in VersionKinds
    BY DEF ReceiptsOK, AccountsFor, Versions, VersionKinds, ReceiptKinds, TransitionKinds
  <2>3. Versions(i)'
    BY <1>1, <1>4, <2>1, <2>2, OneMoreVersion
  <2> QED
    BY <1>1, <1>2, <1>7, <2>1, <2>3
    DEF ReceiptsOK, AccountsFor, Versions, ReceiptKinds, TransitionKinds
<1> QED
  BY <1>6, <1>7

LEMMA RecordReceipts ==
  ASSUME TypeOK, ReceiptsOK, NEW k \in RequestKeys, NEW i \in Intents,
         \/ \E input \in EvidenceInputs : AddEvidence(k, i, input)
         \/ \E input \in ApprovalInputs : AddApproval(k, i, input)
  PROVE  \A j \in Intents : AccountsFor(j)'
<1>1. evidence \in [Intents -> Seq(EvidenceRecords)] /\ approvals \in [Intents -> Seq(ApprovalRecords)]
  BY DEF TypeOK, AggregatesOK
<1>2. UNCHANGED <<store, intent, execution, journals>>
  BY DEF AddEvidence, AddApproval
<1>3. \A j \in Intents : Mine(j)' = Mine(j) /\ Signed(j)' = Signed(j)
  BY <1>2 DEF Mine, Signed, Holds
<1>4. ASSUME NEW input \in EvidenceInputs, AddEvidence(k, i, input)
      PROVE  \A j \in Intents : AccountsFor(j)'
  <2>1. /\ AppendReceipt(i, "EVIDENCE_ADDED") /\ UNCHANGED approvals
        /\ \A j \in Intents :
             Len(evidence'[j]) = (IF j = i THEN Len(evidence[j]) + 1 ELSE Len(evidence[j]))
    BY <1>1, <1>4, InputsAssumption DEF AddEvidence
  <2> QED
    BY <1>2, <1>3, <2>1, OneMoreReceipt DEF ReceiptsOK, AccountsFor, ReceiptKinds, TransitionKinds
<1>5. ASSUME NEW input \in ApprovalInputs, AddApproval(k, i, input)
      PROVE  \A j \in Intents : AccountsFor(j)'
  <2>1. /\ AppendReceipt(i, "APPROVAL_RECORDED") /\ UNCHANGED evidence
        /\ \A j \in Intents :
             Len(approvals'[j]) = (IF j = i THEN Len(approvals[j]) + 1 ELSE Len(approvals[j]))
    BY <1>1, <1>5, InputsAssumption DEF AddApproval
  <2> QED
    BY <1>2, <1>3, <2>1, OneMoreReceipt DEF ReceiptsOK, AccountsFor, ReceiptKinds, TransitionKinds
<1> QED
  BY <1>4, <1>5

LEMMA PrepareReceipts ==
  ASSUME TypeOK, ReceiptsOK, SignedWhenSubmitted,
         NEW k \in RequestKeys, NEW i \in Intents, NEW e \in Executions,
         NEW a \in Amounts, NEW d \in Destinations, PrepareSettlement(k, i, e, a, d)
  PROVE  ReceiptsOK'
<1>1. /\ AppendReceipt(i, "SETTLEMENT_PREPARED")
      /\ UNCHANGED <<store, intent, evidence, approvals, journals>>
      /\ execution[e].state = "UNUSED"
      /\ execution' = [execution EXCEPT ![e] = CreateExecution(i, a, d)]
  BY DEF PrepareSettlement
<1>2. \A x \in Executions :
        execution'[x] = (IF x = e THEN CreateExecution(i, a, d) ELSE execution[x])
  BY <1>1 DEF TypeOK, AggregatesOK
<1>3. execution[e].intentId = Null /\ execution[e].signature = Null
  BY <1>1 DEF ReceiptsOK, SignedWhenSubmitted
<1>4. /\ CreateExecution(i, a, d).intentId = i
      /\ CreateExecution(i, a, d).state = "PREPARED"
      /\ CreateExecution(i, a, d).signature = Null
  BY DEF CreateExecution
<1>5. \A j \in Intents \ {i} : Mine(j)' = Mine(j) /\ Signed(j)' = Signed(j)
  BY <1>2, <1>3, <1>4, NullAssumption DEF Mine, Signed, Holds
<1>6. Mine(i)' = Mine(i) \cup {e} /\ e \notin Mine(i) /\ Signed(i)' = Signed(i)
  BY <1>2, <1>3, <1>4, NullAssumption DEF Mine, Signed, Holds
<1>7. /\ Cardinality(Mine(i)') = Cardinality(Mine(i)) + 1
      /\ IsFiniteSet(Mine(i)')
  BY <1>6, FS_AddElement DEF ReceiptsOK
<1>8. "SETTLEMENT_PREPARED" \in ReceiptKinds
  BY DEF ReceiptKinds
<1>9. ASSUME NEW j \in Intents \ {i} PROVE AccountsFor(j)'
  <2>1. receipts'[j] = receipts[j]
    BY <1>1, <1>8, OneMoreReceipt
  <2> QED
    BY <1>1, <1>5, <2>1 DEF ReceiptsOK, AccountsFor
<1>10. AccountsFor(i)'
  <2>1. /\ receipts'[i]["SETTLEMENT_PREPARED"] = receipts[i]["SETTLEMENT_PREPARED"] + 1
        /\ \A q \in ReceiptKinds \ {"SETTLEMENT_PREPARED"} : receipts'[i][q] = receipts[i][q]
    BY <1>1, <1>8, OneMoreReceipt
  <2> QED
    BY <1>1, <1>6, <1>7, <2>1 DEF ReceiptsOK, AccountsFor, ReceiptKinds, TransitionKinds
<1> QED
  BY <1>2, <1>4, <1>5, <1>7, <1>9, <1>10 DEF ReceiptsOK

LEMMA SubmitReceipts ==
  ASSUME TypeOK, ReceiptsOK, SignedWhenSubmitted,
         NEW k \in RequestKeys, NEW i \in Intents, NEW e \in Executions,
         NEW s \in Signatures, SubmitSettlement(k, i, e, s)
  PROVE  ReceiptsOK'
<1>1. /\ AppendReceipt(i, "SETTLEMENT_SUBMITTED")
      /\ UNCHANGED <<store, intent, evidence, approvals, journals>>
      /\ Holds(i, e) /\ execution[e].state = "PREPARED"
      /\ execution' = [execution EXCEPT ![e] = MarkSubmitted(@, s)]
  BY DEF SubmitSettlement, CanMarkSubmitted
<1>2. \A x \in Executions :
        execution'[x] = (IF x = e THEN MarkSubmitted(execution[x], s) ELSE execution[x])
  BY <1>1 DEF TypeOK, AggregatesOK
<1>3. /\ MarkSubmitted(execution[e], s).intentId = execution[e].intentId
      /\ MarkSubmitted(execution[e], s).state = "SUBMITTED"
      /\ MarkSubmitted(execution[e], s).signature = s
  BY DEF MarkSubmitted, TypeOK, AggregatesOK, ExecutionRecords
<1>4. execution[e].signature = Null /\ s # Null
  BY <1>1, NullAssumption DEF SignedWhenSubmitted
<1>5. \A j \in Intents : Mine(j)' = Mine(j)
  BY <1>2, <1>3 DEF Mine, Holds
<1>6. \A j \in Intents \ {i} : Signed(j)' = Signed(j)
  BY <1>1, <1>2, <1>3, <1>5 DEF Signed, Mine, Holds
<1>7. Signed(i)' = Signed(i) \cup {e} /\ e \notin Signed(i)
  BY <1>1, <1>2, <1>3, <1>4, <1>5 DEF Signed, Mine
<1>8. IsFiniteSet(Signed(i))
  BY FS_Subset DEF ReceiptsOK, Signed
<1>9. Cardinality(Signed(i)') = Cardinality(Signed(i)) + 1
  BY <1>7, <1>8, FS_AddElement
<1>10. \A j \in Intents : AccountsFor(j)'
  BY <1>1, <1>5, <1>6, <1>9, OneMoreReceipt DEF ReceiptsOK, AccountsFor, ReceiptKinds, TransitionKinds
<1> QED
  BY <1>2, <1>3, <1>5, <1>10 DEF ReceiptsOK

\* Observations and unknown outcomes keep the identity of the execution.
LEMMA ObservedExecution ==
  ASSUME TypeOK, ReceiptsOK, NEW k \in RequestKeys, NEW i \in Intents, NEW e \in Executions,
         \/ SetSettlementUnknown(k, i, e)
         \/ \E o \in ObservationInputs : ReconcileSettlement(k, i, e, o)
  PROVE  /\ \A j \in Intents : Mine(j)' = Mine(j) /\ Signed(j)' = Signed(j)
         /\ \A x \in Executions :
              execution'[x].state = "UNUSED" => execution'[x].intentId = Null
<1>1. execution \in [Executions -> ExecutionRecords]
  BY DEF TypeOK, AggregatesOK
<1>2. PICK y :
        /\ execution' = [execution EXCEPT ![e] = y]
        /\ Identity(y) = Identity(execution[e])
        /\ y.state # "UNUSED"
  <2>1. CASE SetSettlementUnknown(k, i, e)
    <3>1. /\ Identity(MarkUnknown(execution[e])) = Identity(execution[e])
          /\ MarkUnknown(execution[e]).state # "UNUSED"
      BY <1>1 DEF MarkUnknown, ExecutionRecords, Identity
    <3> QED
      BY <2>1, <3>1 DEF SetSettlementUnknown
  <2>2. ASSUME NEW o \in ObservationInputs, ReconcileSettlement(k, i, e, o)
        PROVE  \E y : /\ execution' = [execution EXCEPT ![e] = y]
                      /\ Identity(y) = Identity(execution[e])
                      /\ y.state # "UNUSED"
    <3>1. /\ Identity(ReconcileExecution(execution[e], o)) = Identity(execution[e])
          /\ ReconcileExecution(execution[e], o).state # "UNUSED"
      BY <1>1 DEF ReconcileExecution, ExecutionRecords, Identity
    <3> QED
      BY <2>2, <3>1 DEF ReconcileSettlement
  <2> QED
    BY <2>1, <2>2
<1>3. \A x \in Executions : execution'[x] = (IF x = e THEN y ELSE execution[x])
  BY <1>1, <1>2
<1>4. \A x \in Executions : Identity(execution'[x]) = Identity(execution[x])
  BY <1>2, <1>3
<1> QED
  BY <1>2, <1>3, <1>4, SameExecutions DEF ReceiptsOK

LEMMA ObservationReceipts ==
  ASSUME TypeOK, ReceiptsOK, NEW k \in RequestKeys, NEW i \in Intents, NEW e \in Executions,
         \/ SetSettlementUnknown(k, i, e)
         \/ \E o \in ObservationInputs : ReconcileSettlement(k, i, e, o)
  PROVE  ReceiptsOK'
<1>1. \A j \in Intents : Mine(j)' = Mine(j) /\ Signed(j)' = Signed(j)
  BY ObservedExecution
<1>2. UNCHANGED <<store, evidence, approvals>>
  BY DEF SetSettlementUnknown, ReconcileSettlement
<1>3. CASE SetSettlementUnknown(k, i, e)
  <2>1. AppendReceipt(i, "EXECUTION_UNKNOWN") /\ UNCHANGED <<intent, journals>>
    BY <1>3 DEF SetSettlementUnknown
  <2> QED
    BY <1>1, <1>2, <2>1, ObservedExecution, OneMoreReceipt
    DEF ReceiptsOK, AccountsFor, ReceiptKinds, TransitionKinds
<1>4. ASSUME NEW o \in ObservationInputs,
             Confirming(k, i, e, o) \/ ReleaseThrows(i, e, o)
      PROVE  ReceiptsOK'
  <2>1. UNCHANGED <<intent, receipts, journals>>
    BY <1>4 DEF Confirming, ReleaseThrows
  <2> QED
    BY <1>1, <1>2, <2>1, ObservedExecution DEF ReceiptsOK, AccountsFor
<1>5. ASSUME NEW o \in ObservationInputs, ReleaseSettled(k, i, e, o)
      PROVE  ReceiptsOK'
  <2>1. /\ AppendReceipt(i, "SETTLEMENT_RECONCILED")
        /\ intent' = [intent EXCEPT ![i] = Apply(@, ReleaseOf(execution[e]))]
        /\ journals' = [journals EXCEPT ![i] = Append(@, SettlementJournal(execution[e]))]
    BY <1>5 DEF ReleaseSettled
  <2>2. SettlementJournal(execution[e]) \in JournalEntries
    BY DEF SettlementJournal, JournalEntries, TypeOK, AggregatesOK, ExecutionRecords
  <2>3. \A j \in Intents :
          /\ intent'[j].version = (IF j = i THEN intent[j].version + 1 ELSE intent[j].version)
          /\ Len(journals'[j]) = (IF j = i THEN Len(journals[j]) + 1 ELSE Len(journals[j]))
    BY <2>1, <2>2 DEF Apply, TypeOK, AggregatesOK
  <2>4. \A j \in Intents : \A q \in ReceiptKinds : receipts[j][q] \in Nat
    BY DEF TypeOK, AggregatesOK
  <2>5. "SETTLEMENT_RECONCILED" \in ReceiptKinds
    BY DEF ReceiptKinds
  <2>6. ASSUME NEW j \in Intents \ {i} PROVE AccountsFor(j)'
    <3>1. /\ receipts'[j] = receipts[j] /\ intent'[j].version = intent[j].version
          /\ Len(journals'[j]) = Len(journals[j])
      BY <2>1, <2>3, <2>5, OneMoreReceipt
    <3> QED
      BY <1>1, <1>2, <3>1 DEF ReceiptsOK, AccountsFor
  <2>7. AccountsFor(i)'
    <3>1. /\ receipts'[i]["SETTLEMENT_RECONCILED"] = receipts[i]["SETTLEMENT_RECONCILED"] + 1
          /\ \A q \in ReceiptKinds \ {"SETTLEMENT_RECONCILED"} :
               receipts'[i][q] = receipts[i][q]
          /\ intent'[i].version = intent[i].version + 1
          /\ Len(journals'[i]) = Len(journals[i]) + 1
      BY <2>1, <2>3, <2>5, OneMoreReceipt
    <3>2. /\ Versions(i) /\ VersionKinds \subseteq ReceiptKinds
          /\ "SETTLEMENT_RECONCILED" \in VersionKinds
      BY DEF ReceiptsOK, AccountsFor, Versions, VersionKinds, ReceiptKinds, TransitionKinds
    <3>3. Versions(i)'
      BY <2>4, <3>1, <3>2, OneMoreVersion
    <3> QED
      BY <1>1, <1>2, <3>1, <3>3 DEF ReceiptsOK, AccountsFor, Versions, ReceiptKinds, TransitionKinds
  <2> QED
    BY <1>1, <2>6, <2>7, ObservedExecution DEF ReceiptsOK
<1> QED
  BY <1>3, <1>4, <1>5 DEF ReconcileSettlement

\* Every version, execution, signature, journal, piece of evidence and approval
\* has exactly one receipt, on the failing path of a reconciliation too
\* (appendReceipt).
THEOREM ReceiptsComplete == Spec => []ReceiptsAccountForState
<1>1. Init => ReceiptsOK
  <2> SUFFICES ASSUME Init PROVE ReceiptsOK
    OBVIOUS
  <2>1. \A i \in Intents : Mine(i) = {} /\ Signed(i) = {}
    BY NullAssumption DEF Init, NoExecution, Mine, Signed, Holds
  <2>2. Cardinality({}) = 0 /\ IsFiniteSet({})
    BY FS_EmptySet
  <2>3. ASSUME NEW i \in Intents PROVE AccountsFor(i)
    <3>1. /\ store = {} /\ intent[i].version = 1 /\ Len(journals[i]) = 0
          /\ Len(evidence[i]) = 0 /\ Len(approvals[i]) = 0
          /\ \A kind \in ReceiptKinds : receipts[i][kind] = 0
      BY DEF Init, NewIntent
    <3>2. Cardinality(Mine(i)) = 0 /\ Cardinality(Signed(i)) = 0
      BY <2>1, <2>2
    <3> QED
      BY <3>1, <3>2 DEF AccountsFor, ReceiptKinds, TransitionKinds
  <2> QED
    BY <2>1, <2>2, <2>3 DEF Init, NoExecution, ReceiptsOK
<1>2. TypeOK /\ SignedWhenSubmitted /\ ReceiptsOK /\ [Next]_vars => ReceiptsOK'
  <2> SUFFICES ASSUME TypeOK, SignedWhenSubmitted, ReceiptsOK, [Next]_vars
               PROVE  ReceiptsOK'
    OBVIOUS
  <2>1. CASE UNCHANGED aggregates
    BY <2>1 DEF aggregates, ReceiptsOK, AccountsFor, Mine, Signed, Holds
  <2>2. ASSUME NEW k \in RequestKeys, NEW i \in Intents,
               \/ CreateIntent(k, i)
               \/ \E t \in Transitions : TransitionIntent(k, i, t)
               \/ \E input \in EvidenceInputs : AddEvidence(k, i, input)
               \/ \E input \in ApprovalInputs : AddApproval(k, i, input)
               \/ \E review \in ReviewInputs : PrepareRelease(k, i, review)
        PROVE  ReceiptsOK'
    <3>1. \A j \in Intents : AccountsFor(j)'
      BY <2>2, CreateReceipts, TransitionReceipts, RecordReceipts
    <3>2. UNCHANGED execution
      BY <2>2
      DEF CreateIntent, TransitionIntent, AddEvidence, AddApproval, PrepareRelease
    <3> QED
      BY <3>1, <3>2 DEF ReceiptsOK, Mine, Holds
  <2>3. ASSUME NEW k \in RequestKeys, NEW i \in Intents, NEW e \in Executions,
               SettlementNext(k, i, e)
        PROVE  ReceiptsOK'
    BY <2>3, PrepareReceipts, SubmitReceipts, ObservationReceipts DEF SettlementNext
  <2>4. ASSUME NEW k \in Keys, NEW request \in Requests, ReplayRequest(k, request)
        PROVE  ReceiptsOK'
    BY <2>1, <2>4 DEF ReplayRequest
  <2> QED
    BY <2>1, <2>2, <2>3, <2>4 DEF Next, vars
<1>3. ReceiptsOK => ReceiptsAccountForState
  BY DEF ReceiptsOK, AccountsFor, Signed, Mine, ReceiptsAccountForState
<1> QED
  BY <1>1, <1>2, <1>3, TypeCorrect, SignedInvariant, PTL DEF Spec
============================================================================
