--------------------------- MODULE ReleasePolicy ---------------------------
(***************************************************************************)
(* The release review, domain/release-policy.ts: a pure function of an     *)
(* intent, its evidence and approvals, and a policy.  The policy comes     *)
(* with the request (api/v1/capital.ts builds it from the body).           *)
(***************************************************************************)
EXTENDS Capital, FiniteSets

CONSTANTS Roles, Approvers, Instants

\* A review without a cap: maximumReleaseAtomic undefined.
NoCap == -1

EvidenceRecords == [verified : BOOLEAN, attested : BOOLEAN]

\* approvedAt comes from the body or is the time of the request; nothing but
\* the request hash depends on it.
ApprovalRecords == [role : Roles, approver : Approvers, approved : BOOLEAN,
                    approvedAt : Instants]

Policies == [minimumApprovals        : Nat,
             requiredRoles           : SUBSET Roles,
             requireVerifiedEvidence : BOOLEAN,
             minimumVerifiedEvidence : Nat,
             requireSignerReady      : BOOLEAN,
             maximumRelease          : Nat \cup {NoCap}]

Reviews == [requested : Nat, signerReady : BOOLEAN, policy : Policies]

----------------------------------------------------------------------------

Approved(approvals) == {n \in DOMAIN approvals : approvals[n].approved}

Verified(evidence) == {n \in DOMAIN evidence : evidence[n].verified}

UnreleasedEscrow(intent) ==
  intent.amounts["escrowed"] - intent.amounts["released"]

\* evaluateRelease(...).eligible: all seven checks pass.  Approvals are
\* counted by record, roles by the records that approve.
Eligible(intent, evidence, approvals, review) ==
  LET policy == review.policy
  IN  /\ review.requested > 0
      /\ UnreleasedEscrow(intent) >= review.requested
      /\ Cardinality(Approved(approvals)) >= policy.minimumApprovals
      /\ policy.requiredRoles
           \subseteq {approvals[n].role : n \in Approved(approvals)}
      /\ policy.requireVerifiedEvidence
           => Cardinality(Verified(evidence)) >= policy.minimumVerifiedEvidence
      /\ policy.requireSignerReady => review.signerReady
      /\ policy.maximumRelease # NoCap
           => review.requested <= policy.maximumRelease
============================================================================
