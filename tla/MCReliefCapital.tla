-------------------------- MODULE MCReliefCapital --------------------------
(***************************************************************************)
(* Inputs and bounds of the ReliefCapital instances.                       *)
(***************************************************************************)
EXTENDS ReliefCapital, TLC

Move(type, amount) == [type |-> type, amount |-> amount]

\* Settlement: two units escrowed at once, then every way out of it; an
\* amount of 0 is refused.
SettlementTransitions ==
  {Move(type, 2) : type \in {"RAISE", "MAKE_AVAILABLE", "ALLOCATE", "ESCROW"}}
  \cup {Move(type, 0) : type \in AmountMoves}
  \cup {Move("RELEASE", 1), Move("MARK_SPENT", 1), Move("CANCEL", 0), MarkReleaseReady}

SettlementReceipts ==
  [kind \in ReceiptKinds |->
     CASE kind = "CAPITAL_TRANSITION"     -> 5
       [] kind = "CAPITAL_INTENT_CREATED" -> 1
       [] kind = "SETTLEMENT_RECONCILED"  -> 3
       [] OTHER -> 2]

Interchangeable == Permutations(Executions) \cup Permutations(Signatures)
                   \cup Permutations(Destinations)

\* Governance: the whole pipeline from RAISE to VERIFY_IMPACT, with reviews.
GovernanceTransitions ==
  {Move(type, amount) : type \in AmountMoves, amount \in 0..1}
  \cup {Move("RAISE", 2), Move("ESCROW", 2),
         Move("CANCEL", 0), Move("OTHER", 0), MarkReleaseReady}

\* The route's default policy, and one with every optional check.
Policy(approvalsNeeded, roles, evidenceNeeded, cap) ==
  [minimumApprovals        |-> approvalsNeeded,
   requiredRoles           |-> roles,
   requireVerifiedEvidence |-> evidenceNeeded > 0,
   minimumVerifiedEvidence |-> evidenceNeeded,
   requireSignerReady      |-> TRUE,
   maximumRelease          |-> cap]

GovernanceReviews ==
  [requested : 0..2, signerReady : BOOLEAN,
   policy : {Policy(1, {}, 1, NoCap), Policy(2, Roles, 0, 1)}]

GovernanceReceipts ==
  [kind \in ReceiptKinds |->
     CASE kind = "CAPITAL_TRANSITION"     -> 7
       [] kind = "APPROVAL_RECORDED"      -> 2
       [] OTHER -> 1]

\* Idempotency: one unit of each of two intents through a settlement, with a key
\* that may come back on any request of either.
KeyedTransitions ==
  {Move(type, 1) : type \in {"RAISE", "MAKE_AVAILABLE", "ALLOCATE", "ESCROW"}}
  \cup {Move("CANCEL", 0), MarkReleaseReady}

KeyedReceipts ==
  [kind \in ReceiptKinds |-> IF kind = "CAPITAL_TRANSITION" THEN 5 ELSE 1]

EitherIntent == Permutations(Intents)
============================================================================
