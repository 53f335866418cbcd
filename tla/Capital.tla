------------------------------ MODULE Capital ------------------------------
(***************************************************************************)
(* The capital state machine of one intent, domain/capital.ts.             *)
(*                                                                         *)
(* An intent carries eight running totals, one per stage of the pipeline   *)
(* from money raised to impact verified, and the label of the last         *)
(* transition it took.  applyCapitalTransition is a pure function that     *)
(* either returns the next intent or throws: CanApply is its success       *)
(* condition and Apply its result.  Currency and timestamps are carried    *)
(* by the code and never compared, so they are left out.                   *)
(***************************************************************************)
EXTENDS Integers

Stages == {"raised", "available", "allocated", "escrowed",
           "released", "spent", "delivered", "verifiedImpact"}

CapitalStates == {"CREATED", "RAISED", "AVAILABLE", "ALLOCATED", "ESCROWED",
                  "RELEASE_READY", "RELEASED", "SPENT", "DELIVERED",
                  "VERIFIED_IMPACT", "CANCELLED"}

CapitalIntents == [state   : CapitalStates,
                   amounts : [Stages -> Nat],
                   version : Nat \ {0}]

\* The transitions that add an amount to a stage, and the others.  "OTHER" is
\* any type the switch does not name: the route accepts String(body.type).
AmountMoves == {"RAISE", "MAKE_AVAILABLE", "ALLOCATE", "ESCROW",
                "RELEASE", "MARK_SPENT", "MARK_DELIVERED", "VERIFY_IMPACT"}

TransitionTypes == AmountMoves \cup {"MARK_RELEASE_READY", "CANCEL", "OTHER"}

\* An amount of 0 also stands for a body without one: both are refused by the
\* moves that need it (positive(), or the bigint addition that throws).
CapitalTransitions == [type : TransitionTypes, amount : Nat]

\* The stage each move adds to, and the label it leaves behind.
StageOf == [RAISE       |-> "raised",    MAKE_AVAILABLE |-> "available",
            ALLOCATE    |-> "allocated", ESCROW         |-> "escrowed",
            RELEASE     |-> "released",  MARK_SPENT     |-> "spent",
            MARK_DELIVERED |-> "delivered", VERIFY_IMPACT |-> "verifiedImpact"]

LabelOf == [RAISE       |-> "RAISED",    MAKE_AVAILABLE |-> "AVAILABLE",
            ALLOCATE    |-> "ALLOCATED", ESCROW         |-> "ESCROWED",
            RELEASE     |-> "RELEASED",  MARK_SPENT     |-> "SPENT",
            MARK_DELIVERED |-> "DELIVERED", VERIFY_IMPACT |-> "VERIFIED_IMPACT",
            MARK_RELEASE_READY |-> "RELEASE_READY", CANCEL |-> "CANCELLED"]

\* The stage that bounds a stage from above; raised has none.
Upstream == [available |-> "raised",    allocated |-> "available",
             escrowed  |-> "allocated", released  |-> "escrowed",
             spent     |-> "released",  delivered |-> "spent",
             verifiedImpact |-> "delivered"]

BoundedStages == Stages \ {"raised"}

----------------------------------------------------------------------------

\* Faulty variant (mutant): versions start at 0.
NewIntentUnversioned == [state   |-> "CREATED",
                         amounts |-> [s \in Stages |-> 0],
                         version |-> 0]

NewIntent == [state   |-> "CREATED",
              amounts |-> [s \in Stages |-> 0],
              version |-> 1]

\* The assertion applyCapitalTransition ends with, on the intent it returns.
AssertAccounting(amounts) ==
  /\ \A s \in Stages : amounts[s] >= 0
  /\ \A s \in BoundedStages : amounts[s] <= amounts[Upstream[s]]

(* What a transition refuses before it changes the copy of the intent.     *)

\* Faulty variant (mutant): a cancelled intent still takes transitions.
NeverClosed(intent) == FALSE

Closed(intent) == intent.state = "CANCELLED"

NotPositive(t) == t.type \in AmountMoves /\ t.amount <= 0

\* Faulty variant (mutant): compares the total before it is added to.
OverdrawsBeforeAdding(intent, t) ==
  /\ t.type \in AmountMoves \ {"RAISE"}
  /\ LET s == StageOf[t.type]
     IN  intent.amounts[s] > intent.amounts[Upstream[s]]

Overdraws(intent, t) ==
  /\ t.type \in AmountMoves \ {"RAISE"}
  /\ LET s == StageOf[t.type]
     IN  intent.amounts[s] + t.amount > intent.amounts[Upstream[s]]

NotReady(intent, t) == t.type = "RELEASE" /\ intent.state # "RELEASE_READY"

\* Faulty variant (mutant): an emptied escrow can be made ready (off by one).
NothingToReleaseOffByOne(intent, t) ==
  /\ t.type = "MARK_RELEASE_READY"
  /\ intent.amounts["escrowed"] < intent.amounts["released"]

NothingToRelease(intent, t) ==
  /\ t.type = "MARK_RELEASE_READY"
  /\ intent.amounts["escrowed"] <= intent.amounts["released"]

AlreadyPaidOut(intent, t) == t.type = "CANCEL" /\ intent.amounts["released"] > 0

Refused(intent, t) ==
  \/ Closed(intent)
  \/ NotPositive(t)
  \/ Overdraws(intent, t)
  \/ NotReady(intent, t)
  \/ NothingToRelease(intent, t)
  \/ AlreadyPaidOut(intent, t)

Apply(intent, t) ==
  [state   |-> IF t.type = "OTHER" THEN intent.state ELSE LabelOf[t.type],
   amounts |-> IF t.type \in AmountMoves
               THEN [intent.amounts EXCEPT ![StageOf[t.type]] = @ + t.amount]
               ELSE intent.amounts,
   version |-> intent.version + 1]

CanApply(intent, t) ==
  /\ ~Refused(intent, t)
  /\ AssertAccounting(Apply(intent, t).amounts)
============================================================================
