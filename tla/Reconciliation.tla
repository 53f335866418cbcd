-------------------------- MODULE Reconciliation ---------------------------
(***************************************************************************)
(* The record of one settlement execution and the journal its              *)
(* reconciliation writes, domain/reconciliation.ts and domain/ledger.ts.   *)
(*                                                                         *)
(* Every operation is a pure function of an execution that returns the     *)
(* next one or throws; a Can... operator is its success condition.         *)
(* Blank destinations and signatures are refused before any state is       *)
(* written, so the sets hold the non-blank ones only.                      *)
(***************************************************************************)
EXTENDS Integers

CONSTANTS Intents, Signatures, Destinations, Null

ASSUME NullAssumption == Null \notin Intents \cup Signatures

\* "UNUSED" marks an identifier randomUUID() has not returned yet.
ExecutionStates == {"UNUSED", "PREPARED", "SUBMITTED", "CONFIRMING",
                    "CONFIRMED", "EXECUTION_UNKNOWN", "FAILED", "RECONCILED"}

ExecutionRecords ==
  [intentId            : Intents \cup {Null},
   state               : ExecutionStates,
   signature           : Signatures \cup {Null},
   expectedAmount      : Nat,
   expectedDestination : Destinations \cup {Null},
   observedAmount      : Nat \cup {Null},
   observedDestination : Destinations \cup {Null}]

Observations == [signature : Signatures, finalized : BOOLEAN,
                 amount : Nat, destination : Destinations]

NoExecution ==
  [intentId |-> Null, state |-> "UNUSED", signature |-> Null,
   expectedAmount |-> 0, expectedDestination |-> Null,
   observedAmount |-> Null, observedDestination |-> Null]

----------------------------------------------------------------------------

CanCreateExecution(amount) == amount > 0

CreateExecution(i, amount, destination) ==
  [intentId |-> i, state |-> "PREPARED", signature |-> Null,
   expectedAmount |-> amount, expectedDestination |-> destination,
   observedAmount |-> Null, observedDestination |-> Null]

\* Faulty variant (mutant): anything prepared once can be submitted again.
CanMarkSubmittedAgain(x) == x.state # "UNUSED"

CanMarkSubmitted(x) == x.state = "PREPARED"

MarkSubmitted(x, signature) ==
  [x EXCEPT !.state = "SUBMITTED", !.signature = signature]

CanMarkUnknown(x) == x.state \in {"SUBMITTED", "CONFIRMING"}

\* Faulty variant (mutant): an unknown outcome forgets the signature.
MarkUnknownUnsigned(x) ==
  [x EXCEPT !.state = "EXECUTION_UNKNOWN", !.signature = Null]

MarkUnknown(x) == [x EXCEPT !.state = "EXECUTION_UNKNOWN"]

\* The only conditions on the execution are its signature and, once the
\* observation is final, the amount and destination it was prepared with.
CanReconcile(x, o) ==
  /\ x.signature # Null
  /\ x.signature = o.signature
  /\ o.finalized => /\ o.amount = x.expectedAmount
                    /\ o.destination = x.expectedDestination

ReconcileExecution(x, o) ==
  [x EXCEPT !.state = IF o.finalized THEN "RECONCILED" ELSE "CONFIRMING",
            !.observedAmount = o.amount,
            !.observedDestination = o.destination]

----------------------------------------------------------------------------
(* The ledger.                                                             *)

Escrow == "CRISIS_ESCROW"

JournalEntries ==
  [reference : Signatures \cup {Null},
   debit     : [account : Destinations \cup {Null}, amount : Nat],
   credit    : [account : {Escrow}, amount : Nat]]

\* Two lines of the same amount.  validateJournal cannot refuse them: a
\* prepared amount is positive, its destination is not blank and the sides
\* are equal by construction.
SettlementJournal(x) ==
  [reference |-> x.signature,
   debit     |-> [account |-> x.expectedDestination, amount |-> x.expectedAmount],
   credit    |-> [account |-> Escrow, amount |-> x.expectedAmount]]
============================================================================
