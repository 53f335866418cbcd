-------------------------- MODULE DebouncedQuorum --------------------------
(***************************************************************************)
(* What the operator-facing quorum promises: a verdict that follows its    *)
(* readings with a delay.  It leaves its value only after Patience         *)
(* consecutive readings that contradict it, and then at once.              *)
(***************************************************************************)
EXTENDS Integers

\* The contradicting readings needed to leave each value: [BOOLEAN -> Nat \ {0}].
CONSTANT Patience

VARIABLES
  read,      \* whether anything was read yet
  verdict,
  contrary   \* the consecutive readings that contradict the verdict

vars == <<read, verdict, contrary>>

Init == ~read /\ verdict = FALSE /\ contrary = 0

FirstReading(raw) ==
  /\ ~read
  /\ read' = TRUE
  /\ verdict' = raw
  /\ contrary' = 0

Agree(raw) ==
  /\ read
  /\ raw = verdict
  /\ contrary' = 0
  /\ UNCHANGED <<read, verdict>>

Doubt(raw) ==
  /\ read
  /\ raw # verdict
  /\ contrary + 1 < Patience[verdict]
  /\ contrary' = contrary + 1
  /\ UNCHANGED <<read, verdict>>

Yield(raw) ==
  /\ read
  /\ raw # verdict
  /\ contrary + 1 >= Patience[verdict]
  /\ verdict' = raw
  /\ contrary' = 0
  /\ UNCHANGED read

Next == \E raw \in BOOLEAN :
          FirstReading(raw) \/ Agree(raw) \/ Doubt(raw) \/ Yield(raw)

Spec == Init /\ [][Next]_vars
============================================================================
