-------------------------- MODULE CapitalWaterfall -------------------------
(***************************************************************************)
(* What the platform promises about the money of its intents, whatever the *)
(* requests that reach it: totals only grow, one stage of one intent at a  *)
(* time; nothing enters a stage that is not in the stage before it;        *)
(* capital can be cancelled only while none of it was released, and then   *)
(* never moves again.  Labels, reviews, evidence and settlements are not   *)
(* visible here.                                                           *)
(***************************************************************************)
EXTENDS Integers

CONSTANTS
  Intents,
  Stages,
  First,     \* the stage money enters by
  Before,    \* Before[s] feeds stage s, for every other stage
  Paid       \* the stage from which money cannot be called back

VARIABLES amounts, open

waterfall == <<amounts, open>>

WaterfallInit == /\ amounts = [i \in Intents |-> [s \in Stages |-> 0]]
                 /\ open = [i \in Intents |-> TRUE]

Grow(i, s) ==
  LET total == amounts'[i][s]
  IN  /\ open[i]
      /\ total > amounts[i][s]
      /\ s # First => total <= amounts[i][Before[s]]
      /\ amounts' = [amounts EXCEPT ![i][s] = total]
      /\ UNCHANGED open

Cancel(i) ==
  /\ open[i]
  /\ amounts[i][Paid] = 0
  /\ open' = [open EXCEPT ![i] = FALSE]
  /\ UNCHANGED amounts

WaterfallNext ==
  \E i \in Intents : Cancel(i) \/ \E s \in Stages : Grow(i, s)

Waterfall == WaterfallInit /\ [][WaterfallNext]_waterfall
============================================================================
