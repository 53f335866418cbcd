---------------------------- MODULE MCReadiness ----------------------------
(***************************************************************************)
(* Environments for Readiness: lenient and strict with two market          *)
(* providers that must both be live; strict with one and with a provider   *)
(* that enriches and is required too; strict with the SLO gate and one;    *)
(* strict with the market waived; and strict without a mint to ask for.    *)
(***************************************************************************)
EXTENDS Readiness

CONSTANTS rpc, pyth, jupiter, helius

TwoQuotes == [strict |-> TRUE, slo |-> FALSE, warm |-> "mint", required |-> {rpc},
              configured |-> {rpc, pyth, jupiter}, quorum |-> 2]
OneQuote == [TwoQuotes EXCEPT !.configured = {rpc, pyth}, !.quorum = 1]

SixEnvironments ==
  { TwoQuotes,
    [TwoQuotes EXCEPT !.strict = FALSE],
    [OneQuote EXCEPT !.configured = @ \cup {helius}, !.required = {rpc, helius}],
    [OneQuote EXCEPT !.slo = TRUE],
    [OneQuote EXCEPT !.warm = "waived"],
    [OneQuote EXCEPT !.warm = "missing"] }
============================================================================
