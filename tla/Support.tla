------------------------------ MODULE Support ------------------------------
(***************************************************************************)
(* The parts around the services: the release gate, the process of the API,*)
(* the portfolio request and the commission arithmetic.  They share no     *)
(* state; one specification holds them side by side and "focus" says which *)
(* of them moves.                                                          *)
(***************************************************************************)
EXTENDS ReleaseGate, ServerStart, WalletPortfolio, Commission

VARIABLE focus

vars == <<focus, releaseVars, serverVars, portfolioVars, commissionVars>>

Parts == {"release", "server", "portfolio", "commission"}

\* A part that does not move is in one of its initial states.
Init ==
  /\ focus \in Parts
  /\ ReleaseInit
  /\ focus # "release" => chain = 1 /\ approved = {}
  /\ ServerInit
  /\ focus # "server" => config = CHOOSE c \in Configurations : TRUE
  /\ PortfolioInit
  /\ focus # "portfolio" => ~indexed
  /\ CommissionInit

Rests(part, state) == IF focus = part THEN TRUE ELSE UNCHANGED state

Moves(part) ==
  /\ focus = part
  /\ Rests("release", releaseVars)
  /\ Rests("server", serverVars)
  /\ Rests("portfolio", portfolioVars)
  /\ Rests("commission", commissionVars)
  /\ UNCHANGED focus

Next ==
  \/ Moves("release") /\ ReleaseNext
  \/ Moves("server") /\ ServerNext
  \/ Moves("portfolio") /\ PortfolioNext
  \/ Moves("commission") /\ CommissionNext

Spec == Init /\ [][Next]_vars
============================================================================
