----------------------------- MODULE Commission ----------------------------
(***************************************************************************)
(* The commission on successful funding, which is computed in two places:  *)
(* the capital service's domain (domain/fees.ts) and the shared package    *)
(* (packages/fees).  A pool's proceeds arrive in several fundings, each    *)
(* charged by itself.                                                      *)
(***************************************************************************)
EXTENDS Naturals

CONSTANTS
  Amounts,     \* atomic units of one funding
  MaxFundings  \* bound on the fundings of a pool

ASSUME CommissionAssumption == Amounts \subseteq Nat \ {0} /\ MaxFundings \in Nat

VARIABLES
  fundings,  \* how many there were
  proceeds,  \* what they brought
  charged,   \* what the domain took of them
  quoted     \* what the package quoted for them

commissionVars == <<fundings, proceeds, charged, quoted>>

FloorBps(amount, bps) == (amount * bps) \div 10000

\* Faulty variant (mutant): each share is a floor of its own.
SharesByThemselves(amount) ==
  [total |-> FloorBps(amount, 500), community |-> FloorBps(amount, 200),
   ecosystem |-> FloorBps(amount, 300)]

SuccessfulFundingCommission(amount) ==
  LET total == FloorBps(amount, 500)
      community == FloorBps(amount, 200)
  IN [total |-> total, community |-> community, ecosystem |-> total - community]

BuildSuccessCommission(amount) ==
  LET community == FloorBps(amount, 200)
      ecosystem == FloorBps(amount, 300)
  IN [total |-> community + ecosystem, community |-> community, ecosystem |-> ecosystem]

Nothing == [total |-> 0, community |-> 0, ecosystem |-> 0]

Plus(a, b) ==
  [total |-> a.total + b.total, community |-> a.community + b.community,
   ecosystem |-> a.ecosystem + b.ecosystem]

CommissionInit ==
  /\ fundings = 0 /\ proceeds = 0
  /\ charged = Nothing /\ quoted = Nothing

FundingCharged(amount) ==
  /\ fundings < MaxFundings
  /\ fundings' = fundings + 1
  /\ proceeds' = proceeds + amount
  /\ charged' = Plus(charged, SuccessfulFundingCommission(amount))
  /\ quoted' = Plus(quoted, BuildSuccessCommission(amount))

CommissionNext == \E amount \in Amounts : FundingCharged(amount)

----------------------------------------------------------------------------
(* Properties. *)

\* Nothing of a commission is lost or made up in its shares; the two
\* computations agree on the community and differ by at most a unit per funding,
\* the quote never the higher; and charging fundings one by one costs the
\* treasuries at most a unit each against charging them at once.
CommissionsAgree ==
  /\ charged.community + charged.ecosystem = charged.total
  /\ quoted.community + quoted.ecosystem = quoted.total
  /\ quoted.community = charged.community
  /\ quoted.total <= charged.total
  /\ charged.total <= quoted.total + fundings
  /\ charged.total <= FloorBps(proceeds, 500)
  /\ FloorBps(proceeds, 500) <= charged.total + fundings
============================================================================
