--------------------------- MODULE WalletPortfolio -------------------------
(***************************************************************************)
(* One portfolio request from the page: the website's proxy                *)
(* (lib/server/powerchain-api-proxy.ts), the route (api/v1/wallet.ts) and  *)
(* the service that reads the native balance, then the indexed assets      *)
(* (services/wallet-data.ts).  The proxy gives up after ten seconds, the   *)
(* service goes on.                                                        *)
(***************************************************************************)
CONSTANTS Items, NoAnswer   \* assets the index may list, and no answer yet

VARIABLES
  indexed,   \* whether Helius is configured
  reading,   \* what the service waits for: "request", "balance", "assets", "done"
  balance,   \* the native balance's state
  answer,    \* what the route sends
  page       \* what the proxy hands on

portfolioVars == <<indexed, reading, balance, answer, page>>

Failure(status) == [code |-> status]

PortfolioInit ==
  /\ indexed \in BOOLEAN
  /\ reading = "request" /\ balance = "UNAVAILABLE"
  /\ answer = NoAnswer /\ page = NoAnswer

Degraded == IF balance = "UNAVAILABLE" THEN "UNAVAILABLE" ELSE "DEGRADED"

\* Faulty variant (mutant): the status forgets the native balance.
IndexedIsLive(state) == IF state = "LIVE" THEN "LIVE" ELSE Degraded

\* The status of the three returns of getWalletPortfolio.
Status(state) ==
  IF state = "LIVE" THEN IF balance = "LIVE" THEN "LIVE" ELSE "DEGRADED" ELSE Degraded

Portfolio(state, items) ==
  [code |-> 200, status |-> Status(state), native |-> balance, assets |-> state,
   items |-> items]

AddressRefused ==
  /\ reading = "request"
  /\ reading' = "done" /\ answer' = Failure(400)
  /\ UNCHANGED <<indexed, balance, page>>

AddressAccepted ==
  /\ reading = "request"
  /\ reading' = "balance"
  /\ UNCHANGED <<indexed, balance, answer, page>>

\* A balance that fails or is no number is null; without an index that is all.
BalanceRead(state) ==
  /\ reading = "balance"
  /\ balance' = state
  /\ reading' = "assets"
  /\ UNCHANGED <<indexed, answer, page>>

AssetsSkipped ==
  /\ reading = "assets" /\ ~indexed
  /\ answer' = Portfolio("UNCONFIGURED", {}) /\ reading' = "done"
  /\ UNCHANGED <<indexed, balance, page>>

AssetsRead(items) ==
  /\ reading = "assets" /\ indexed
  /\ answer' = Portfolio("LIVE", items) /\ reading' = "done"
  /\ UNCHANGED <<indexed, balance, page>>

AssetsFail ==
  /\ reading = "assets" /\ indexed
  /\ answer' = Portfolio("UNAVAILABLE", {}) /\ reading' = "done"
  /\ UNCHANGED <<indexed, balance, page>>

ProxyAnswers ==
  /\ page = NoAnswer /\ answer # NoAnswer
  /\ page' = answer
  /\ UNCHANGED <<indexed, reading, balance, answer>>

\* No API origin, an origin that is the website's own, an API that cannot be
\* reached, or the timeout.
ProxyRefuses(code) ==
  /\ page = NoAnswer
  /\ page' = Failure(code)
  /\ UNCHANGED <<indexed, reading, balance, answer>>

PortfolioNext ==
  \/ AddressRefused \/ AddressAccepted
  \/ \E state \in {"LIVE", "UNAVAILABLE"} : BalanceRead(state)
  \/ AssetsSkipped \/ AssetsFail
  \/ \E items \in SUBSET Items : AssetsRead(items)
  \/ ProxyAnswers
  \/ \E code \in {500, 503} : ProxyRefuses(code)

----------------------------------------------------------------------------
(* Properties. *)

\* A portfolio says LIVE exactly when both of its sources are, UNAVAILABLE when
\* neither is, and lists no assets but those of a live index: the three returns
\* of getWalletPortfolio agree, and a request the proxy gave up on shows none.
PortfolioIsHonest ==
  \/ page = NoAnswer
  \/ page.code # 200
  \/ /\ page.status = "LIVE" <=> page.native = "LIVE" /\ page.assets = "LIVE"
     /\ page.status = "UNAVAILABLE" <=> page.native # "LIVE" /\ page.assets # "LIVE"
     /\ page.items # {} => page.assets = "LIVE"
============================================================================
