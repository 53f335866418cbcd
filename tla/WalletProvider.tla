--------------------------- MODULE WalletProvider --------------------------
(***************************************************************************)
(* providers/wallet-provider.tsx: the connected wallet, its address and    *)
(* the portfolio shown for it.  Connections, disconnections and loads are  *)
(* awaited without anything that tells their answers apart, so that they   *)
(* take effect in the order they end.                                      *)
(*                                                                         *)
(* At most MaxLoads loads of one address are under way at one time.  The   *)
(* listeners of a wallet are on as soon as it is the current one.          *)
(***************************************************************************)
EXTENDS Integers

CONSTANTS
  Kinds,      \* Phantom, Solflare, Backpack
  Accounts,   \* the addresses their users can choose
  None,
  MaxLoads

ASSUME WalletAssumption ==
  /\ None \notin Kinds \cup Accounts
  /\ MaxLoads \in Nat \ {0}

VARIABLES
  wallet,      \* the current kind
  address,
  preferred,   \* the kind kept in local storage
  portfolio,   \* whose portfolio is shown
  loading,     \* portfolioLoading
  loads,       \* the loads under way for each address
  connecting,  \* how each kind is being connected
  leaving      \* whether a disconnection is awaited

walletVars == <<wallet, address, preferred, portfolio, loading, loads,
                connecting, leaving>>

\* On mount the preferred wallet, if any, is connected silently.
WalletInit ==
  /\ wallet = None
  /\ address = None
  /\ preferred \in Kinds \cup {None}
  /\ portfolio = None
  /\ loading = FALSE
  /\ loads = [a \in Accounts |-> 0]
  /\ connecting = [k \in Kinds |-> IF k = preferred THEN "silently" ELSE "no"]
  /\ leaving = FALSE

Load(a) ==
  /\ loads[a] < MaxLoads
  /\ loads' = [loads EXCEPT ![a] = @ + 1]
  /\ loading' = TRUE

Clear ==
  /\ wallet' = None
  /\ address' = None
  /\ portfolio' = None

ConnectClicked(k) ==
  /\ connecting[k] = "no"
  /\ connecting' = [connecting EXCEPT ![k] = "by click"]
  /\ UNCHANGED <<wallet, address, preferred, portfolio, loading, loads, leaving>>

\* The portfolio of the address before stays until the new one is there.
Connected(k) ==
  /\ connecting[k] # "no"
  /\ connecting' = [connecting EXCEPT ![k] = "no"]
  /\ preferred' = IF connecting[k] = "by click" THEN k ELSE preferred
  /\ wallet' = k
  /\ \E a \in Accounts : address' = a /\ Load(a)
  /\ UNCHANGED <<portfolio, leaving>>

\* Refused, or without a public key.
ConnectionFails(k) ==
  /\ connecting[k] # "no"
  /\ connecting' = [connecting EXCEPT ![k] = "no"]
  /\ UNCHANGED <<wallet, address, preferred, portfolio, loading, loads, leaving>>

AccountChanged ==
  /\ wallet # None
  /\ \E a \in Accounts : address' = a /\ Load(a)
  /\ portfolio' = None
  /\ UNCHANGED <<wallet, preferred, connecting, leaving>>

\* The wallet disconnects, or has no account any more.
WalletLeaves ==
  /\ wallet # None
  /\ Clear
  /\ UNCHANGED <<preferred, loading, loads, connecting, leaving>>

DisconnectClicked ==
  /\ wallet # None
  /\ leaving' = TRUE
  /\ UNCHANGED <<wallet, address, preferred, portfolio, loading, loads, connecting>>

\* What is current by then is cleared, whichever wallet was left.
Disconnected ==
  /\ leaving
  /\ leaving' = FALSE
  /\ preferred' = None
  /\ Clear
  /\ UNCHANGED <<loading, loads, connecting>>

DisconnectionFails ==
  /\ leaving
  /\ leaving' = FALSE
  /\ UNCHANGED <<wallet, address, preferred, portfolio, loading, loads, connecting>>

\* Faulty variant (mutant): a refresh loads the portfolio that is shown.
ShownOne == IF portfolio = None THEN address ELSE portfolio

CurrentOne == address

RefreshClicked ==
  /\ address # None
  /\ Load(CurrentOne)
  /\ UNCHANGED <<wallet, address, preferred, portfolio, connecting, leaving>>

\* A load ends: what it brings is shown, for whatever address it is.
LoadEnds(a) ==
  /\ loads[a] > 0
  /\ loads' = [loads EXCEPT ![a] = @ - 1]
  /\ loading' = FALSE
  /\ portfolio' \in {a, None}
  /\ UNCHANGED <<wallet, address, preferred, connecting, leaving>>

WalletNext ==
  \/ AccountChanged \/ WalletLeaves \/ RefreshClicked
  \/ DisconnectClicked \/ Disconnected \/ DisconnectionFails
  \/ \E k \in Kinds : ConnectClicked(k) \/ Connected(k) \/ ConnectionFails(k)
  \/ \E a \in Accounts : LoadEnds(a)

WalletTypeOK ==
  /\ wallet \in Kinds \cup {None}
  /\ address \in Accounts \cup {None}
  /\ preferred \in Kinds \cup {None}
  /\ portfolio \in Accounts \cup {None}
  /\ loading \in BOOLEAN
  /\ loads \in [Accounts -> 0..MaxLoads]
  /\ connecting \in [Kinds -> {"no", "silently", "by click"}]
  /\ leaving \in BOOLEAN
============================================================================
