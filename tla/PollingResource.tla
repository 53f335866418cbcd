-------------------------- MODULE PollingResource --------------------------
(***************************************************************************)
(* hooks/use-polling-resource.ts over PowerChainApiClient.get, which takes *)
(* every status but 2xx for a failure.  Each run of the effect is a chain: *)
(* it waits for a refresh, then for its timer, then for the next refresh.  *)
(* One request serves everybody who waits, and the flag "active" is shared *)
(* by all runs.                                                            *)
(*                                                                         *)
(* The age of the data shown stops at the first tick that is too old.      *)
(***************************************************************************)
EXTENDS Integers

CONSTANTS
  Chains,      \* how often the effect may run
  StaleAfter   \* staleAfterMs, in ticks

ASSUME PollingAssumption == Chains \in Nat \ {0} /\ StaleAfter \in Nat

VARIABLES
  chain,      \* the current run of the effect
  active,
  inFlight,   \* whether a request is under way
  awaiting,   \* the chains that wait for it
  timers,     \* the chains whose timer is set
  age,        \* since lastSuccessMs; -1 before the first success
  stale

pollingVars == <<chain, active, inFlight, awaiting, timers, age, stale>>

PollingInit ==
  /\ chain = 1
  /\ active = TRUE
  /\ inFlight = TRUE
  /\ awaiting = {1}
  /\ timers = {}
  /\ age = -1
  /\ stale = FALSE

\* refresh joins the request under way or starts one.
Refresh(chains) == inFlight' = TRUE /\ awaiting' = awaiting \cup chains

\* Faulty variant (mutant): a chain goes on whether or not it is wanted.
ScheduledAlways == awaiting

Scheduled == IF active THEN awaiting ELSE {}

\* The request is over: its waiters set their timers, if the hook is active.
RequestEnds ==
  /\ inFlight
  /\ inFlight' = FALSE
  /\ awaiting' = {}
  /\ UNCHANGED <<chain, active>>

RequestSucceeds ==
  /\ RequestEnds
  /\ timers' = timers \cup Scheduled
  /\ age' = IF active THEN 0 ELSE age
  /\ stale' = IF active THEN FALSE ELSE stale

\* Faulty variant (mutant): a failure leaves the flag alone.
StaleBefore == stale

\* What a failed request makes of the flag.
StaleNow == IF active /\ age >= 0 THEN age > StaleAfter ELSE stale

RequestFails ==
  /\ RequestEnds
  /\ timers' = timers \cup Scheduled
  /\ stale' = StaleNow
  /\ UNCHANGED age

PollTimerFires(c) ==
  /\ c \in timers
  /\ timers' = timers \ {c}
  /\ Refresh({c})
  /\ UNCHANGED <<chain, active, age, stale>>

\* The page becomes visible, or the user asks.
Kick ==
  /\ active
  /\ Refresh({})
  /\ UNCHANGED <<chain, active, timers, age, stale>>

\* The cleanup clears the timer of its own run, and the next run starts a chain
\* of its own; one that was waiting goes on beside it.
EffectRunsAgain ==
  /\ active
  /\ chain < Chains
  /\ chain' = chain + 1
  /\ timers' = timers \ {chain}
  /\ Refresh({chain + 1})
  /\ UNCHANGED <<active, age, stale>>

PollingUnmounts ==
  /\ active
  /\ active' = FALSE
  /\ timers' = timers \ {chain}
  /\ UNCHANGED <<chain, inFlight, awaiting, age, stale>>

DataAges ==
  /\ age \in 0..StaleAfter
  /\ age' = age + 1
  /\ UNCHANGED <<chain, active, inFlight, awaiting, timers, stale>>

PollingNext ==
  \/ RequestSucceeds \/ RequestFails \/ Kick
  \/ EffectRunsAgain \/ PollingUnmounts \/ DataAges
  \/ \E c \in 1..Chains : PollTimerFires(c)

PollingTypeOK ==
  /\ chain \in 1..Chains
  /\ active \in BOOLEAN /\ inFlight \in BOOLEAN /\ stale \in BOOLEAN
  /\ awaiting \subseteq 1..Chains
  /\ timers \subseteq 1..Chains
  /\ age \in -1..StaleAfter + 1
============================================================================
