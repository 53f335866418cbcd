--------------------------- MODULE ProviderStatus --------------------------
(***************************************************************************)
(* The telemetry of the upstream providers and the status derived from it  *)
(* (services/solana-data.ts).  Every finished request writes what is known *)
(* of its provider; every read of the status judges how fresh that is, and *)
(* moves the debounced quorum.                                             *)
(*                                                                         *)
(* Ages are counted in ticks up to the first one that is too old.  A       *)
(* counter of the quorum stops at the threshold it is compared with.       *)
(***************************************************************************)
EXTENDS Integers, FiniteSets

CONSTANTS
  Providers,           \* the providers of the status
  Market,              \* those that quote prices
  Setups,              \* the environments a process can be started with
  MaxAge,              \* PROVIDER_TELEMETRY_MAX_AGE_SECONDS, in ticks
  FailureHysteresis,   \* PROVIDER_QUORUM_FAILURE_HYSTERESIS
  RecoveryHysteresis   \* PROVIDER_QUORUM_RECOVERY_HYSTERESIS

ASSUME ProviderAssumption ==
  /\ Market \subseteq Providers
  /\ IsFiniteSet(Providers)
  /\ \A s \in Setups : s.configured \subseteq Providers /\ s.quorum \in Nat \ {0}
  /\ MaxAge \in Nat
  /\ FailureHysteresis \in 1..20
  /\ RecoveryHysteresis \in 1..20

VARIABLES
  setup,     \* the environment: who has credentials, REQUIRED_PROVIDER_QUORUM
  observed,  \* providerTelemetry: the last outcome of each provider
  quorum     \* providerQuorumState

Observations == [state : {"UNKNOWN", "LIVE", "DEGRADED"}, age : 0..MaxAge + 1]
Configured == setup.configured
MarketConfigured == Market \cap Configured

QuorumStates == [initialized : BOOLEAN, effective : BOOLEAN,
                 passes : 0..RecoveryHysteresis, failures : 0..FailureHysteresis]

ProvidersInit ==
  /\ setup \in Setups
  /\ observed = [p \in Providers |-> [state |-> "UNKNOWN", age |-> 0]]
  /\ quorum = [initialized |-> FALSE, effective |-> FALSE,
               passes |-> 0, failures |-> 0]

\* Faulty variant (mutant): an answer does not clear an earlier failure.
StickyOutcomes(ok, failed) ==
  [p \in Providers |-> CASE p \in ok /\ observed[p].state # "DEGRADED"
                                         -> [state |-> "LIVE", age |-> 0]
                         [] p \in failed -> [state |-> "DEGRADED", age |-> 0]
                         [] OTHER        -> observed[p]]

\* The outcomes of requests that end at one moment.
Outcomes(ok, failed) ==
  [p \in Providers |-> CASE p \in ok     -> [state |-> "LIVE", age |-> 0]
                          [] p \in failed -> [state |-> "DEGRADED", age |-> 0]
                          [] OTHER        -> observed[p]]

Record(ok, failed) == observed' = Outcomes(ok, failed)

----------------------------------------------------------------------------
(* getProviderStatus. *)

Fresh(known) == known.state = "LIVE" /\ known.age <= MaxAge

\* Stale telemetry is reported as degraded.
Reported(known) ==
  IF known.state = "LIVE" /\ ~Fresh(known) THEN "DEGRADED" ELSE known.state

RawQuorumMet(telemetry) ==
  Cardinality({p \in MarketConfigured : Fresh(telemetry[p])}) >= setup.quorum

\* Faulty variant (mutant): a reading on the verdict's side does not clear the
\* failures counted before it.
ReadWithoutReset(was, raw) ==
  LET count(n, limit) == IF n < limit THEN n + 1 ELSE n
      passes   == IF raw THEN count(was.passes, RecoveryHysteresis) ELSE 0
      failures == IF raw THEN was.failures ELSE count(was.failures, FailureHysteresis)
  IN [initialized |-> TRUE, passes |-> passes, failures |-> failures,
      effective |-> IF ~was.initialized THEN raw
                    ELSE IF raw THEN was.effective \/ passes >= RecoveryHysteresis
                    ELSE was.effective /\ failures < FailureHysteresis]

\* Faulty variant (mutant): the count has to exceed the threshold.
ReadBeyondThreshold(was, raw) ==
  LET count(n, limit) == IF n < limit THEN n + 1 ELSE n
      passes   == IF raw THEN count(was.passes, RecoveryHysteresis) ELSE 0
      failures == IF raw THEN 0 ELSE count(was.failures, FailureHysteresis)
  IN [initialized |-> TRUE, passes |-> passes, failures |-> failures,
      effective |-> IF ~was.initialized THEN raw
                    ELSE IF raw THEN was.effective \/ passes > RecoveryHysteresis
                    ELSE was.effective /\ failures <= FailureHysteresis]

\* What a read of the status makes of the quorum.
AfterReading(was, raw) ==
  LET count(n, limit) == IF n < limit THEN n + 1 ELSE n
      passes   == IF raw THEN count(was.passes, RecoveryHysteresis) ELSE 0
      failures == IF raw THEN 0 ELSE count(was.failures, FailureHysteresis)
  IN [initialized |-> TRUE, passes |-> passes, failures |-> failures,
      effective |-> IF ~was.initialized THEN raw
                    ELSE IF raw THEN was.effective \/ passes >= RecoveryHysteresis
                    ELSE was.effective /\ failures < FailureHysteresis]

ServiceStatus(telemetry) ==
  LET states == {Reported(telemetry[p]) : p \in Configured} IN
  IF "DEGRADED" \in states \/ ~RawQuorumMet(telemetry) THEN "DEGRADED"
  ELSE IF "UNKNOWN" \in states THEN "UNKNOWN"
  ELSE IF states # {} THEN "LIVE" ELSE "UNCONFIGURED"

ReadStatus(telemetry) == quorum' = AfterReading(quorum, RawQuorumMet(telemetry))

ProvidersAge ==
  /\ observed' = [p \in Providers |->
       IF observed[p].state = "LIVE" /\ observed[p].age <= MaxAge
       THEN [observed[p] EXCEPT !.age = @ + 1] ELSE observed[p]]
  /\ UNCHANGED <<setup, quorum>>
============================================================================
