---------------------------- MODULE RpcFailover ----------------------------
(***************************************************************************)
(* rpcTransport of services/solana-data.ts and the circuit of each RPC     *)
(* endpoint.  A call chooses its endpoints once, before its first await,   *)
(* and then tries them in the configured order until one answers.  Calls   *)
(* interleave at every attempt, and all of them write the same telemetry.  *)
(*                                                                         *)
(* Endpoints are their positions in rpcCandidates().  Time is kept as what *)
(* is left of it: cooling is the rest of openUntil, zero for null and for  *)
(* a moment in the past.  The failure counter stops at the threshold, the  *)
(* only value it is compared with.                                         *)
(***************************************************************************)
EXTENDS Integers, FiniteSets

CONSTANTS
  EndpointCount,  \* how many endpoints are configured
  Calls,          \* the calls that can be under way at one time
  Threshold,      \* RPC_CIRCUIT_FAILURE_THRESHOLD
  Cooldown,       \* RPC_CIRCUIT_COOLDOWN_MS, in ticks
  MaxAttempts     \* RPC_MAX_FAILOVER_ATTEMPTS

ASSUME RpcAssumption ==
  /\ EndpointCount \in Nat \ {0}
  /\ Threshold \in Nat \ {0}
  /\ Cooldown \in Nat \ {0}
  /\ MaxAttempts \in Nat \ {0}

VARIABLES
  health,     \* rpcEndpointTelemetry
  active,     \* lastRpcEndpointId; 0 is null
  telemetry,  \* the state of providerTelemetry for SOLANA_RPC
  left        \* the endpoints each call may still try; none: no call

Endpoints == 1..EndpointCount

HealthRecords == [failures : 0..Threshold, cooling : 0..Cooldown,
                  state : {"UNKNOWN", "LIVE", "DEGRADED", "OPEN"}]

RpcInit ==
  /\ health = [e \in Endpoints |->
                 [failures |-> 0, cooling |-> 0, state |-> "UNKNOWN"]]
  /\ active = 0
  /\ telemetry = "UNKNOWN"
  /\ left = [c \in Calls |-> {}]

Running(c) == left[c] # {}

\* The endpoint a call is waiting for, and whether it is its last.
Current(c) == CHOOSE e \in left[c] : \A f \in left[c] : e <= f
OnLastAttempt(c) == left[c] = {Current(c)}

Available == {e \in Endpoints : health[e].cooling = 0}

\* Faulty variant (mutant): one attempt too few.
FirstButOne(candidates) ==
  {e \in candidates : Cardinality({f \in candidates : f < e}) < MaxAttempts - 1}

FirstOf(candidates) ==
  {e \in candidates : Cardinality({f \in candidates : f < e}) < MaxAttempts}

\* The endpoints a call that starts now will try: the available ones, or all
\* when every circuit is open, up to the limit.
Attempts == FirstOf(IF Available # {} THEN Available ELSE Endpoints)

\* Faulty variant (mutant): openUntil survives the answer that closes the circuit.
AfterSuccessStillOpen(record) ==
  [failures |-> 0, cooling |-> record.cooling, state |-> "LIVE"]

AfterSuccess(record) == [failures |-> 0, cooling |-> 0, state |-> "LIVE"]

AfterFailure(record) ==
  IF record.failures + 1 >= Threshold
  THEN [failures |-> Threshold, cooling |-> Cooldown, state |-> "OPEN"]
  ELSE [failures |-> record.failures + 1, cooling |-> 0, state |-> "DEGRADED"]

Begin(calls) ==
  /\ left' = [c \in Calls |-> IF c \in calls THEN Attempts ELSE left[c]]
  /\ UNCHANGED <<health, active, telemetry>>

\* The endpoint answers with HTTP 2xx and a JSON body: the call is over.  An
\* error inside the body is not the transport's business.
EndpointAnswers(c) ==
  /\ Running(c)
  /\ health' = [health EXCEPT ![Current(c)] = AfterSuccess(@)]
  /\ active' = Current(c)
  /\ telemetry' = "LIVE"
  /\ left' = [left EXCEPT ![c] = {}]

\* No answer, a bad one, or the abort timer: on to the next endpoint, and after
\* the last one the call throws.
EndpointFails(c) ==
  /\ Running(c)
  /\ health' = [health EXCEPT ![Current(c)] = AfterFailure(@)]
  /\ left' = [left EXCEPT ![c] = @ \ {Current(c)}]
  /\ telemetry' = IF OnLastAttempt(c) THEN "DEGRADED" ELSE telemetry
  /\ UNCHANGED active

Sooner(n) == IF n > 0 THEN n - 1 ELSE 0

CircuitsCool ==
  /\ health' = [e \in Endpoints |-> [health[e] EXCEPT !.cooling = Sooner(@)]]
  /\ UNCHANGED <<active, telemetry, left>>
============================================================================
