----------------------------- MODULE Readiness -----------------------------
(***************************************************************************)
(* GET /api/v1/ready (app.ts) over the provider telemetry and the SLO      *)
(* window, beside the requests that write both.                            *)
(*                                                                         *)
(* A probe awaits the overview, then the programs and, in strict mode with *)
(* a mint to warm, the market snapshot, and decides at once on what it     *)
(* holds and on the telemetry of that moment.  Of a dependency it keeps a  *)
(* grade: "unfit" forbids readiness, "degraded" only shows in the status.  *)
(*                                                                         *)
(* The world fails as it likes while it is rough; once it is calm, every   *)
(* upstream answers and what it says is sound.                             *)
(***************************************************************************)
EXTENDS ProviderStatus, SloWindow

CONSTANT Rpc  \* SOLANA_RPC, the provider every process has

\* What an environment asks of a strict probe: required, the providers of
\* REQUIRED_HEALTHY_PROVIDERS; slo, READINESS_REQUIRE_SLO; and warm, whether the
\* market must be live: "mint" where it must and there is one to ask for,
\* "missing" where there is none, "waived" by READINESS_REQUIRE_MARKET=false.
ASSUME ReadinessAssumption ==
  /\ Rpc \in Providers \ Market
  /\ \A s \in Setups : /\ Rpc \in s.configured
                       /\ s.required \subseteq Providers
                       /\ s.strict \in BOOLEAN /\ s.slo \in BOOLEAN
                       /\ s.warm \in {"mint", "missing", "waived"}

VARIABLES
  calm,     \* whether the world has stopped failing
  market,   \* the cached market snapshot of the warm mint: its status, or none
  probe,    \* the readiness request under way
  answered  \* the status of the last answer, none while a probe is under way

vars == <<setup, observed, quorum, samples, calm, market, probe, answered>>

Grades == {"unfit", "degraded", "live"}
Statuses == {"LIVE", "DEGRADED"}

\* heard: an RPC endpoint has answered since the probe arrived.
Probes == [step : {"idle", "overview", "programs", "market"}, chain : Grades,
           programs : Grades, heard : BOOLEAN]
NoProbe == [step |-> "idle", chain |-> "unfit", programs |-> "unfit", heard |-> FALSE]

Init ==
  /\ ProvidersInit
  /\ samples = <<>>
  /\ calm = FALSE
  /\ market = "none"
  /\ probe = NoProbe
  /\ answered = "none"

\* What the upstreams can make of a dependency.
Possible(grades) == IF calm THEN {"live"} ELSE grades
MayFail == ~calm

Hears(p) == [p EXCEPT !.heard = p.step # "idle"]

----------------------------------------------------------------------------
(* The decision. *)

\* Faulty variant (mutant): the debounced quorum decides in strict mode.
DecideOnEffectiveQuorum(p, telemetry, quote, slo) ==
  LET providersOk == \A r \in setup.required : r \in Configured /\ Fresh(telemetry[r])
      marketOk    == setup.warm # "waived" => quote = "LIVE"
      sloOk       == setup.slo => slo = "MET"
      ready == /\ p.chain # "unfit"
               /\ setup.strict => /\ p.programs # "unfit"
                                  /\ providersOk
                                  /\ quorum.effective
                                  /\ marketOk
                                  /\ sloOk
  IN CASE ~ready -> "NOT_READY"
       [] ready /\ p.chain = "live" /\ p.programs = "live"
            /\ ServiceStatus(telemetry) = "LIVE" -> "READY"
       [] OTHER -> "DEGRADED"

Decide(p, telemetry, quote, slo) ==
  LET providersOk == \A r \in setup.required : r \in Configured /\ Fresh(telemetry[r])
      marketOk    == setup.warm # "waived" => quote = "LIVE"
      sloOk       == setup.slo => slo = "MET"
      ready == /\ p.chain # "unfit"
               /\ setup.strict => /\ p.programs # "unfit"
                                  /\ providersOk
                                  /\ RawQuorumMet(telemetry)
                                  /\ marketOk
                                  /\ sloOk
  IN CASE ~ready -> "NOT_READY"
       [] ready /\ p.chain = "live" /\ p.programs = "live"
            /\ ServiceStatus(telemetry) = "LIVE" -> "READY"
       [] OTHER -> "DEGRADED"

\* The status and the SLO are read, the answer is sent, and onResponse records
\* it under the path of the probe, which does not count.
Answer(p, telemetry, quote) ==
  LET window == Pruned(samples)
      status == Decide(p, telemetry, quote, SloVerdict(window))
  IN /\ ReadStatus(telemetry)
     /\ answered' = status
     /\ samples' = Sampled(window, "probe", status = "NOT_READY", FALSE)
     /\ probe' = NoProbe

----------------------------------------------------------------------------
(* The steps of a probe. *)

ProbeArrives ==
  /\ probe.step = "idle"
  /\ probe' = [NoProbe EXCEPT !.step = "overview"]
  /\ answered' = "none"
  /\ UNCHANGED <<setup, observed, quorum, samples, calm, market>>

\* From the cache, or from an RPC batch.
OverviewReturns ==
  /\ probe.step = "overview"
  /\ \E grade \in Possible(Grades), fetched \in BOOLEAN :
       /\ probe' = [probe EXCEPT !.step = "programs", !.chain = grade,
                                 !.heard = @ \/ fetched]
       /\ observed' = IF fetched THEN Outcomes({Rpc}, {}) ELSE observed
  /\ UNCHANGED <<setup, quorum, samples, calm, market, answered>>

\* getSolanaOverview throws: NOT_READY without a look at anything else.
OverviewThrows ==
  /\ probe.step = "overview"
  /\ MayFail
  /\ Record({}, {Rpc})
  /\ answered' = "NOT_READY"
  /\ RecordHttpSample("probe", TRUE, FALSE)
  /\ probe' = NoProbe
  /\ UNCHANGED <<setup, quorum, calm, market>>

AsksForMarket == setup.strict /\ setup.warm = "mint"

\* The registry is never cached.  A failed RPC call does not throw: it leaves
\* the required programs unverified.  Unless the market is asked for nothing
\* more is awaited.
ProgramsReturn ==
  /\ probe.step = "programs"
  /\ \E grade \in Possible(Grades), ok \in IF MayFail THEN BOOLEAN ELSE {TRUE} :
       LET telemetry == IF ok THEN Outcomes({Rpc}, {}) ELSE Outcomes({}, {Rpc})
           held == [probe EXCEPT !.step = "market", !.heard = @ \/ ok,
                                 !.programs = IF ok THEN grade ELSE "unfit"]
       IN /\ observed' = telemetry
          /\ IF AsksForMarket
             THEN probe' = held /\ UNCHANGED <<quorum, samples, answered>>
             ELSE Answer(held, telemetry, "none")
  /\ UNCHANGED <<setup, calm, market>>

\* The warm mint is in the cache.
MarketIsCached ==
  /\ probe.step = "market"
  /\ market # "none"
  /\ Answer(probe, observed, market)
  /\ UNCHANGED <<setup, observed, calm, market>>

\* The token supply is read from the chain and every configured provider is
\* asked, those that enrich the snapshot and do not count for the quorum too.
\* Whoever answers may do so without a price.
MarketIsFetched ==
  /\ probe.step = "market"
  /\ market = "none"
  /\ \E ok \in SUBSET Configured, quote \in {"ERROR", "LIVE", "DEGRADED"} :
       /\ Rpc \notin ok \/ ok = {Rpc} => quote = "ERROR"
       /\ calm => ok = Configured /\ (ok # {Rpc} => quote = "LIVE")
       /\ observed' = Outcomes(ok, Configured \ ok)
       /\ market' = IF quote = "ERROR" THEN "none" ELSE quote
       /\ Answer(probe, observed', quote)
  /\ UNCHANGED <<setup, calm>>

----------------------------------------------------------------------------
(* Everything else. *)

\* A request of some other route ends at a provider (fetchJson, rpcTransport).
ProviderAnswers(p) ==
  /\ p \in Configured
  /\ Record({p}, {})
  /\ probe' = IF p = Rpc THEN Hears(probe) ELSE probe
  /\ UNCHANGED <<setup, quorum, samples, calm, market, answered>>

ProviderFails(p) ==
  /\ p \in Configured
  /\ MayFail
  /\ Record({}, {p})
  /\ UNCHANGED <<setup, quorum, samples, calm, market, probe, answered>>

\* GET /api/v1/providers/status.
StatusIsRead ==
  /\ ReadStatus(observed)
  /\ UNCHANGED <<setup, observed, samples, calm, market, probe, answered>>

\* A request of the API is answered (onResponse).  Where readiness does not ask
\* for the SLO the window has no part in it and is left out; a sample that is
\* both failed and slow tells no more than one of each.
RequestAnswered ==
  /\ setup.slo
  /\ \E failed, slow \in IF MayFail THEN BOOLEAN ELSE {FALSE} :
       ~(failed /\ slow) /\ RecordHttpSample("api", failed, slow)
  /\ UNCHANGED <<setup, observed, quorum, calm, market, probe, answered>>

\* The market snapshot lives for a tick.
TimePasses ==
  /\ ProvidersAge
  /\ SamplesAge
  /\ market' = "none"
  /\ UNCHANGED <<calm, probe, answered>>

\* From here on nothing fails, and what was read before has expired.
CalmsDown ==
  /\ ~calm
  /\ calm' = TRUE
  /\ UNCHANGED <<setup, observed, quorum, samples, market, probe, answered>>

----------------------------------------------------------------------------
Next ==
  \/ ProbeArrives \/ OverviewReturns \/ OverviewThrows \/ ProgramsReturn
  \/ MarketIsCached \/ MarketIsFetched
  \/ \E p \in Providers : ProviderAnswers(p) \/ ProviderFails(p)
  \/ StatusIsRead \/ RequestAnswered \/ TimePasses \/ CalmsDown

\* The clock goes on, and the console and the orchestrator go on polling the
\* status and the probe.
Fairness == WF_vars(TimePasses) /\ WF_vars(StatusIsRead) /\ WF_vars(ProbeArrives)

Spec == Init /\ [][Next]_vars
FairSpec == Spec /\ Fairness

----------------------------------------------------------------------------
(* Properties. *)

TypeOK ==
  /\ setup \in Setups
  /\ observed \in [Providers -> Observations]
  /\ quorum \in QuorumStates
  /\ samples \in Seq(Samples) /\ Len(samples) <= MaxSamples
  /\ calm \in BOOLEAN
  /\ market \in {"none"} \cup Statuses
  /\ probe \in Probes
  /\ answered \in {"none", "READY", "DEGRADED", "NOT_READY"}

\* Shifting expired samples from the front leaves exactly those inside the
\* window, because they were appended in order of time: no verdict counts a
\* request that is too old, and none forgets one that is not (prune).
WindowIsExact ==
  LET dropped == Len(samples) - Len(Pruned(samples))
  IN /\ Pruned(samples) = SubSeq(samples, dropped + 1, Len(samples))
     /\ \A n \in DOMAIN samples : InWindow(samples[n]) <=> n > dropped

\* A strict probe that answers 200 was decided on the present: an RPC endpoint
\* answered after the probe arrived, with the programs if not before, although
\* the overview and the market may come from caches; and at the moment of the
\* answer the raw quorum of fresh market providers and every required provider
\* are there.  The debounced quorum never hides their loss.
StrictReadyIsCurrent ==
  [][/\ setup.strict
     /\ probe.step # "idle" /\ probe'.step = "idle"
     /\ answered' # "NOT_READY"
     => /\ probe.heard \/ (probe.step = "programs" /\ observed' = Outcomes({Rpc}, {}))
        /\ RawQuorumMet(observed')
        /\ \A r \in setup.required : Fresh(observed'[r])]_vars

Debounced == INSTANCE DebouncedQuorum WITH
  Patience <- [value \in BOOLEAN |->
                 IF value THEN FailureHysteresis ELSE RecoveryHysteresis],
  read     <- quorum.initialized,
  verdict  <- quorum.effective,
  contrary <- IF quorum.effective THEN quorum.failures ELSE quorum.passes

\* The effective quorum is a DebouncedQuorum of the raw one, whoever reads the
\* status and in whatever order (getProviderStatus).
QuorumIsDebounced == Debounced!Spec

\* When the raw quorum stays as it is, the effective one ends up equal to it, as
\* long as somebody polls.
QuorumFollows ==
  \A met \in BOOLEAN :
    <>[](RawQuorumMet(observed) = met) => <>[](quorum.effective = met)

\* Once the world is calm a strict service without an SLO gate answers READY
\* from some time on, if it asks for the market of a mint and requires providers
\* it has: no failure leaves a trace in the telemetry, the caches or the
\* counters that could hold it back.  Where the market is waived nothing renews
\* the telemetry of its providers, and the service may well refuse for ever.
StrictRecovers ==
  AsksForMarket /\ setup.required \subseteq Configured /\ ~setup.slo /\ <>calm
    => <>[](answered \in {"none", "READY"})

\* An outage leaves the SLO window: once the world is calm the verdict is never
\* MISSED again from some time on, although every probe until then answered
\* 503.  Probes "cannot artificially improve or degrade application SLOs".
SloForgives == <>calm => <>[](SloVerdict(Pruned(samples)) # "MISSED")
============================================================================
