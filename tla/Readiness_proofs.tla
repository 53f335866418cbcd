-------------------------- MODULE Readiness_proofs -------------------------
(***************************************************************************)
(* Proofs about Readiness, for every set of providers, every environment,  *)
(* every threshold of the quorum and every size of the SLO window.         *)
(***************************************************************************)
EXTENDS Readiness, FiniteSetTheorems, SequenceTheorems, WellFoundedInduction, TLAPS

----------------------------------------------------------------------------
(* The debounced quorum. *)

\* The counters stay below the thresholds at which they turn the verdict.
QuorumOK ==
  /\ quorum \in QuorumStates
  /\ quorum.effective => quorum.failures < FailureHysteresis
  /\ quorum.initialized /\ ~quorum.effective => quorum.passes < RecoveryHysteresis
  /\ ~quorum.initialized => /\ quorum.effective = FALSE
                            /\ quorum.passes = 0
                            /\ quorum.failures = 0

LEMMA Thresholds ==
  /\ FailureHysteresis \in Nat /\ FailureHysteresis > 0
  /\ RecoveryHysteresis \in Nat /\ RecoveryHysteresis > 0
  BY ProviderAssumption

\* The values of the quorum that the proofs below compare, one by one.
LEMMA QuorumParts ==
  ASSUME QuorumOK
  PROVE  /\ quorum.initialized \in BOOLEAN
         /\ quorum.effective \in BOOLEAN
         /\ quorum.passes \in 0..RecoveryHysteresis
         /\ quorum.failures \in 0..FailureHysteresis
  BY DEF QuorumOK, QuorumStates

LEMMA QuorumBuilt ==
  ASSUME NEW next, NEW verdict \in BOOLEAN,
         NEW passes \in 0..RecoveryHysteresis, NEW failures \in 0..FailureHysteresis,
         next = [initialized |-> TRUE, passes |-> passes, failures |-> failures,
                 effective |-> verdict]
  PROVE  /\ next.initialized = TRUE /\ next.passes = passes
         /\ next.failures = failures /\ next.effective = verdict
         /\ next \in QuorumStates
  BY DEF QuorumStates

\* What one reading may do to the verdict.
Reading(raw) ==
  \/ Debounced!FirstReading(raw)
  \/ Debounced!Agree(raw)
  \/ Debounced!Doubt(raw)
  \/ Debounced!Yield(raw)

\* A reading that meets the quorum.
LEMMA Meets ==
  ASSUME QuorumOK, quorum' = AfterReading(quorum, TRUE)
  PROVE  QuorumOK' /\ Reading(TRUE)
<1> DEFINE passes == IF quorum.passes < RecoveryHysteresis THEN quorum.passes + 1
                     ELSE quorum.passes
           turned == IF ~quorum.initialized THEN TRUE
                     ELSE quorum.effective \/ passes >= RecoveryHysteresis
           contrary == IF quorum.effective THEN quorum.failures ELSE quorum.passes
           patience == [value \in BOOLEAN |->
                          IF value THEN FailureHysteresis ELSE RecoveryHysteresis]
<1>1. quorum' = [initialized |-> TRUE, passes |-> passes, failures |-> 0,
                 effective |-> turned]
  BY DEF AfterReading
<1>2. passes \in 0..RecoveryHysteresis /\ turned \in BOOLEAN
  <2>1. passes \in 0..RecoveryHysteresis
    BY QuorumParts, Thresholds
  <2>2. turned \in BOOLEAN
    BY Zenon
  <2> QED
    BY <2>1, <2>2
<1>3. quorum.initialized /\ ~quorum.effective => passes = quorum.passes + 1
  BY DEF QuorumOK
<1>4. /\ ~quorum.initialized => turned
      /\ quorum.initialized /\ quorum.effective => turned
      /\ quorum.initialized /\ ~quorum.effective =>
           (turned <=> passes >= RecoveryHysteresis)
      /\ ~turned => ~(passes >= RecoveryHysteresis)
  OBVIOUS
<1> HIDE DEF passes, turned
<1>5. /\ quorum'.initialized = TRUE /\ quorum'.passes = passes
      /\ quorum'.failures = 0 /\ quorum'.effective = turned
      /\ quorum' \in QuorumStates
  <2>1. 0 \in 0..FailureHysteresis
    BY Thresholds
  <2> QED
    BY <1>1, <1>2, <2>1, QuorumBuilt, ZenonT(30)
<1>6. QuorumOK'
  <2>1. quorum'.effective => quorum'.failures < FailureHysteresis
    BY <1>5, Thresholds
  <2>2. ~turned => passes < RecoveryHysteresis
    BY <1>2, <1>4, Thresholds
  <2> QED
    BY <1>5, <2>1, <2>2 DEF QuorumOK
<1>7. patience[TRUE] = FailureHysteresis /\ patience[FALSE] = RecoveryHysteresis
  OBVIOUS
<1>8. turned => (IF quorum'.effective THEN quorum'.failures ELSE quorum'.passes) = 0
  BY <1>5
<1>9. ~turned => (IF quorum'.effective THEN quorum'.failures ELSE quorum'.passes) = passes
  BY <1>5
<1> HIDE DEF patience
<1>10. CASE ~quorum.initialized
  <2>1. Debounced!FirstReading(TRUE)
    BY <1>2, <1>4, <1>5, <1>8, <1>10 DEF Debounced!FirstReading
  <2> QED
    BY <1>6, <2>1 DEF Reading
<1>11. CASE quorum.initialized /\ quorum.effective
  <2>1. Debounced!Agree(TRUE)
    BY <1>2, <1>4, <1>5, <1>8, <1>11, QuorumParts DEF Debounced!Agree
  <2> QED
    BY <1>6, <2>1 DEF Reading
<1>12. CASE quorum.initialized /\ ~quorum.effective /\ ~turned
  <2>1. contrary + 1 < RecoveryHysteresis
    BY <1>2, <1>3, <1>4, <1>12, Thresholds
  <2>2. Debounced!Doubt(TRUE)
    BY <1>2, <1>3, <1>5, <1>7, <1>9, <1>12, <2>1, QuorumParts DEF Debounced!Doubt, patience
  <2> QED
    BY <1>6, <2>2 DEF Reading
<1>13. CASE quorum.initialized /\ ~quorum.effective /\ turned
  <2>1. contrary + 1 >= RecoveryHysteresis
    BY <1>2, <1>3, <1>4, <1>13, Thresholds
  <2>2. Debounced!Yield(TRUE)
    BY <1>2, <1>3, <1>5, <1>7, <1>8, <1>13, <2>1, QuorumParts DEF Debounced!Yield, patience
  <2> QED
    BY <1>6, <2>2 DEF Reading
<1> QED
  BY <1>10, <1>11, <1>12, <1>13

\* A reading that misses it.
LEMMA Misses ==
  ASSUME QuorumOK, quorum' = AfterReading(quorum, FALSE)
  PROVE  QuorumOK' /\ Reading(FALSE)
<1> DEFINE failures == IF quorum.failures < FailureHysteresis THEN quorum.failures + 1
                       ELSE quorum.failures
           turned == IF ~quorum.initialized THEN FALSE
                     ELSE quorum.effective /\ failures < FailureHysteresis
           contrary == IF quorum.effective THEN quorum.failures ELSE quorum.passes
           patience == [value \in BOOLEAN |->
                          IF value THEN FailureHysteresis ELSE RecoveryHysteresis]
<1>1. quorum' = [initialized |-> TRUE, passes |-> 0, failures |-> failures,
                 effective |-> turned]
  BY DEF AfterReading
<1>2. failures \in 0..FailureHysteresis /\ turned \in BOOLEAN
  <2>1. failures \in 0..FailureHysteresis
    BY QuorumParts, Thresholds
  <2>2. turned \in BOOLEAN
    BY Zenon
  <2> QED
    BY <2>1, <2>2
<1>3. quorum.effective => failures = quorum.failures + 1
  BY DEF QuorumOK
<1>4. /\ ~quorum.initialized => ~turned
      /\ ~quorum.effective => ~turned
      /\ quorum.initialized /\ quorum.effective =>
           (turned <=> failures < FailureHysteresis)
      /\ turned => failures < FailureHysteresis
  OBVIOUS
<1> HIDE DEF failures, turned
<1>5. /\ quorum'.initialized = TRUE /\ quorum'.passes = 0
      /\ quorum'.failures = failures /\ quorum'.effective = turned
      /\ quorum' \in QuorumStates
  <2>1. 0 \in 0..RecoveryHysteresis
    BY Thresholds
  <2> QED
    BY <1>1, <1>2, <2>1, QuorumBuilt, ZenonT(30)
<1>6. QuorumOK'
  BY <1>2, <1>4, <1>5, Thresholds DEF QuorumOK
<1>7. patience[TRUE] = FailureHysteresis /\ patience[FALSE] = RecoveryHysteresis
  OBVIOUS
<1>8. ~turned => (IF quorum'.effective THEN quorum'.failures ELSE quorum'.passes) = 0
  BY <1>5
<1>9. turned => (IF quorum'.effective THEN quorum'.failures ELSE quorum'.passes) = failures
  BY <1>5
<1> HIDE DEF patience
<1>10. CASE ~quorum.initialized
  <2>1. Debounced!FirstReading(FALSE)
    BY <1>2, <1>4, <1>5, <1>8, <1>10 DEF Debounced!FirstReading
  <2> QED
    BY <1>6, <2>1 DEF Reading
<1>11. CASE quorum.initialized /\ ~quorum.effective
  <2>1. Debounced!Agree(FALSE)
    BY <1>2, <1>4, <1>5, <1>8, <1>11, QuorumParts DEF Debounced!Agree
  <2> QED
    BY <1>6, <2>1 DEF Reading
<1>12. CASE quorum.initialized /\ quorum.effective /\ turned
  <2>1. contrary + 1 < FailureHysteresis
    BY <1>2, <1>3, <1>4, <1>12, Thresholds
  <2>2. Debounced!Doubt(FALSE)
    BY <1>2, <1>3, <1>5, <1>7, <1>9, <1>12, <2>1, QuorumParts DEF Debounced!Doubt, patience
  <2> QED
    BY <1>6, <2>2 DEF Reading
<1>13. CASE quorum.initialized /\ quorum.effective /\ ~turned
  <2>1. contrary + 1 >= FailureHysteresis
    BY <1>2, <1>3, <1>4, <1>13, Thresholds
  <2>2. Debounced!Yield(FALSE)
    BY <1>2, <1>3, <1>5, <1>7, <1>8, <1>13, <2>1, QuorumParts DEF Debounced!Yield, patience
  <2> QED
    BY <1>6, <2>2 DEF Reading
<1> QED
  BY <1>10, <1>11, <1>12, <1>13

\* The quorum changes where the status is read, and nowhere else: before or
\* after the telemetry of the same step.
LEMMA StepOfReading ==
  ASSUME [Next]_vars
  PROVE  UNCHANGED quorum \/ ReadStatus(observed) \/ ReadStatus(observed')
<1>1. CASE UNCHANGED vars
  BY <1>1 DEF vars
<1>2. CASE ProbeArrives \/ OverviewReturns \/ OverviewThrows
  BY <1>2 DEF ProbeArrives, OverviewReturns, OverviewThrows
<1>3. CASE ProgramsReturn
  BY <1>3 DEF ProgramsReturn, Answer
<1>4. CASE MarketIsCached
  BY <1>4 DEF MarketIsCached, Answer
<1>5. CASE MarketIsFetched
  BY <1>5 DEF MarketIsFetched, Answer
<1>6. CASE \E p \in Providers : ProviderAnswers(p) \/ ProviderFails(p)
  BY <1>6 DEF ProviderAnswers, ProviderFails
<1>7. CASE StatusIsRead
  BY <1>7 DEF StatusIsRead
<1>8. CASE RequestAnswered \/ TimePasses \/ CalmsDown
  BY <1>8 DEF RequestAnswered, TimePasses, ProvidersAge, CalmsDown
<1> QED
  BY <1>1, <1>2, <1>3, <1>4, <1>5, <1>6, <1>7, <1>8 DEF Next

LEMMA StepOfQuorum ==
  ASSUME [Next]_vars
  PROVE  UNCHANGED quorum \/ \E telemetry : ReadStatus(telemetry)
  BY StepOfReading

LEMMA ReadingIsAStep ==
  ASSUME QuorumOK, NEW telemetry, ReadStatus(telemetry)
  PROVE  QuorumOK' /\ Reading(RawQuorumMet(telemetry))
<1>1. CASE RawQuorumMet(telemetry)
  <2>1. RawQuorumMet(telemetry) = TRUE
    BY <1>1 DEF RawQuorumMet
  <2> QED
    BY <2>1, Meets DEF ReadStatus
<1>2. CASE ~RawQuorumMet(telemetry)
  <2>1. RawQuorumMet(telemetry) = FALSE
    BY <1>2 DEF RawQuorumMet
  <2> QED
    BY <2>1, Misses DEF ReadStatus
<1> QED
  BY <1>1, <1>2

LEMMA QuorumInvariant == Spec => []QuorumOK
<1>1. Init => QuorumOK
  BY Thresholds DEF Init, ProvidersInit, QuorumOK, QuorumStates
<1>2. QuorumOK /\ [Next]_vars => QuorumOK'
  <2> SUFFICES ASSUME QuorumOK, [Next]_vars PROVE QuorumOK'
    OBVIOUS
  <2>1. CASE UNCHANGED quorum
    BY <2>1 DEF QuorumOK
  <2>2. CASE \E telemetry : ReadStatus(telemetry)
    BY <2>2, ReadingIsAStep
  <2> QED
    BY <2>1, <2>2, StepOfQuorum
<1> QED
  BY <1>1, <1>2, PTL DEF Spec

\* The effective quorum leaves its value only after as many contradicting readings
\* in a row as the thresholds ask for, and then at once, whoever reads and whatever
\* the thresholds are.
THEOREM QuorumImplemented == Spec => QuorumIsDebounced
<1>1. Init => Debounced!Init
  BY DEF Init, ProvidersInit, Debounced!Init
<1>2. QuorumOK /\ [Next]_vars => [Debounced!Next]_(Debounced!vars)
  <2> SUFFICES ASSUME QuorumOK, [Next]_vars PROVE [Debounced!Next]_(Debounced!vars)
    OBVIOUS
  <2>1. CASE UNCHANGED quorum
    BY <2>1 DEF Debounced!vars
  <2>2. CASE \E telemetry : ReadStatus(telemetry)
    <3> PICK telemetry : ReadStatus(telemetry)
      BY <2>2
    <3>1. RawQuorumMet(telemetry) \in BOOLEAN
      BY DEF RawQuorumMet
    <3>2. Reading(RawQuorumMet(telemetry))
      BY ReadingIsAStep
    <3> QED
      BY <3>1, <3>2 DEF Reading, Debounced!Next
  <2> QED
    BY <2>1, <2>2, StepOfQuorum
<1> QED
  BY <1>1, <1>2, QuorumInvariant, PTL DEF Spec, QuorumIsDebounced, Debounced!Spec

\* The effective quorum has come to agree with the readings.
Follows(met) == quorum.initialized /\ quorum.effective = met

Contrary == IF quorum.effective THEN quorum.failures ELSE quorum.passes

Threshold(met) == IF met THEN RecoveryHysteresis ELSE FailureHysteresis

\* While the raw quorum stays as it is, whoever reads reads it.
LEMMA SteadyReading ==
  ASSUME NEW met \in BOOLEAN, [Next]_vars,
         RawQuorumMet(observed) = met, (RawQuorumMet(observed) = met)'
  PROVE  UNCHANGED quorum \/ ReadStatus(observed)
<1>1. setup' = setup
  BY DEF Next, vars, ProbeArrives, OverviewReturns, OverviewThrows, ProgramsReturn,
         MarketIsCached, MarketIsFetched, ProviderAnswers, ProviderFails, StatusIsRead,
         RequestAnswered, TimePasses, ProvidersAge, CalmsDown
<1>2. RawQuorumMet(observed') = met
  BY <1>1 DEF RawQuorumMet, MarketConfigured, Configured
<1>3. UNCHANGED quorum \/ ReadStatus(observed) \/ ReadStatus(observed')
  BY StepOfReading
<1> QED
  BY <1>2, <1>3 DEF ReadStatus

\* The safety half of QuorumFollows: while the raw quorum stays as it is, every
\* read of the status either brings the effective one nearer by a count, below
\* the threshold, or makes it equal; nothing else changes it, and once equal it
\* stays so (getProviderStatus).
THEOREM FollowingLasts ==
  ASSUME NEW met \in BOOLEAN
  PROVE  Spec => []([](RawQuorumMet(observed) = met) =>
           /\ [](Follows(met) => []Follows(met))
           /\ [][/\ quorum' # quorum => ReadStatus(observed)
                 /\ ReadStatus(observed) =>
                      \/ Follows(met)'
                      \/ Contrary' = Contrary + 1 /\ Contrary' < Threshold(met)]_vars)
<1> DEFINE nearer ==
             /\ quorum' # quorum => ReadStatus(observed)
             /\ ReadStatus(observed) =>
                  \/ Follows(met)'
                  \/ Contrary' = Contrary + 1 /\ Contrary' < Threshold(met)
           steady == RawQuorumMet(observed) = met
<1>1. ASSUME QuorumOK, steady, ReadStatus(observed)
      PROVE  \/ Follows(met)'
             \/ /\ ~Follows(met)
                /\ Contrary' = Contrary + 1 /\ Contrary' < Threshold(met)
  <2>1. Reading(met)
    BY <1>1, ReadingIsAStep
  <2>2. CASE Debounced!FirstReading(met) \/ Debounced!Yield(met)
    BY <2>2 DEF Debounced!FirstReading, Debounced!Yield, Follows
  <2>3. CASE Debounced!Agree(met)
    BY <2>3 DEF Debounced!Agree, Follows
  <2>4. CASE Debounced!Doubt(met)
    <3>1. quorum.effective = ~met
      BY <1>1, <2>4, QuorumParts DEF Debounced!Doubt
    <3>2. ~Follows(met)
      BY <2>4 DEF Debounced!Doubt, Follows
    <3>3. Contrary' = Contrary + 1
      BY <2>4 DEF Debounced!Doubt, Contrary
    <3>4. Contrary + 1 < Threshold(met)
      BY <2>4, <3>1 DEF Debounced!Doubt, Contrary, Threshold
    <3> QED
      BY <3>2, <3>3, <3>4
  <2> QED
    BY <2>1, <2>2, <2>3, <2>4 DEF Reading
<1>2. QuorumOK /\ steady /\ steady' /\ [Next]_vars => [nearer]_vars
  BY <1>1, SteadyReading
<1>3. QuorumOK /\ steady /\ steady' /\ [Next]_vars /\ Follows(met) => Follows(met)'
  <2> SUFFICES ASSUME QuorumOK, steady, steady', [Next]_vars, Follows(met)
               PROVE  Follows(met)'
    OBVIOUS
  <2>1. CASE UNCHANGED quorum
    BY <2>1 DEF Follows
  <2>2. CASE ReadStatus(observed)
    BY <1>1, <2>2
  <2> QED
    BY <2>1, <2>2, SteadyReading
<1> QED
  BY <1>2, <1>3, QuorumInvariant, PTL DEF Spec

----------------------------------------------------------------------------
(* Strict readiness. *)

\* A probe comes to the market only where it is asked for, and holds programs it
\* may be ready with only if an RPC endpoint has just answered.
ProbeOK ==
  /\ probe \in Probes
  /\ probe.step = "market" =>
       /\ AsksForMarket
       /\ probe.programs # "unfit" => probe.heard

LEMMA StepKeepsProbe ==
  ASSUME ProbeOK, [Next]_vars
  PROVE  ProbeOK'
<1>1. NoProbe \in Probes /\ NoProbe.step = "idle"
  BY DEF NoProbe, Probes, Grades
<1>2. CASE UNCHANGED vars
  BY <1>2 DEF vars, ProbeOK, AsksForMarket
<1>3. CASE ProbeArrives
  BY <1>1, <1>3 DEF ProbeArrives, ProbeOK, NoProbe, Probes
<1>4. CASE OverviewReturns
  <2>1. PICK grade \in Grades, fetched \in BOOLEAN :
          probe' = [probe EXCEPT !.step = "programs", !.chain = grade,
                                 !.heard = @ \/ fetched]
    BY <1>4 DEF OverviewReturns, Possible, Grades
  <2> QED
    BY <2>1 DEF ProbeOK, Probes, AsksForMarket
<1>5. CASE OverviewThrows
  BY <1>1, <1>5 DEF OverviewThrows, ProbeOK
<1>6. CASE ProgramsReturn
  <2>1. CASE ~AsksForMarket
    BY <1>1, <1>6, <2>1 DEF ProgramsReturn, Answer, ProbeOK
  <2>2. CASE AsksForMarket
    <3>1. PICK grade \in Grades, ok \in BOOLEAN :
            probe' = [probe EXCEPT !.step = "market", !.heard = @ \/ ok,
                                   !.programs = IF ok THEN grade ELSE "unfit"]
      BY <1>6, <2>2 DEF ProgramsReturn, Possible, Grades, MayFail
    <3>2. AsksForMarket'
      BY <1>6, <2>2 DEF ProgramsReturn, AsksForMarket
    <3> QED
      BY <3>1, <3>2 DEF ProbeOK, Probes, Grades
  <2> QED
    BY <2>1, <2>2
<1>7. CASE MarketIsCached \/ MarketIsFetched
  BY <1>1, <1>7 DEF MarketIsCached, MarketIsFetched, Answer, ProbeOK
<1>8. CASE \E p \in Providers : ProviderAnswers(p)
  <2>1. /\ setup' = setup
        /\ probe' = probe \/ probe' = [probe EXCEPT !.heard = probe.step # "idle"]
    BY <1>8 DEF ProviderAnswers, Hears
  <2> QED
    BY <2>1 DEF ProbeOK, Probes, AsksForMarket
<1>9. CASE (\E p \in Providers : ProviderFails(p)) \/ StatusIsRead \/ RequestAnswered
             \/ TimePasses \/ CalmsDown
  BY <1>9 DEF ProviderFails, StatusIsRead, RequestAnswered, TimePasses, ProvidersAge,
       CalmsDown, ProbeOK, AsksForMarket
<1> QED
  BY <1>2, <1>3, <1>4, <1>5, <1>6, <1>7, <1>8, <1>9 DEF Next

LEMMA ProbeInvariant == Spec => []ProbeOK
<1>1. Init => ProbeOK
  BY DEF Init, ProbeOK, NoProbe, Probes, Grades
<1>2. ProbeOK /\ [Next]_vars => ProbeOK'
  BY StepKeepsProbe
<1> QED
  BY <1>1, <1>2, PTL DEF Spec

\* The answer of a strict probe that is not a refusal.
LEMMA StrictAnswer ==
  ASSUME setup.strict, NEW p, NEW telemetry, NEW quote,
         Answer(p, telemetry, quote), answered' # "NOT_READY"
  PROVE  /\ p.programs # "unfit"
         /\ RawQuorumMet(telemetry)
         /\ \A r \in setup.required : Fresh(telemetry[r])
<1>1. Decide(p, telemetry, quote, SloVerdict(Pruned(samples))) # "NOT_READY"
  BY DEF Answer
<1> QED
  BY <1>1 DEF Decide

\* A strict probe never answers 200 on caches and debounced counts alone, for
\* every environment, every set of providers, every quorum and every age the
\* telemetry may have.
THEOREM StrictReadyCorrect == Spec => StrictReadyIsCurrent
<1> DEFINE Heard == probe.heard \/ (probe.step = "programs" /\ observed' = Outcomes({Rpc}, {}))
           Current ==
             /\ setup.strict
             /\ probe.step # "idle" /\ probe'.step = "idle"
             /\ answered' # "NOT_READY"
             => /\ probe.heard \/ (probe.step = "programs" /\ observed' = Outcomes({Rpc}, {}))
                /\ RawQuorumMet(observed')
                /\ \A r \in setup.required : Fresh(observed'[r])
<1>1. ProbeOK /\ [Next]_vars => [Current]_vars
  <2> SUFFICES ASSUME ProbeOK, Next, setup.strict,
                      probe.step # "idle", probe'.step = "idle", answered' # "NOT_READY"
               PROVE  /\ Heard
                      /\ RawQuorumMet(observed')
                      /\ \A r \in setup.required : Fresh(observed'[r])
    OBVIOUS
  <2>1. CASE MarketIsCached
    <3>1. Answer(probe, observed, market) /\ observed' = observed /\ probe.step = "market"
      BY <2>1 DEF MarketIsCached
    <3> QED
      BY <3>1, StrictAnswer DEF ProbeOK
  <2>2. CASE MarketIsFetched
    <3>1. PICK quote : Answer(probe, observed', quote)
      BY <2>2 DEF MarketIsFetched
    <3>2. probe.step = "market"
      BY <2>2 DEF MarketIsFetched
    <3> QED
      BY <3>1, <3>2, StrictAnswer DEF ProbeOK
  <2>3. CASE ProgramsReturn
    <3>1. PICK grade \in Grades, ok \in BOOLEAN :
            LET held == [probe EXCEPT !.step = "market", !.heard = @ \/ ok,
                                      !.programs = IF ok THEN grade ELSE "unfit"]
            IN /\ observed' = IF ok THEN Outcomes({Rpc}, {}) ELSE Outcomes({}, {Rpc})
               /\ probe' = held \/ Answer(held, observed', "none")
      BY <2>3 DEF ProgramsReturn, Possible, Grades, MayFail
    <3> DEFINE held == [probe EXCEPT !.step = "market", !.heard = @ \/ ok,
                                     !.programs = IF ok THEN grade ELSE "unfit"]
    <3>2. held.step = "market" /\ held.programs = IF ok THEN grade ELSE "unfit"
      BY DEF ProbeOK, Probes
    <3> HIDE DEF held
    <3>3. Answer(held, observed', "none")
      BY <3>1, <3>2 DEF held
    <3>4. /\ held.programs # "unfit"
          /\ RawQuorumMet(observed')
          /\ \A r \in setup.required : Fresh(observed'[r])
      BY <3>3, StrictAnswer
    <3>5. Heard
      BY <2>3, <3>1, <3>2, <3>4 DEF ProgramsReturn
    <3> QED
      BY <3>4, <3>5
  <2>4. CASE ProbeArrives \/ OverviewReturns \/ OverviewThrows
    BY <2>4 DEF ProbeArrives, OverviewReturns, OverviewThrows, ProbeOK, Probes
  <2>5. CASE \E p \in Providers : ProviderAnswers(p)
    <3>1. probe' = probe \/ probe' = [probe EXCEPT !.heard = probe.step # "idle"]
      BY <2>5 DEF ProviderAnswers, Hears
    <3> QED
      BY <3>1 DEF ProbeOK, Probes
  <2>6. CASE (\E p \in Providers : ProviderFails(p)) \/ StatusIsRead \/ RequestAnswered
               \/ TimePasses \/ CalmsDown
    BY <2>6 DEF ProviderFails, StatusIsRead, RequestAnswered, TimePasses, CalmsDown
  <2> QED
    BY <2>1, <2>2, <2>3, <2>4, <2>5, <2>6 DEF Next
<1> QED
  BY <1>1, ProbeInvariant, PTL DEF Spec, StrictReadyIsCurrent

----------------------------------------------------------------------------
(* Type correctness. *)

LEMMA LeastIndex ==
  ASSUME NEW S \in SUBSET Nat, S # {}
  PROVE  Min(S) \in S
<1>1. PICK e \in S : \A f \in S : ~(<<f, e>> \in OpToRel(<, Nat))
  BY NatLessThanWellFounded, WFMin
<1>2. \A f \in S : ~(f < e)
  BY <1>1 DEF OpToRel
<1>3. \A f \in S : e <= f
  BY <1>2
<1> QED
  BY <1>3 DEF Min

LEMMA LeastIsLeast ==
  ASSUME NEW S \in SUBSET Nat, S # {}
  PROVE  \A e \in S : Min(S) <= e
<1>1. PICK e \in S : \A f \in S : ~(<<f, e>> \in OpToRel(<, Nat))
  BY NatLessThanWellFounded, WFMin
<1>2. \A f \in S : ~(f < e)
  BY <1>1 DEF OpToRel
<1>3. \A f \in S : e <= f
  BY <1>2
<1> QED
  BY <1>3 DEF Min

\* Samples are kept in order of time, the oldest first.
InOrder(seq) == \A m, n \in 1..Len(seq) : m <= n => seq[m].age >= seq[n].age

IsTail(short, long) ==
  /\ short \in Seq(Samples)
  /\ Len(short) <= Len(long)
  /\ \A n \in 1..Len(short) : short[n] = long[n + (Len(long) - Len(short))]

LEMMA TailsAreInOrder ==
  ASSUME NEW long \in Seq(Samples), InOrder(long), NEW short, IsTail(short, long)
  PROVE  InOrder(short)
<1>1. Len(long) \in Nat /\ Len(short) \in Nat /\ Len(short) <= Len(long)
  BY DEF IsTail
<1>2. \A n \in 1..Len(short) : n + (Len(long) - Len(short)) \in 1..Len(long)
  BY <1>1
<1>3. ASSUME NEW m \in 1..Len(short), NEW n \in 1..Len(short), m <= n
      PROVE  short[m].age >= short[n].age
  <2>1. m + (Len(long) - Len(short)) <= n + (Len(long) - Len(short))
    BY <1>1, <1>3
  <2> QED
    BY <1>2, <2>1 DEF IsTail, InOrder
<1> QED
  BY <1>3 DEF InOrder

LEMMA AgesAreNumbers ==
  ASSUME NEW seq \in Seq(Samples)
  PROVE  \A n \in 1..Len(seq) : seq[n].age \in Nat
<1>1. \A n \in 1..Len(seq) : seq[n] \in Samples
  OBVIOUS
<1>2. \A x \in Samples : x.age \in Nat
  BY SloAssumption DEF Samples
<1> QED
  BY <1>1, <1>2

\* The samples from some index on.
LEMMA LastSamples ==
  ASSUME NEW seq \in Seq(Samples), NEW first \in 1..Len(seq)
  PROVE  /\ IsTail(SubSeq(seq, first, Len(seq)), seq)
         /\ Len(SubSeq(seq, first, Len(seq))) = Len(seq) - first + 1
<1> DEFINE last == SubSeq(seq, first, Len(seq))
<1>1. Len(seq) \in Nat /\ \A i \in first..Len(seq) : seq[i] \in Samples
  OBVIOUS
<1>2. /\ last \in Seq(Samples)
      /\ Len(last) = Len(seq) - first + 1
      /\ \A i \in 1..Len(seq) - first + 1 : last[i] = seq[first + i - 1]
  BY <1>1, SubSeqProperties
<1> HIDE DEF last
<1>3. \A i \in 1..Len(last) : i + (Len(seq) - Len(last)) = first + i - 1
  BY <1>1, <1>2
<1>4. Len(last) <= Len(seq)
  BY <1>1, <1>2
<1>5. IsTail(last, seq)
  BY <1>2, <1>3, <1>4 DEF IsTail
<1> QED
  BY <1>2, <1>5 DEF last

\* What prune leaves of the samples: everything from the first one inside the
\* window on, which in order of time is everything inside the window.
LEMMA PrunedIsExact ==
  ASSUME NEW seq \in Seq(Samples)
  PROVE  /\ IsTail(Pruned(seq), seq)
         /\ InOrder(seq) =>
              LET dropped == Len(seq) - Len(Pruned(seq))
              IN /\ Pruned(seq) = SubSeq(seq, dropped + 1, Len(seq))
                 /\ \A n \in DOMAIN seq : InWindow(seq[n]) <=> n > dropped
<1> DEFINE kept == {i \in DOMAIN seq : InWindow(seq[i])}
<1>1. Len(seq) \in Nat /\ DOMAIN seq = 1..Len(seq)
  OBVIOUS
<1>2. CASE kept = {}
  <2>1. Pruned(seq) = <<>>
    BY <1>2 DEF Pruned
  <2>2. SubSeq(seq, Len(seq) + 1, Len(seq)) = <<>>
    BY <1>1, SubSeqProperties
  <2>3. \A n \in DOMAIN seq : ~InWindow(seq[n]) /\ ~(n > Len(seq))
    BY <1>1, <1>2
  <2>4. Len(seq) - Len(<<>>) = Len(seq)
    BY <1>1
  <2> QED
    BY <1>1, <2>1, <2>2, <2>3, <2>4 DEF IsTail
<1>3. CASE kept # {}
  <2>1. kept \in SUBSET Nat /\ kept \subseteq 1..Len(seq)
    BY <1>1
  <2>2. /\ Min(kept) \in kept /\ Min(kept) \in 1..Len(seq)
        /\ \A i \in kept : Min(kept) <= i
    BY <1>3, <2>1, LeastIndex, LeastIsLeast
  <2>3. Pruned(seq) = SubSeq(seq, Min(kept), Len(seq))
    BY <1>3 DEF Pruned
  <2>4. \A i \in 1..Len(seq) : i \in kept <=> InWindow(seq[i])
    BY <1>1
  <2>5. IsTail(Pruned(seq), seq) /\ Len(Pruned(seq)) = Len(seq) - Min(kept) + 1
    BY <2>2, <2>3, LastSamples
  <2>6. Len(seq) - Len(Pruned(seq)) = Min(kept) - 1
    BY <1>1, <2>2, <2>5
  <2> HIDE DEF kept
  <2>7. ASSUME InOrder(seq), NEW n \in 1..Len(seq)
        PROVE  InWindow(seq[n]) <=> n > Min(kept) - 1
    <3>1. InWindow(seq[n]) => n >= Min(kept)
      BY <2>2, <2>4
    <3>2. CASE n >= Min(kept)
      <4>1. seq[Min(kept)].age >= seq[n].age
        BY <2>2, <2>7, <3>2 DEF InOrder
      <4>2. seq[n].age \in Int /\ seq[Min(kept)].age \in Int /\ Window \in Int
        BY <2>2, SloAssumption, AgesAreNumbers
      <4>3. seq[Min(kept)].age <= Window
        BY <2>2, <2>4 DEF InWindow
      <4> QED
        BY <2>2, <3>2, <4>1, <4>2, <4>3 DEF InWindow
    <3> QED
      BY <2>2, <3>1, <3>2
  <2>8. Min(kept) - 1 + 1 = Min(kept)
    BY <2>2
  <2> QED
    BY <1>1, <2>3, <2>5, <2>6, <2>7, <2>8
<1> QED
  BY <1>2, <1>3

LEMMA NewestIsShort ==
  ASSUME NEW seq \in Seq(Samples)
  PROVE  IsTail(Newest(seq), seq) /\ Len(Newest(seq)) <= MaxSamples
<1>1. MaxSamples \in Nat /\ MaxSamples > 0 /\ Len(seq) \in Nat
  BY SloAssumption
<1>2. CASE Len(seq) > MaxSamples
  <2>1. Newest(seq) = SubSeq(seq, Len(seq) - MaxSamples + 1, Len(seq))
    BY <1>2 DEF Newest
  <2>2. /\ Len(seq) - MaxSamples + 1 \in 1..Len(seq)
        /\ Len(seq) - (Len(seq) - MaxSamples + 1) + 1 = MaxSamples
    BY <1>1, <1>2
  <2>3. IsTail(Newest(seq), seq) /\ Len(Newest(seq)) = MaxSamples
    BY <2>1, <2>2, LastSamples
  <2> QED
    BY <1>1, <2>3
<1>3. CASE ~(Len(seq) > MaxSamples)
  <2>1. Newest(seq) = seq
    BY <1>3 DEF Newest
  <2>2. \A n \in 1..Len(seq) : n + (Len(seq) - Len(seq)) = n
    BY <1>1
  <2> QED
    BY <1>1, <1>3, <2>1, <2>2 DEF IsTail
<1> QED
  BY <1>2, <1>3

SamplesOK(seq) == seq \in Seq(Samples) /\ Len(seq) <= MaxSamples /\ InOrder(seq)

\* A sample is recorded after all the others.
LEMMA SampledIsTyped ==
  ASSUME NEW seq, SamplesOK(seq), NEW path, NEW failed \in BOOLEAN, NEW slow \in BOOLEAN
  PROVE  SamplesOK(Sampled(seq, path, failed, slow))
<1> DEFINE new == [age |-> 0, failed |-> failed, slow |-> slow]
           added == Append(seq, new)
<1>1. new \in Samples /\ new.age = 0
  BY SloAssumption DEF Samples
<1>2. seq \in Seq(Samples) /\ Len(seq) \in Nat
  BY DEF SamplesOK
<1> HIDE DEF new
<1>3. /\ added \in Seq(Samples) /\ Len(added) = Len(seq) + 1
      /\ \A n \in 1..Len(seq) : added[n] = seq[n]
      /\ added[Len(seq) + 1] = new
  BY <1>1, <1>2
<1> HIDE DEF added
<1>4. InOrder(added)
  <2>1. \A n \in 1..Len(added) : added[n].age \in Nat
    BY <1>3, AgesAreNumbers
  <2>2. ASSUME NEW m \in 1..Len(added), NEW n \in 1..Len(added), m <= n
        PROVE  added[m].age >= added[n].age
    <3>1. CASE n = Len(seq) + 1
      BY <1>1, <1>3, <2>1, <3>1
    <3>2. CASE n # Len(seq) + 1
      <4>1. m \in 1..Len(seq) /\ n \in 1..Len(seq)
        BY <1>2, <1>3, <2>2, <3>2
      <4> QED
        BY <1>3, <2>2, <4>1 DEF SamplesOK, InOrder
    <3> QED
      BY <3>1, <3>2
  <2> QED
    BY <2>2 DEF InOrder
<1>5. Pruned(added) \in Seq(Samples) /\ InOrder(Pruned(added))
  BY <1>3, <1>4, PrunedIsExact, TailsAreInOrder DEF IsTail
<1>6. SamplesOK(Newest(Pruned(added)))
  BY <1>5, NewestIsShort, TailsAreInOrder DEF SamplesOK, IsTail
<1> QED
  BY <1>6 DEF Sampled, added, new

LEMMA PrunedIsTyped ==
  ASSUME NEW seq, SamplesOK(seq)
  PROVE  SamplesOK(Pruned(seq))
<1>1. IsTail(Pruned(seq), seq) /\ InOrder(Pruned(seq))
  BY PrunedIsExact, TailsAreInOrder DEF SamplesOK
<1>2. /\ Pruned(seq) \in Seq(Samples) /\ Len(Pruned(seq)) <= Len(seq)
      /\ Len(Pruned(seq)) \in Nat /\ Len(seq) \in Nat /\ MaxSamples \in Nat
      /\ Len(seq) <= MaxSamples
  BY <1>1, SloAssumption DEF SamplesOK, IsTail
<1> QED
  BY <1>1, <1>2 DEF SamplesOK

\* All samples age together, up to the first age outside the window.
LEMMA AgedIsTyped ==
  ASSUME SamplesOK(samples), SamplesAge
  PROVE  SamplesOK(samples')
<1> DEFINE aged(i) == IF InWindow(samples[i]) THEN [samples[i] EXCEPT !.age = @ + 1]
                      ELSE samples[i]
<1>1. /\ Len(samples) \in Nat /\ DOMAIN samples = 1..Len(samples)
      /\ \A i \in 1..Len(samples) : samples[i] \in Samples
  BY DEF SamplesOK
<1>2. \A i \in 1..Len(samples) : aged(i) \in Samples
  BY <1>1, SloAssumption DEF Samples, InWindow
<1>3. samples' = [i \in 1..Len(samples) |-> aged(i)]
  BY <1>1 DEF SamplesAge
<1>4. ASSUME NEW m \in 1..Len(samples), NEW n \in 1..Len(samples), m <= n
      PROVE  aged(m).age >= aged(n).age
  <2>1. /\ samples[m].age \in 0..Window + 1 /\ samples[n].age \in 0..Window + 1
        /\ samples[m].age >= samples[n].age /\ Window \in Nat
    BY <1>1, <1>4, SloAssumption DEF SamplesOK, InOrder, Samples
  <2>2. \A i \in 1..Len(samples) :
          aged(i).age = (IF samples[i].age <= Window THEN samples[i].age + 1 ELSE samples[i].age)
    BY <1>1 DEF InWindow, Samples
  <2> QED
    BY <2>1, <2>2
<1> HIDE DEF aged
<1>5. samples' \in [1..Len(samples) -> Samples]
  BY <1>2, <1>3
<1>6. samples' \in Seq(Samples) /\ Len(samples') = Len(samples)
  BY <1>1, <1>5
<1>7. InOrder(samples')
  BY <1>3, <1>4, <1>6 DEF InOrder
<1> QED
  BY <1>6, <1>7 DEF SamplesOK

LEMMA OutcomesAreTyped ==
  ASSUME observed \in [Providers -> Observations], NEW ok, NEW failed
  PROVE  Outcomes(ok, failed) \in [Providers -> Observations]
<1>1. /\ [state |-> "LIVE", age |-> 0] \in Observations
      /\ [state |-> "DEGRADED", age |-> 0] \in Observations
  BY ProviderAssumption DEF Observations
<1> QED
  BY <1>1 DEF Outcomes

Answers == {"none", "READY", "DEGRADED", "NOT_READY"}

LEMMA AnswerIsTyped ==
  ASSUME SamplesOK(samples), NEW p, NEW telemetry, NEW quote, Answer(p, telemetry, quote)
  PROVE  SamplesOK(samples') /\ answered' \in Answers
<1> DEFINE status == Decide(p, telemetry, quote, SloVerdict(Pruned(samples)))
<1>1. status \in {"READY", "DEGRADED", "NOT_READY"}
  BY DEF Decide
<1>2. answered' = status
      /\ samples' = Sampled(Pruned(samples), "probe", status = "NOT_READY", FALSE)
  BY DEF Answer
<1> HIDE DEF status
<1>3. (status = "NOT_READY") \in BOOLEAN
  OBVIOUS
<1> QED
  BY <1>1, <1>2, <1>3, PrunedIsTyped, SampledIsTyped DEF Answers

\* What the lemmas on the quorum and on the probe leave of TypeOK.
RestOK ==
  /\ setup \in Setups
  /\ observed \in [Providers -> Observations]
  /\ SamplesOK(samples)
  /\ calm \in BOOLEAN
  /\ market \in {"none"} \cup Statuses
  /\ answered \in Answers

LEMMA StepKeepsRest ==
  ASSUME RestOK, [Next]_vars
  PROVE  RestOK'
<1> USE DEF RestOK
<1>1. CASE UNCHANGED vars
  BY <1>1 DEF vars
<1>2. CASE ProbeArrives
  BY <1>2 DEF ProbeArrives, Answers
<1>3. CASE OverviewReturns
  BY <1>3, OutcomesAreTyped DEF OverviewReturns
<1>4. CASE OverviewThrows
  <2>1. SamplesOK(samples')
    BY <1>4, SampledIsTyped DEF OverviewThrows, RecordHttpSample
  <2> QED
    BY <1>4, <2>1, OutcomesAreTyped DEF OverviewThrows, Record, Answers
<1>5. CASE ProgramsReturn
  <2>1. observed' \in [Providers -> Observations] /\ UNCHANGED <<setup, calm, market>>
    BY <1>5, OutcomesAreTyped DEF ProgramsReturn
  <2>2. CASE AsksForMarket
    BY <1>5, <2>1, <2>2 DEF ProgramsReturn
  <2>3. CASE ~AsksForMarket
    <3>1. \E p, telemetry : Answer(p, telemetry, "none")
      BY <1>5, <2>3 DEF ProgramsReturn
    <3> QED
      BY <2>1, <3>1, AnswerIsTyped
  <2> QED
    BY <2>2, <2>3
<1>6. CASE MarketIsCached
  BY <1>6, AnswerIsTyped DEF MarketIsCached
<1>7. CASE MarketIsFetched
  <2>1. PICK ok \in SUBSET Configured, quote \in {"ERROR", "LIVE", "DEGRADED"} :
          /\ observed' = Outcomes(ok, Configured \ ok)
          /\ market' = IF quote = "ERROR" THEN "none" ELSE quote
          /\ Answer(probe, observed', quote)
    BY <1>7 DEF MarketIsFetched
  <2>2. SamplesOK(samples') /\ answered' \in Answers
    BY <2>1, AnswerIsTyped
  <2>3. observed' \in [Providers -> Observations]
    BY <2>1, OutcomesAreTyped
  <2>4. market' \in {"none"} \cup Statuses /\ UNCHANGED <<setup, calm>>
    BY <1>7, <2>1 DEF MarketIsFetched, Statuses
  <2> QED
    BY <2>2, <2>3, <2>4
<1>8. CASE \E p \in Providers : ProviderAnswers(p) \/ ProviderFails(p)
  BY <1>8, OutcomesAreTyped DEF ProviderAnswers, ProviderFails, Record
<1>9. CASE StatusIsRead
  BY <1>9 DEF StatusIsRead
<1>10. CASE RequestAnswered
  <2>1. SamplesOK(samples')
    BY <1>10, SampledIsTyped DEF RequestAnswered, RecordHttpSample
  <2> QED
    BY <1>10, <2>1 DEF RequestAnswered
<1>11. CASE TimePasses
  <2>1. SamplesOK(samples')
    BY <1>11, AgedIsTyped DEF TimePasses
  <2>2. observed' \in [Providers -> Observations]
    BY <1>11, ProviderAssumption DEF TimePasses, ProvidersAge, Observations
  <2> QED
    BY <1>11, <2>1, <2>2 DEF TimePasses, ProvidersAge
<1>12. CASE CalmsDown
  BY <1>12 DEF CalmsDown
<1> QED
  BY <1>1, <1>2, <1>3, <1>4, <1>5, <1>6, <1>7, <1>8, <1>9, <1>10, <1>11, <1>12 DEF Next

LEMMA RestInvariant == Spec => []RestOK
<1>1. Init => RestOK
  <2>1. SamplesOK(<<>>)
    BY SloAssumption DEF SamplesOK, InOrder
  <2>2. [state |-> "UNKNOWN", age |-> 0] \in Observations
    BY ProviderAssumption DEF Observations
  <2> QED
    BY <2>1, <2>2 DEF Init, ProvidersInit, RestOK, Answers
<1>2. RestOK /\ [Next]_vars => RestOK'
  BY StepKeepsRest
<1> QED
  BY <1>1, <1>2, PTL DEF Spec

\* The type invariant, for every size of the window and every threshold.
THEOREM ReadinessTypeCorrect == Spec => []TypeOK
<1>1. RestOK /\ QuorumOK /\ ProbeOK => TypeOK
  BY DEF RestOK, QuorumOK, ProbeOK, TypeOK, SamplesOK, Answers
<1> QED
  BY <1>1, RestInvariant, QuorumInvariant, ProbeInvariant, PTL

\* No verdict counts a request outside the window or leaves one inside it out:
\* samples are recorded and age in order of time, so shifting them from the
\* front finds all that expired.
THEOREM WindowCorrect == Spec => []WindowIsExact
<1>1. RestOK => WindowIsExact
  BY PrunedIsExact DEF RestOK, SamplesOK, WindowIsExact
<1> QED
  BY <1>1, RestInvariant, PTL

----------------------------------------------------------------------------
(* After the outage. *)

\* Nothing of the outage is left that a strict service without the SLO gate could
\* refuse for: not in the market snapshot, the probe under way or the last answer.
Recovered ==
  /\ calm /\ AsksForMarket /\ setup.required \subseteq Configured /\ ~setup.slo
  /\ Cardinality(MarketConfigured) >= setup.quorum
  /\ market # "none" => market = "LIVE" /\ \A p \in Configured : Fresh(observed[p])
  /\ probe.step \in {"programs", "market"} => probe.chain = "live"
  /\ probe.step = "market" => probe.programs = "live"
  /\ answered \in {"none", "READY"}

\* A strict probe that holds live dependencies and finds everybody fresh.
LEMMA SoundAnswer ==
  ASSUME TypeOK, ProbeOK, Recovered, probe.step = "market", NEW telemetry,
         \A p \in Configured : Fresh(telemetry[p]),
         Answer(probe, telemetry, "LIVE")
  PROVE  answered' = "READY" /\ probe' = NoProbe
<1>1. Rpc \in Configured
  BY ReadinessAssumption DEF TypeOK, Configured
<1>2. {p \in MarketConfigured : Fresh(telemetry[p])} = MarketConfigured
  BY DEF MarketConfigured
<1>3. RawQuorumMet(telemetry)
  BY <1>2 DEF RawQuorumMet, Recovered
<1>4. \A p \in Configured : Reported(telemetry[p]) = "LIVE"
  BY DEF Reported, Fresh
<1>5. {Reported(telemetry[p]) : p \in Configured} = {"LIVE"}
  BY <1>1, <1>4
<1>6. ServiceStatus(telemetry) = "LIVE"
  BY <1>3, <1>5 DEF ServiceStatus
<1>7. /\ probe.chain = "live" /\ probe.programs = "live" /\ ~setup.slo
      /\ \A r \in setup.required : r \in Configured /\ Fresh(telemetry[r])
  BY DEF Recovered
<1> QED
  BY <1>3, <1>6, <1>7 DEF Answer, Decide

\* Answers make nobody stale.
LEMMA AnswersAreFresh ==
  ASSUME NEW ok, NEW p \in Providers
  PROVE  /\ p \in ok => Fresh(Outcomes(ok, {})[p])
         /\ Fresh(observed[p]) => Fresh(Outcomes(ok, {})[p])
<1>1. 0 <= MaxAge
  BY ProviderAssumption
<1>2. Fresh([state |-> "LIVE", age |-> 0])
  BY <1>1 DEF Fresh
<1>3. p \in ok => Outcomes(ok, {})[p] = [state |-> "LIVE", age |-> 0]
  BY DEF Outcomes
<1>4. p \notin ok => Outcomes(ok, {})[p] = observed[p]
  BY DEF Outcomes
<1> QED
  BY <1>2, <1>3, <1>4

LEMMA RecoveryStep ==
  ASSUME TypeOK, ProbeOK, Recovered, [Next]_vars
  PROVE  Recovered'
<1> DEFINE fit(p) == /\ p.step \in {"programs", "market"} => p.chain = "live"
                     /\ p.step = "market" => p.programs = "live"
           covered == market # "none" =>
                        market = "LIVE" /\ \A p \in Configured : Fresh(observed[p])
<1>1. /\ fit(NoProbe) /\ fit(probe) /\ probe \in Probes
      /\ calm /\ AsksForMarket /\ ~MayFail /\ covered
      /\ answered \in {"none", "READY"}
  BY DEF NoProbe, Recovered, MayFail, ProbeOK
<1>2. Configured \subseteq Providers
  BY ProviderAssumption DEF TypeOK, Configured
<1>3. SUFFICES /\ calm' = calm /\ setup' = setup
               /\ covered' /\ fit(probe')
               /\ answered' \in {"none", "READY"}
  BY DEF Recovered, AsksForMarket, MarketConfigured, Configured
<1>4. CASE UNCHANGED vars
  BY <1>1, <1>4 DEF vars, Configured
<1>5. CASE ProbeArrives
  BY <1>1, <1>5 DEF ProbeArrives, NoProbe, Configured
<1>6. CASE OverviewReturns
  <2>1. PICK grade \in {"live"}, fetched \in BOOLEAN :
          /\ probe' = [probe EXCEPT !.step = "programs", !.chain = grade,
                                    !.heard = @ \/ fetched]
          /\ observed' = IF fetched THEN Outcomes({Rpc}, {}) ELSE observed
    BY <1>1, <1>6 DEF OverviewReturns, Possible
  <2>2. UNCHANGED <<setup, calm, market, answered>>
    BY <1>6 DEF OverviewReturns
  <2>3. fit(probe')
    BY <1>1, <2>1 DEF Probes
  <2>4. covered'
    BY <1>1, <1>2, <2>1, <2>2, AnswersAreFresh DEF Configured
  <2> QED
    BY <1>1, <2>2, <2>3, <2>4
<1>7. CASE OverviewThrows
  BY <1>1, <1>7 DEF OverviewThrows
<1>8. CASE ProgramsReturn
  <2>1. PICK grade \in {"live"}, ok \in {TRUE} :
          /\ observed' = IF ok THEN Outcomes({Rpc}, {}) ELSE Outcomes({}, {Rpc})
          /\ probe' = [probe EXCEPT !.step = "market", !.heard = @ \/ ok,
                                    !.programs = IF ok THEN grade ELSE "unfit"]
          /\ UNCHANGED answered
    BY <1>1, <1>8 DEF ProgramsReturn, Possible
  <2>2. UNCHANGED <<setup, calm, market>> /\ probe.step = "programs"
    BY <1>8 DEF ProgramsReturn
  <2>3. fit(probe')
    BY <1>1, <2>1, <2>2 DEF Probes
  <2>4. covered'
    BY <1>1, <1>2, <2>1, <2>2, AnswersAreFresh DEF Configured
  <2> QED
    BY <1>1, <2>1, <2>2, <2>3, <2>4
<1>9. CASE MarketIsCached
  <2>1. /\ probe.step = "market" /\ market # "none"
        /\ Answer(probe, observed, market)
        /\ UNCHANGED <<setup, observed, calm, market>>
    BY <1>9 DEF MarketIsCached
  <2>2. answered' = "READY" /\ probe' = NoProbe
    BY <1>1, <2>1, SoundAnswer
  <2> QED
    BY <1>1, <2>1, <2>2 DEF Configured
<1>10. CASE MarketIsFetched
  <2>1. PICK ok \in SUBSET Configured, quote \in {"ERROR", "LIVE", "DEGRADED"} :
          /\ ok = Configured /\ (ok # {Rpc} => quote = "LIVE")
          /\ observed' = Outcomes(ok, Configured \ ok)
          /\ market' = IF quote = "ERROR" THEN "none" ELSE quote
          /\ Answer(probe, observed', quote)
    BY <1>1, <1>10 DEF MarketIsFetched
  <2>2. UNCHANGED <<setup, calm>> /\ probe.step = "market"
    BY <1>10 DEF MarketIsFetched
  <2>3. Configured # {Rpc}
    <3>1. MarketConfigured # {}
      <4>1. setup.quorum \in Nat \ {0}
        BY ProviderAssumption DEF TypeOK
      <4> QED
        BY <4>1, FS_EmptySet DEF Recovered
    <3> QED
      BY <3>1, ReadinessAssumption DEF MarketConfigured
  <2>4. quote = "LIVE" /\ observed' = Outcomes(Configured, {})
    BY <2>1, <2>3
  <2>5. \A p \in Configured : Fresh(observed'[p])
    BY <1>2, <2>4, AnswersAreFresh
  <2>6. answered' = "READY" /\ probe' = NoProbe
    BY <2>1, <2>2, <2>4, <2>5, SoundAnswer
  <2> QED
    BY <1>1, <2>1, <2>2, <2>4, <2>5, <2>6 DEF Configured
<1>11. ASSUME NEW p \in Providers, ProviderAnswers(p)
       PROVE  /\ calm' = calm /\ setup' = setup
              /\ covered' /\ fit(probe')
              /\ answered' \in {"none", "READY"}
  <2>1. /\ observed' = Outcomes({p}, {})
        /\ probe' = probe \/ probe' = [probe EXCEPT !.heard = probe.step # "idle"]
        /\ UNCHANGED <<setup, calm, market, answered>>
    BY <1>11 DEF ProviderAnswers, Record, Hears
  <2>2. covered'
    BY <1>1, <1>2, <2>1, AnswersAreFresh DEF Configured
  <2>3. fit(probe')
    BY <1>1, <2>1 DEF Probes
  <2> QED
    BY <1>1, <2>1, <2>2, <2>3
<1>12. CASE StatusIsRead \/ RequestAnswered
  BY <1>1, <1>12 DEF StatusIsRead, RequestAnswered, Configured
<1>13. CASE TimePasses
  BY <1>1, <1>13 DEF TimePasses, ProvidersAge
<1>14. CASE CalmsDown \/ \E p \in Providers : ProviderFails(p)
  BY <1>1, <1>14 DEF CalmsDown, ProviderFails
<1> QED
  BY <1>4, <1>5, <1>6, <1>7, <1>8, <1>9, <1>10, <1>11, <1>12, <1>13, <1>14 DEF Next

\* The safety of recovery: once the traces of an outage are gone a strict service
\* answers READY to every probe for as long as nothing fails, however often the
\* market snapshot and the telemetry expire (app.ts, /ready).
THEOREM RecoveryLasts ==
  Spec => [](Recovered => [](Recovered /\ answered \in {"none", "READY"}))
<1>1. TypeOK /\ ProbeOK /\ Recovered /\ [Next]_vars => Recovered'
  BY RecoveryStep
<1>2. Recovered => answered \in {"none", "READY"}
  BY DEF Recovered
<1> QED
  BY <1>1, <1>2, ReadinessTypeCorrect, ProbeInvariant, PTL DEF Spec

----------------------------------------------------------------------------
(* The window after the outage. *)

\* Every sample the window still holds is one of a request that went well.
Forgiven ==
  /\ calm
  /\ \A n \in DOMAIN samples :
       InWindow(samples[n]) => ~samples[n].failed /\ ~samples[n].slow

\* The end of a sequence, and a sample the calm world adds to it.
LEMMA PrunedIsIdempotent ==
  ASSUME NEW seq \in Seq(Samples), InOrder(seq)
  PROVE  Pruned(Pruned(seq)) = Pruned(seq)
<1> DEFINE tail == Pruned(seq)
           dropped == Len(seq) - Len(tail)
<1>1. /\ IsTail(tail, seq) /\ tail \in Seq(Samples) /\ Len(tail) \in Nat
      /\ Len(seq) \in Nat /\ Len(tail) <= Len(seq)
      /\ \A n \in 1..Len(seq) : InWindow(seq[n]) <=> n > dropped
  BY PrunedIsExact DEF IsTail
<1> HIDE DEF tail
<1>2. \A n \in 1..Len(tail) : InWindow(tail[n])
  <2>1. \A n \in 1..Len(tail) : /\ n + dropped \in 1..Len(seq)
                                /\ n + dropped > dropped
                                /\ tail[n] = seq[n + dropped]
    BY <1>1 DEF IsTail
  <2> QED
    BY <1>1, <2>1
<1>3. InOrder(tail)
  BY <1>1, TailsAreInOrder
<1>4. Len(tail) - Len(Pruned(tail)) = 0
  <2>1. /\ Len(Pruned(tail)) \in Nat /\ Len(Pruned(tail)) <= Len(tail)
        /\ \A n \in 1..Len(tail) : InWindow(tail[n]) <=> n > Len(tail) - Len(Pruned(tail))
    BY <1>1, <1>3, PrunedIsExact DEF IsTail
  <2>2. CASE Len(tail) = 0
    BY <1>1, <2>1, <2>2
  <2>3. CASE Len(tail) # 0
    <3>1. 1 \in 1..Len(tail)
      BY <1>1, <2>3
    <3>2. 1 > Len(tail) - Len(Pruned(tail))
      BY <1>2, <2>1, <3>1
    <3> QED
      BY <1>1, <2>1, <3>2
  <2> QED
    BY <2>2, <2>3
<1>5. Pruned(tail) = SubSeq(tail, 1, Len(tail))
  BY <1>1, <1>3, <1>4, PrunedIsExact
<1>6. SubSeq(tail, 1, Len(tail)) = tail
  BY <1>1, SubSeqFull
<1> QED
  BY <1>5, <1>6 DEF tail

Clean(sample) == InWindow(sample) => ~sample.failed /\ ~sample.slow

AllClean(seq) == \A n \in 1..Len(seq) : Clean(seq[n])

LEMMA TailsAreClean ==
  ASSUME NEW long \in Seq(Samples), AllClean(long), NEW short, IsTail(short, long)
  PROVE  AllClean(short)
<1>1. \A n \in 1..Len(short) : n + (Len(long) - Len(short)) \in 1..Len(long)
  BY DEF IsTail
<1> QED
  BY <1>1 DEF IsTail, AllClean

LEMMA CleanSamplesAdded ==
  ASSUME NEW seq, SamplesOK(seq), AllClean(seq), NEW path,
         NEW failed \in BOOLEAN, Counts(path) => ~failed
  PROVE  AllClean(Sampled(seq, path, failed, FALSE))
<1> DEFINE new == [age |-> 0, failed |-> failed, slow |-> FALSE]
           added == Append(seq, new)
<1>1. CASE ~Counts(path)
  BY <1>1 DEF Sampled
<1>2. CASE Counts(path)
  <2>1. /\ new \in Samples /\ Clean(new) /\ seq \in Seq(Samples)
    BY <1>2, SloAssumption DEF Samples, Clean, SamplesOK
  <2> HIDE DEF new
  <2>2. /\ added \in Seq(Samples) /\ Len(added) = Len(seq) + 1
        /\ \A n \in 1..Len(seq) : added[n] = seq[n]
        /\ added[Len(seq) + 1] = new
    BY <2>1
  <2>3. AllClean(added)
    BY <2>1, <2>2 DEF AllClean
  <2> HIDE DEF added
  <2>4. Pruned(added) \in Seq(Samples) /\ AllClean(Pruned(added))
    BY <2>2, <2>3, PrunedIsExact, TailsAreClean DEF IsTail
  <2>5. AllClean(Newest(Pruned(added)))
    BY <2>4, NewestIsShort, TailsAreClean
  <2> QED
    BY <1>2, <2>5 DEF Sampled, added, new
<1> QED
  BY <1>1, <1>2

\* A window without failed and slow samples is never on the wrong side.
LEMMA CleanWindowIsMet ==
  ASSUME NEW seq \in Seq(Samples), \A n \in 1..Len(seq) : ~seq[n].failed /\ ~seq[n].slow
  PROVE  SloVerdict(seq) # "MISSED"
<1>1. /\ {i \in DOMAIN seq : seq[i].failed} = {}
      /\ {i \in DOMAIN seq : seq[i].slow} = {}
      /\ Len(seq) \in Nat
  OBVIOUS
<1>2. Cardinality({}) = 0
  BY FS_EmptySet
<1>3. /\ 100 * (Len(seq) - 0) >= AvailabilityTarget * Len(seq)
      /\ Len(seq) - 0 >= (95 * Len(seq) + 99) \div 100
  <2> DEFINE n == Len(seq)
  <2>0. n \in Nat /\ AvailabilityTarget \in 50..100
    BY <1>1, SloAssumption
  <2> HIDE DEF n
  <2>1. AvailabilityTarget * n <= 100 * n
    BY <2>0
  <2>2. n >= (95 * n + 99) \div 100
    BY <2>0
  <2> QED
    BY <2>0, <2>1, <2>2 DEF n
<1>4. Len(seq) < MinSamples \/ Len(seq) >= MinSamples
  BY <1>1, SloAssumption
<1> QED
  BY <1>1, <1>2, <1>3, <1>4 DEF SloVerdict

LEMMA ForgivenStep ==
  ASSUME TypeOK, RestOK, Forgiven, [Next]_vars
  PROVE  Forgiven'
<1>1. /\ calm /\ ~MayFail /\ SamplesOK(samples) /\ AllClean(samples)
      /\ \A seq : SamplesOK(seq) => seq \in Seq(Samples)
  BY DEF Forgiven, MayFail, RestOK, SamplesOK, AllClean, Clean
<1>2. SUFFICES calm' = calm /\ SamplesOK(samples') /\ AllClean(samples')
  BY <1>1 DEF Forgiven, SamplesOK, AllClean, Clean
<1>3. ASSUME NEW p, NEW telemetry, NEW quote, Answer(p, telemetry, quote)
      PROVE  SamplesOK(samples') /\ AllClean(samples')
  <2>1. \E failed \in BOOLEAN : samples' = Sampled(Pruned(samples), "probe", failed, FALSE)
    BY <1>3 DEF Answer
  <2>2. SamplesOK(Pruned(samples)) /\ AllClean(Pruned(samples))
    BY <1>1, PrunedIsTyped, PrunedIsExact, TailsAreClean
  <2>3. ~Counts("probe")
    BY DEF Counts
  <2> QED
    BY <2>1, <2>2, <2>3 DEF Sampled
<1>4. CASE UNCHANGED <<calm, samples>>
  BY <1>1, <1>4
<1>5. CASE ProgramsReturn \/ MarketIsCached \/ MarketIsFetched
  BY <1>1, <1>3, <1>5 DEF ProgramsReturn, MarketIsCached, MarketIsFetched
<1>6. CASE RequestAnswered
  <2>1. PICK failed \in {FALSE}, slow \in {FALSE} :
          samples' = Sampled(samples, "api", failed, slow)
    BY <1>1, <1>6 DEF RequestAnswered, RecordHttpSample
  <2> QED
    BY <1>1, <1>6, <2>1, SampledIsTyped, CleanSamplesAdded DEF RequestAnswered
<1>7. CASE TimePasses
  <2>1. SamplesOK(samples')
    BY <1>1, <1>7, AgedIsTyped DEF TimePasses
  <2>2. \A n \in 1..Len(samples) :
          Clean(IF InWindow(samples[n]) THEN [samples[n] EXCEPT !.age = @ + 1]
                ELSE samples[n])
    BY <1>1, SloAssumption DEF AllClean, Clean, InWindow, Samples
  <2>3. samples' = [n \in 1..Len(samples) |->
          IF InWindow(samples[n]) THEN [samples[n] EXCEPT !.age = @ + 1] ELSE samples[n]]
    BY <1>1, <1>7 DEF TimePasses, SamplesAge
  <2>4. Len(samples') = Len(samples)
    BY <1>1, <2>1, <2>3
  <2>5. AllClean(samples')
    BY <2>2, <2>3, <2>4 DEF AllClean
  <2> QED
    BY <1>7, <2>1, <2>5 DEF TimePasses
<1>8. CASE OverviewThrows \/ CalmsDown \/ \E p \in Providers : ProviderFails(p)
  BY <1>1, <1>8 DEF OverviewThrows, CalmsDown, ProviderFails
<1>9. UNCHANGED vars \/ ProbeArrives \/ OverviewReturns \/ StatusIsRead
        \/ (\E p \in Providers : ProviderAnswers(p))
      => UNCHANGED <<calm, samples>>
  BY DEF vars, ProbeArrives, OverviewReturns, StatusIsRead, ProviderAnswers
<1> QED
  BY <1>4, <1>5, <1>6, <1>7, <1>8, <1>9 DEF Next

\* The safety of forgiveness: when the failed and slow requests of an outage have
\* left the window, no probe, no expiry and no cut of the window makes the verdict
\* MISSED again while requests go well, for every size of the window and every
\* target of availability (runtime-metrics.ts).
THEOREM ForgivenessLasts ==
  Spec => [](Forgiven => [](SloVerdict(Pruned(samples)) # "MISSED"))
<1>1. TypeOK /\ RestOK /\ Forgiven /\ [Next]_vars => Forgiven'
  BY ForgivenStep
<1>2. RestOK /\ Forgiven => SloVerdict(Pruned(samples)) # "MISSED"
  <2> SUFFICES ASSUME RestOK, Forgiven
               PROVE  SloVerdict(Pruned(samples)) # "MISSED"
    OBVIOUS
  <2> DEFINE dropped == Len(samples) - Len(Pruned(samples))
             tail == Pruned(samples)
  <2>1. /\ samples \in Seq(Samples) /\ Len(samples) \in Nat
        /\ IsTail(tail, samples)
        /\ \A n \in 1..Len(samples) : InWindow(samples[n]) <=> n > dropped
    BY PrunedIsExact DEF RestOK, SamplesOK
  <2> HIDE DEF tail
  <2>2. \A n \in 1..Len(tail) :
          /\ n + (Len(samples) - Len(tail)) \in 1..Len(samples)
          /\ n + (Len(samples) - Len(tail)) > Len(samples) - Len(tail)
    BY <2>1 DEF IsTail
  <2>3. \A n \in 1..Len(tail) : ~tail[n].failed /\ ~tail[n].slow
    <3>1. DOMAIN samples = 1..Len(samples)
      BY <2>1
    <3>2. \A n \in 1..Len(samples) :
            n > Len(samples) - Len(tail) => ~samples[n].failed /\ ~samples[n].slow
      BY <2>1, <3>1 DEF Forgiven, tail
    <3> QED
      BY <2>1, <2>2, <3>2 DEF IsTail
  <2> QED
    BY <2>1, <2>3, CleanWindowIsMet DEF IsTail, tail
<1> QED
  BY <1>1, <1>2, ReadinessTypeCorrect, RestInvariant, PTL DEF Spec

\* "Probes cannot artificially improve or degrade application SLOs": whatever a
\* probe answers, the window is what it was (onResponse, getSloSnapshot).
THEOREM ProbesDoNotCount ==
  Spec => [][answered' # answered => Pruned(samples') = Pruned(samples)]_vars
<1>1. RestOK /\ [Next]_vars
        => [answered' # answered => Pruned(samples') = Pruned(samples)]_vars
  <2> SUFFICES ASSUME RestOK, Next, answered' # answered
               PROVE  Pruned(samples') = Pruned(samples)
    OBVIOUS
  <2>1. ~Counts("probe")
    BY DEF Counts
  <2>2. ASSUME NEW p, NEW telemetry, NEW quote, Answer(p, telemetry, quote)
        PROVE  Pruned(samples') = Pruned(samples)
    <3>1. samples' = Pruned(samples)
      BY <2>1, <2>2 DEF Answer, Sampled
    <3> QED
      BY <3>1, PrunedIsIdempotent DEF RestOK, SamplesOK
  <2>3. CASE ProgramsReturn \/ MarketIsCached \/ MarketIsFetched
    BY <2>2, <2>3 DEF ProgramsReturn, MarketIsCached, MarketIsFetched
  <2>4. CASE ProbeArrives \/ OverviewThrows
    BY <2>1, <2>4 DEF ProbeArrives, OverviewThrows, RecordHttpSample, Sampled
  <2>5. CASE \/ OverviewReturns \/ StatusIsRead \/ RequestAnswered \/ TimePasses \/ CalmsDown
             \/ \E p \in Providers : ProviderAnswers(p) \/ ProviderFails(p)
    BY <2>5 DEF OverviewReturns, StatusIsRead, RequestAnswered, TimePasses, CalmsDown,
         ProviderAnswers, ProviderFails
  <2> QED
    BY <2>3, <2>4, <2>5 DEF Next
<1> QED
  BY <1>1, RestInvariant, PTL DEF Spec
============================================================================
