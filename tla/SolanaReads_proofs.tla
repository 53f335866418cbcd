------------------------- MODULE SolanaReads_proofs ------------------------
(***************************************************************************)
(* Proofs about SolanaReads, for every number of endpoints, calls and      *)
(* keys, every threshold, limit, cooldown and time to live.                *)
(***************************************************************************)
EXTENDS SolanaReads, FiniteSetTheorems, WellFoundedInduction, TLAPS

----------------------------------------------------------------------------
(* Which endpoint a call tries.                                            *)

\* A set of naturals that is not empty has a least element.
LEMMA LeastNatural ==
  ASSUME NEW S \in SUBSET Nat, S # {}
  PROVE  \E e \in S : \A f \in S : e <= f
<1>1. PICK e \in S : \A f \in S : ~(<<f, e>> \in OpToRel(<, Nat))
  BY NatLessThanWellFounded, WFMin
<1>2. \A f \in S : ~(f < e)
  BY <1>1 DEF OpToRel
<1> QED
  BY <1>2

\* A running call waits for one of the endpoints it may still try.
LEMMA CurrentIsLeft ==
  ASSUME TypeOK, NEW c \in Calls, Running(c)
  PROVE  Current(c) \in left[c] /\ Current(c) \in Endpoints
<1>1. left[c] \in SUBSET Nat /\ left[c] \subseteq Endpoints
  BY DEF TypeOK, Endpoints
<1>2. \E e \in left[c] : \A f \in left[c] : e <= f
  BY <1>1, LeastNatural DEF Running
<1> QED
  BY <1>1, <1>2 DEF Current

\* A call always finds an endpoint to begin with, open circuits or not.
LEMMA AttemptsExist == Attempts \in SUBSET Endpoints /\ Attempts # {}
<1> DEFINE candidates == IF Available # {} THEN Available ELSE Endpoints
<1>1. candidates \subseteq Endpoints /\ candidates # {}
  BY RpcAssumption DEF Available, Endpoints
<1>2. PICK e \in candidates : \A f \in candidates : e <= f
  <2>1. candidates \in SUBSET Nat /\ candidates # {}
    BY <1>1 DEF Endpoints
  <2> HIDE DEF candidates
  <2> QED
    BY <2>1, LeastNatural
<1>3. {f \in candidates : f < e} = {}
  BY <1>1, <1>2 DEF Endpoints
<1>4. Cardinality({f \in candidates : f < e}) = 0
  BY <1>3, FS_EmptySet
<1>5. e \in FirstOf(candidates)
  BY <1>4, RpcAssumption DEF FirstOf
<1> QED
  BY <1>1, <1>5 DEF Attempts, FirstOf

----------------------------------------------------------------------------
(* Type correctness.                                                       *)

LEMMA RecordTypes ==
  ASSUME NEW record \in HealthRecords
  PROVE  AfterSuccess(record) \in HealthRecords /\ AfterFailure(record) \in HealthRecords
  BY RpcAssumption DEF AfterSuccess, AfterFailure, HealthRecords

LEMMA AnswerKeepsType ==
  ASSUME TypeOK, NEW c \in Calls, EndpointAnswers(c)
  PROVE  /\ health' \in [Endpoints -> HealthRecords]
         /\ active' \in 0..EndpointCount
         /\ telemetry' \in {"UNKNOWN", "LIVE", "DEGRADED"}
         /\ left' \in [Calls -> SUBSET Endpoints]
<1>1. Current(c) \in Endpoints
  BY CurrentIsLeft DEF EndpointAnswers
<1>2. AfterSuccess(health[Current(c)]) \in HealthRecords
  BY <1>1, RecordTypes DEF TypeOK
<1> QED
  BY <1>1, <1>2, RpcAssumption DEF TypeOK, EndpointAnswers, Endpoints

LEMMA FailureKeepsType ==
  ASSUME TypeOK, NEW c \in Calls, EndpointFails(c)
  PROVE  /\ health' \in [Endpoints -> HealthRecords]
         /\ active' \in 0..EndpointCount
         /\ telemetry' \in {"UNKNOWN", "LIVE", "DEGRADED"}
         /\ left' \in [Calls -> SUBSET Endpoints]
<1>1. Current(c) \in Endpoints
  BY CurrentIsLeft DEF EndpointFails
<1>2. AfterFailure(health[Current(c)]) \in HealthRecords
  BY <1>1, RecordTypes DEF TypeOK
<1> QED
  BY <1>1, <1>2 DEF TypeOK, EndpointFails

LEMMA CacheTypes ==
  ASSUME TypeOK, NEW k \in Keys,
         TakeOff(k) \/ Land(k) \/ Crash(k) \/ UNCHANGED <<life, inflight>>
  PROVE  life' \in [Keys -> Nat] /\ inflight' \in [Keys -> BOOLEAN]
  BY TtlAssumption DEF TypeOK, TakeOff, Land, Crash

\* Everything the module keeps stays of its type.
THEOREM ReadsTypeCorrect == Spec => []TypeOK
<1>1. Init => TypeOK
  BY RpcAssumption DEF Init, RpcInit, CacheInit, TypeOK, HealthRecords, NoJob, Job, Jobs
<1>2. TypeOK /\ [Next]_vars => TypeOK'
  <2> SUFFICES ASSUME TypeOK, [Next]_vars PROVE TypeOK'
    OBVIOUS
  <2>1. ASSUME NEW k \in Keys, Fetch(k) PROVE TypeOK'
    <3>1. left' \in [Calls -> SUBSET Endpoints]
      BY <2>1, AttemptsExist DEF Fetch, Begin, TypeOK
    <3>2. job' \in [Calls -> Jobs]
      BY <2>1 DEF Fetch, TypeOK, Jobs, Job
    <3>3. UNCHANGED <<health, active, telemetry>>
      BY <2>1 DEF Fetch, Begin
    <3>4. TakeOff(k)
      BY <2>1 DEF Fetch
    <3>5. life' \in [Keys -> Nat] /\ inflight' \in [Keys -> BOOLEAN]
      BY <3>4, CacheTypes
    <3> QED
      BY <3>1, <3>2, <3>3, <3>5 DEF TypeOK
  <2>2. ASSUME NEW k \in Keys, Complete(k) PROVE TypeOK'
    <3>1. life' \in [Keys -> Nat] /\ inflight' \in [Keys -> BOOLEAN]
      BY <2>2, CacheTypes DEF Complete
    <3> QED
      BY <2>2, <3>1 DEF Complete, TypeOK
  <2>3. ASSUME NEW c \in Calls, CallDirectly(c) PROVE TypeOK'
    BY <2>3, AttemptsExist DEF CallDirectly, Begin, TypeOK
  <2>4. ASSUME NEW c \in Calls, Deliver(c)
        PROVE  /\ life' \in [Keys -> Nat] /\ inflight' \in [Keys -> BOOLEAN]
               /\ job' \in [Calls -> Jobs]
    BY <2>4, TtlAssumption DEF Deliver, Land, Crash, TypeOK, NoJob, Job, Jobs
  <2>5. ASSUME NEW c \in Calls, Break(c)
        PROVE  /\ life' \in [Keys -> Nat] /\ inflight' \in [Keys -> BOOLEAN]
               /\ job' \in [Calls -> Jobs]
    <3>1. job[c].about \in Keys \cup {NoKey}
      BY DEF TypeOK, Jobs
    <3> QED
      BY <2>5, <3>1 DEF Break, Crash, TypeOK, NoJob, Job, Jobs
  <2>6. ASSUME NEW c \in Calls, AttemptEnds(c) PROVE TypeOK'
    <3>1. EndpointAnswers(c) \/ EndpointFails(c)
      BY <2>6 DEF AttemptEnds, CallAnswered, CallRejected, CallFailsOver, CallThrows
    <3>2. Deliver(c) \/ Break(c) \/ UNCHANGED <<life, inflight, job>>
      BY <2>6 DEF AttemptEnds, CallAnswered, CallRejected, CallFailsOver, CallThrows
    <3>3. /\ life' \in [Keys -> Nat] /\ inflight' \in [Keys -> BOOLEAN]
          /\ job' \in [Calls -> Jobs]
      BY <3>2, <2>4, <2>5 DEF TypeOK
    <3> QED
      BY <3>1, <3>3, AnswerKeepsType, FailureKeepsType DEF TypeOK
  <2>7. ASSUME TimePasses PROVE TypeOK'
    <3>1. health' \in [Endpoints -> HealthRecords]
      <4>1. ASSUME NEW e \in Endpoints
            PROVE  [health[e] EXCEPT !.cooling = Sooner(@)] \in HealthRecords
        <5>1. health[e] \in HealthRecords
          BY DEF TypeOK
        <5>2. Sooner(health[e].cooling) \in 0..Cooldown
          BY <5>1, RpcAssumption DEF Sooner, HealthRecords
        <5> QED
          BY <5>1, <5>2 DEF HealthRecords
      <4> QED
        BY <2>7, <4>1 DEF TimePasses, CircuitsCool
    <3>2. life' \in [Keys -> Nat]
      BY <2>7 DEF TimePasses, EntriesAge, Hit, TypeOK
    <3> QED
      BY <2>7, <3>1, <3>2 DEF TimePasses, CircuitsCool, EntriesAge, TypeOK
  <2>8. CASE UNCHANGED vars
    BY <2>8 DEF vars, TypeOK
  <2> QED
    BY <2>1, <2>2, <2>3, <2>6, <2>7, <2>8 DEF Next
<1> QED
  BY <1>1, <1>2, PTL DEF Spec

----------------------------------------------------------------------------
(* Circuits.                                                               *)

\* The invariant of one endpoint's record.
Earned(record) ==
  /\ record.cooling > 0 => record.state = "OPEN"
  /\ record.state = "OPEN" <=> record.failures = Threshold
  /\ record.state = "LIVE" => record.failures = 0

LEMMA AnswersKeepEarned ==
  ASSUME NEW record \in HealthRecords, Earned(record)
  PROVE  /\ Earned(AfterSuccess(record))
         /\ Earned(AfterFailure(record))
         /\ Earned([record EXCEPT !.cooling = Sooner(@)])
<1>1. record.failures \in 0..Threshold /\ record.cooling \in 0..Cooldown
  BY DEF HealthRecords
<1>2. Earned(AfterSuccess(record)) /\ Earned(AfterFailure(record))
  BY <1>1, RpcAssumption DEF Earned, AfterSuccess, AfterFailure
<1>3. LET r == [record EXCEPT !.cooling = Sooner(@)] IN
        /\ r.state = record.state /\ r.failures = record.failures
        /\ r.cooling > 0 => record.cooling > 0
  BY <1>1, RpcAssumption DEF Sooner, HealthRecords
<1> QED
  BY <1>2, <1>3 DEF Earned

\* A step changes the record of an endpoint by an answer, a failure or time.
LEMMA StepOfHealth ==
  ASSUME TypeOK, [Next]_vars, NEW e \in Endpoints
  PROVE  health'[e] \in {health[e], AfterSuccess(health[e]), AfterFailure(health[e]),
                         [health[e] EXCEPT !.cooling = Sooner(@)]}
<1>1. ASSUME NEW c \in Calls, AttemptEnds(c)
      PROVE  health'[e] \in {health[e], AfterSuccess(health[e]), AfterFailure(health[e])}
  <2>1. EndpointAnswers(c) \/ EndpointFails(c)
    BY <1>1 DEF AttemptEnds, CallAnswered, CallRejected, CallFailsOver, CallThrows
  <2> QED
    BY <2>1 DEF EndpointAnswers, EndpointFails, TypeOK
<1>2. ASSUME TimePasses
      PROVE  health'[e] = [health[e] EXCEPT !.cooling = Sooner(@)]
  BY <1>2 DEF TimePasses, CircuitsCool
<1>3. ASSUME \/ \E k \in Keys : Fetch(k) \/ Complete(k)
             \/ \E c \in Calls : CallDirectly(c)
             \/ UNCHANGED vars
      PROVE  health'[e] = health[e]
  BY <1>3 DEF Fetch, Complete, CallDirectly, Begin, vars
<1> QED
  BY <1>1, <1>2, <1>3 DEF Next

\* An open circuit has been earned by failures in a row (updateRpcEndpoint),
\* however the answers of concurrent calls interleave.
THEOREM CircuitsSafe == Spec => []OpenCircuitsAreEarned
<1>1. Init => OpenCircuitsAreEarned
  BY RpcAssumption DEF Init, RpcInit, OpenCircuitsAreEarned
<1>2. TypeOK /\ OpenCircuitsAreEarned /\ [Next]_vars => OpenCircuitsAreEarned'
  <2> SUFFICES ASSUME TypeOK, OpenCircuitsAreEarned, [Next]_vars,
                      NEW e \in Endpoints
               PROVE  Earned(health'[e])
    BY DEF OpenCircuitsAreEarned, Earned
  <2>1. health[e] \in HealthRecords /\ Earned(health[e])
    BY DEF TypeOK, OpenCircuitsAreEarned, Earned
  <2> QED
    BY <2>1, StepOfHealth, AnswersKeepEarned
<1> QED
  BY <1>1, <1>2, ReadsTypeCorrect, PTL DEF Spec

----------------------------------------------------------------------------
(* Flights.                                                                *)

\* What OneFlightPerKey says of one key with these awaited calls.
Flight(k, awaited, flying, hit) ==
  /\ awaited # {} => flying
  /\ flying => ~hit
  /\ flying /\ k \notin Enriched => awaited # {}
  /\ Cardinality(awaited) <= Vital[k] + Optional[k]

\* A call that is awaited is one of its key's and of no other's.
LEMMA AwaitedOnce ==
  ASSUME TypeOK, NEW k \in Keys, NEW c \in Calls
  PROVE  /\ c \in Awaited(k) <=> job[c].about = k /\ job[c].role \in {"vital", "optional"}
         /\ c \in Awaited(k)' <=> job'[c] \in {Job(k, "vital"), Job(k, "optional")}
  BY DEF Awaited, Job, TypeOK, Jobs

LEMMA FewAwaited ==
  ASSUME NEW k \in Keys, NEW S, NEW T, IsFiniteSet(S), T \subseteq S,
         Cardinality(S) <= Vital[k] + Optional[k]
  PROVE  Cardinality(T) <= Vital[k] + Optional[k]
<1>1. Cardinality(T) <= Cardinality(S) /\ Cardinality(S) \in Nat /\ Cardinality(T) \in Nat
  BY FS_Subset, FS_CardinalityType
<1> QED
  BY <1>1, ReadsAssumption

LEMMA AwaitedFinite ==
  ASSUME NEW k \in Keys
  PROVE  IsFiniteSet(Awaited(k))
  BY ReadsAssumption, FS_Subset DEF Awaited

\* Which calls run after each step.
LEMMA RunningAfter ==
  ASSUME TypeOK, NEW c \in Calls, NEW d \in Calls
  PROVE  /\ EndpointAnswers(c) /\ d # c /\ Running(d) => Running(d)'
         /\ EndpointFails(c) /\ d # c /\ Running(d) => Running(d)'
         /\ EndpointFails(c) /\ ~OnLastAttempt(c) => Running(c)'
<1>1. ASSUME EndpointFails(c), ~OnLastAttempt(c)
      PROVE  Running(c)'
  <2>1. Current(c) \in left[c] /\ left[c] # {Current(c)}
    BY <1>1, CurrentIsLeft DEF EndpointFails, OnLastAttempt
  <2>2. left'[c] = left[c] \ {Current(c)}
    BY <1>1 DEF EndpointFails, TypeOK
  <2> QED
    BY <2>1, <2>2 DEF Running
<1> QED
  BY <1>1 DEF EndpointAnswers, EndpointFails, Running, TypeOK

LEMMA FetchKeepsFlights ==
  ASSUME TypeOK, OneFlightPerKey, NEW k \in Keys, Fetch(k)
  PROVE  OneFlightPerKey'
<1>1. PICK vitals \in SUBSET Vacant, optionals \in SUBSET Vacant :
        /\ vitals \cap optionals = {}
        /\ Cardinality(vitals) = Vital[k]
        /\ Cardinality(optionals) = Optional[k]
        /\ Begin(vitals \cup optionals)
        /\ job' = [c \in Calls |->
                     CASE c \in vitals    -> Job(k, "vital")
                       [] c \in optionals -> Job(k, "optional")
                       [] OTHER -> job[c]]
  BY DEF Fetch
<1>2. /\ ~Hit(k) /\ ~inflight[k]
      /\ life' = life /\ inflight' = [inflight EXCEPT ![k] = TRUE]
  BY DEF Fetch, Missed, TakeOff
<1>3. /\ vitals \subseteq Calls /\ optionals \subseteq Calls
      /\ \A c \in vitals \cup optionals : ~Running(c)
  BY DEF Vacant
<1>4. \A h \in Keys : Awaited(h) \cap (vitals \cup optionals) = {}
  BY <1>3 DEF OneFlightPerKey
<1>5. ASSUME NEW h \in Keys, h # k
      PROVE  Awaited(h)' = Awaited(h)
  <2>1. ASSUME NEW c \in Calls
        PROVE  c \in Awaited(h)' <=> c \in Awaited(h)
    <3>1. CASE c \in vitals \cup optionals
      BY <3>1, <1>1, <1>4, <1>5 DEF Awaited, Job
    <3>2. CASE c \notin vitals \cup optionals
      BY <3>2, <1>1 DEF Awaited
    <3> QED
      BY <3>1, <3>2
  <2> QED
    BY <2>1 DEF Awaited
<1>6. Awaited(k)' = vitals \cup optionals
  <2>1. Awaited(k) = {}
    BY <1>2 DEF OneFlightPerKey
  <2>2. ASSUME NEW c \in Calls
        PROVE  c \in Awaited(k)' <=> c \in vitals \cup optionals
    <3>1. CASE c \in vitals \cup optionals
      BY <3>1, <1>1 DEF Awaited
    <3>2. CASE c \notin vitals \cup optionals
      BY <3>2, <1>1, <2>1 DEF Awaited
    <3> QED
      BY <3>1, <3>2
  <2> QED
    BY <2>2, <1>3 DEF Awaited
<1>7. Cardinality(vitals \cup optionals) = Vital[k] + Optional[k]
  <2>1. IsFiniteSet(vitals) /\ IsFiniteSet(optionals)
    BY <1>3, ReadsAssumption, FS_Subset
  <2>2. Cardinality(vitals \cup optionals)
          = Cardinality(vitals) + Cardinality(optionals) - Cardinality(vitals \cap optionals)
    BY <2>1, FS_Union
  <2>3. Cardinality(vitals \cap optionals) = 0
    BY <1>1, FS_EmptySet
  <2> QED
    BY <2>2, <2>3, <1>1, ReadsAssumption
<1>8. vitals # {}
  BY <1>1, FS_EmptySet, ReadsAssumption
<1>9. \A c \in Calls : Running(c) \/ c \in vitals \cup optionals => Running(c)'
  BY <1>1, AttemptsExist DEF Begin, Running
<1>10. ASSUME NEW h \in Keys
       PROVE  /\ Flight(h, Awaited(h)', inflight'[h], Hit(h)')
              /\ \A c \in Awaited(h)' : Running(c)'
  <2>1. CASE h = k
    <3>1. Awaited(h)' # {} /\ \A c \in Awaited(h)' : Running(c)'
      BY <2>1, <1>3, <1>6, <1>8, <1>9
    <3>2. inflight'[h] /\ ~Hit(h)'
      BY <2>1, <1>2 DEF Hit, TypeOK
    <3>3. Cardinality(Awaited(h)') <= Vital[h] + Optional[h]
      BY <2>1, <1>6, <1>7, ReadsAssumption
    <3> QED
      BY <3>1, <3>2, <3>3 DEF Flight
  <2>2. CASE h # k
    BY <2>2, <1>2, <1>5, <1>9 DEF Flight, Hit, TypeOK, OneFlightPerKey, Awaited
  <2> QED
    BY <2>1, <2>2
<1> QED
  BY <1>10 DEF OneFlightPerKey, Flight

LEMMA DeliverKeepsFlights ==
  ASSUME TypeOK, OneFlightPerKey, NEW c \in Calls, Deliver(c),
         \A d \in Calls : d # c /\ Running(d) => Running(d)'
  PROVE  OneFlightPerKey'
<1> DEFINE last(h) == h = job[c].about /\ h \notin Enriched /\ Awaited(h) = {c}
<1>1. ASSUME NEW h \in Keys
      PROVE  /\ Awaited(h)' = Awaited(h) \ {c}
             /\ \A d \in Awaited(h)' : Running(d)'
  <2>1. Awaited(h)' = Awaited(h) \ {c}
    BY ReadsAssumption DEF Deliver, Awaited, TypeOK, NoJob, Job, Jobs
  <2> QED
    BY <2>1 DEF OneFlightPerKey, Awaited
<1>2. ASSUME NEW h \in Keys, last(h)
      PROVE  ~inflight'[h]
  BY <1>2 DEF Deliver, Land, Crash, TypeOK
<1>3. ASSUME NEW h \in Keys, ~last(h)
      PROVE  inflight'[h] = inflight[h] /\ Hit(h)' = Hit(h)
  BY <1>3 DEF Deliver, Land, Crash, Hit, TypeOK
<1>4. ASSUME NEW h \in Keys, c \in Awaited(h)
      PROVE  h = job[c].about
  BY <1>4, AwaitedOnce
<1>5. ASSUME NEW h \in Keys
      PROVE  Flight(h, Awaited(h)', inflight'[h], Hit(h)')
  <2>1. Cardinality(Awaited(h)') <= Vital[h] + Optional[h]
    BY <1>1, FewAwaited, AwaitedFinite DEF OneFlightPerKey
  <2>2. CASE last(h)
    BY <2>1, <2>2, <1>1, <1>2 DEF Flight
  <2>3. CASE ~last(h)
    <3>1. inflight'[h] /\ h \notin Enriched => Awaited(h)' # {}
      BY <2>3, <1>1, <1>3, <1>4 DEF OneFlightPerKey
    <3>2. Awaited(h)' # {} => inflight'[h]
      BY <2>3, <1>1, <1>3 DEF OneFlightPerKey
    <3>3. inflight'[h] => ~Hit(h)'
      BY <2>3, <1>3 DEF OneFlightPerKey
    <3> QED
      BY <2>1, <3>1, <3>2, <3>3 DEF Flight
  <2> QED
    BY <2>2, <2>3
<1> QED
  BY <1>1, <1>5 DEF OneFlightPerKey, Flight

LEMMA BreakKeepsFlights ==
  ASSUME TypeOK, OneFlightPerKey, NEW c \in Calls, IsVital(c), Break(c),
         \A d \in Calls : d # c /\ Running(d) => Running(d)'
  PROVE  OneFlightPerKey'
<1> DEFINE k == job[c].about
<1>1. ASSUME NEW h \in Keys, h # k
      PROVE  Awaited(h)' = Awaited(h) /\ c \notin Awaited(h)
  <2>1. c \notin Awaited(h)
    BY <1>1, AwaitedOnce
  <2>2. ASSUME NEW d \in Calls
        PROVE  d \in Awaited(h)' <=> d \in Awaited(h)
    <3>1. job'[d] = CASE d = c -> NoJob
                      [] d # c /\ d \in Awaited(k) -> Job(k, "orphan")
                      [] OTHER -> job[d]
      BY DEF Break
    <3>2. CASE d = c
      BY <3>1, <3>2, <2>1, ReadsAssumption DEF Awaited, NoJob, Job
    <3>3. CASE d # c /\ d \in Awaited(k)
      <4>1. job'[d] = Job(k, "orphan")
        BY <3>1, <3>3
      <4>2. d \notin Awaited(h)
        BY <3>3, <1>1 DEF Awaited, Job
      <4> QED
        BY <4>1, <4>2, <1>1 DEF Awaited, Job
    <3>4. CASE d # c /\ d \notin Awaited(k)
      BY <3>1, <3>4 DEF Awaited
    <3> QED
      BY <3>2, <3>3, <3>4
  <2> QED
    BY <2>1, <2>2 DEF Awaited
<1>2. ASSUME NEW h \in Keys, h = k
      PROVE  Awaited(h)' = {} /\ ~inflight'[h]
  <2>1. ASSUME NEW d \in Calls
        PROVE  job'[d] \notin {Job(h, "vital"), Job(h, "optional")}
    <3>1. job'[d] = CASE d = c -> NoJob
                      [] d # c /\ d \in Awaited(h) -> Job(h, "orphan")
                      [] OTHER -> job[d]
      BY <1>2 DEF Break
    <3> QED
      BY <3>1, <1>2, ReadsAssumption DEF Awaited, NoJob, Job
  <2>2. ~inflight'[h]
    BY <1>2 DEF Break, Crash, TypeOK
  <2> QED
    BY <2>1, <2>2 DEF Awaited
<1>3. ASSUME NEW h \in Keys
      PROVE  (h # k => inflight'[h] = inflight[h]) /\ Hit(h)' = Hit(h)
  BY DEF Break, Crash, Hit, TypeOK
<1>4. ASSUME NEW h \in Keys
      PROVE  /\ Flight(h, Awaited(h)', inflight'[h], Hit(h)')
             /\ \A d \in Awaited(h)' : Running(d)'
  <2>1. CASE h = k
    <3>1. Awaited(h)' = {} /\ ~inflight'[h]
      BY <2>1, <1>2
    <3>2. Cardinality(Awaited(h)') = 0
      BY <3>1, FS_EmptySet
    <3> QED
      BY <3>1, <3>2, ReadsAssumption DEF Flight
  <2>2. CASE h # k
    BY <2>2, <1>1, <1>3 DEF Flight, OneFlightPerKey, Awaited
  <2> QED
    BY <2>1, <2>2
<1> QED
  BY <1>4 DEF OneFlightPerKey, Flight

\* Coalescing: one producer at a time per key, none while its entry is fresh,
\* and no Promise left behind (cached).
THEOREM FlightsSafe == Spec => []OneFlightPerKey
<1>1. Init => OneFlightPerKey
  <2> SUFFICES ASSUME Init, NEW k \in Keys
               PROVE  Awaited(k) = {} /\ ~inflight[k] /\ Cardinality(Awaited(k)) = 0
    BY ReadsAssumption DEF OneFlightPerKey
  <2>1. Awaited(k) = {}
    BY ReadsAssumption DEF Init, Awaited, NoJob, Job
  <2> QED
    BY <2>1, FS_EmptySet DEF Init, CacheInit
<1>2. TypeOK /\ OneFlightPerKey /\ [Next]_vars => OneFlightPerKey'
  <2> SUFFICES ASSUME TypeOK, OneFlightPerKey, [Next]_vars
               PROVE  OneFlightPerKey'
    OBVIOUS
  <2>1. ASSUME NEW k \in Keys, Complete(k)
        PROVE  OneFlightPerKey'
    <3>1. UNCHANGED <<left, job>>
      BY <2>1 DEF Complete
    <3>2. \A h \in Keys : Awaited(h)' = Awaited(h)
      BY <3>1 DEF Awaited
    <3>3. Awaited(k) = {} /\ ~inflight'[k]
      BY <2>1 DEF Complete, Land, Crash, TypeOK
    <3>4. \A h \in Keys : h # k => inflight'[h] = inflight[h] /\ Hit(h)' = Hit(h)
      BY <2>1 DEF Complete, Land, Crash, Hit, TypeOK
    <3>5. \A c \in Calls : Running(c)' = Running(c)
      BY <3>1 DEF Running
    <3> QED
      BY <3>2, <3>3, <3>4, <3>5 DEF OneFlightPerKey, Awaited
  <2>2. ASSUME NEW c \in Calls, CallDirectly(c)
        PROVE  OneFlightPerKey'
    <3>1. UNCHANGED <<life, inflight, job>>
      BY <2>2 DEF CallDirectly
    <3>2. \A d \in Calls : Running(d) => Running(d)'
      BY <2>2, AttemptsExist DEF CallDirectly, Begin, Running
    <3> QED
      BY <3>1, <3>2 DEF OneFlightPerKey, Awaited, Hit
  <2>3. ASSUME NEW c \in Calls, AttemptEnds(c)
        PROVE  OneFlightPerKey'
    <3>1. EndpointAnswers(c) \/ EndpointFails(c)
      BY <2>3 DEF AttemptEnds, CallAnswered, CallRejected, CallFailsOver, CallThrows
    <3>2. \A d \in Calls : d # c /\ Running(d) => Running(d)'
      BY <3>1, RunningAfter
    <3>3. CASE Deliver(c)
      BY <3>2, <3>3, DeliverKeepsFlights
    <3>4. CASE IsVital(c) /\ Break(c)
      BY <3>2, <3>4, BreakKeepsFlights
    <3>5. CASE CallFailsOver(c)
      <4>1. Running(c)'
        BY <3>5, RunningAfter DEF CallFailsOver
      <4>2. UNCHANGED <<life, inflight, job>>
        BY <3>5 DEF CallFailsOver
      <4> QED
        BY <3>2, <4>1, <4>2 DEF OneFlightPerKey, Awaited, Hit
    <3> QED
      BY <2>3, <3>3, <3>4, <3>5 DEF AttemptEnds, CallAnswered, CallRejected, CallThrows
  <2>4. ASSUME TimePasses
        PROVE  OneFlightPerKey'
    <3>1. UNCHANGED <<left, inflight, job>>
      BY <2>4 DEF TimePasses, CircuitsCool, EntriesAge
    <3>2. \A k \in Keys : Hit(k)' => Hit(k)
      BY <2>4 DEF TimePasses, EntriesAge, Hit
    <3> QED
      BY <3>1, <3>2 DEF OneFlightPerKey, Awaited, Running
  <2>5. CASE UNCHANGED vars
    BY <2>5 DEF vars, OneFlightPerKey, Awaited, Running, Hit
  <2> QED
    BY <2>1, <2>2, <2>3, <2>4, <2>5, FetchKeepsFlights DEF Next
<1> QED
  BY <1>1, <1>2, ReadsTypeCorrect, PTL DEF Spec

----------------------------------------------------------------------------
(* Refinement.                                                             *)

\* A flight starts only where there is no fresh entry, and an entry is made
\* only by the flight of its key.
LEMMA StepOfKey ==
  ASSUME TypeOK, OneFlightPerKey, [Next]_vars, NEW k \in Keys
  PROVE  /\ inflight'[k] => inflight[k] \/ ~Hit(k)
         /\ Hit(k)' => Hit(k) \/ inflight[k]
<1>1. ASSUME NEW h \in Keys, Fetch(h)
      PROVE  /\ inflight'[k] => inflight[k] \/ ~Hit(k)
             /\ Hit(k)' => Hit(k)
  BY <1>1 DEF Fetch, Missed, TakeOff, Hit, TypeOK
<1>2. ASSUME NEW h \in Keys, Complete(h)
      PROVE  /\ inflight'[k] => inflight[k]
             /\ Hit(k)' => Hit(k) \/ inflight[k]
  BY <1>2 DEF Complete, Land, Crash, Hit, TypeOK
<1>3. ASSUME NEW c \in Calls, Deliver(c)
      PROVE  /\ inflight'[k] => inflight[k]
             /\ Hit(k)' => Hit(k) \/ inflight[k]
  <2>1. CASE k = job[c].about /\ k \notin Enriched /\ Awaited(k) = {c}
    <3>1. inflight[k]
      BY <2>1 DEF OneFlightPerKey
    <3> QED
      BY <3>1
  <2>2. CASE ~(k = job[c].about /\ k \notin Enriched /\ Awaited(k) = {c})
    BY <1>3, <2>2 DEF Deliver, Land, Crash, Hit, TypeOK
  <2> QED
    BY <2>1, <2>2
<1>4. ASSUME NEW c \in Calls, Break(c)
      PROVE  /\ inflight'[k] => inflight[k]
             /\ Hit(k)' => Hit(k)
  BY <1>4 DEF Break, Crash, Hit, TypeOK
<1>5. ASSUME UNCHANGED <<life, inflight>>
      PROVE  inflight'[k] = inflight[k] /\ Hit(k)' = Hit(k)
  BY <1>5 DEF Hit
<1>6. ASSUME TimePasses
      PROVE  inflight'[k] = inflight[k] /\ (Hit(k)' => Hit(k))
  BY <1>6 DEF TimePasses, EntriesAge, Hit
<1>7. ASSUME NEW c \in Calls, CallDirectly(c) \/ CallFailsOver(c)
      PROVE  UNCHANGED <<life, inflight>>
  BY <1>7 DEF CallDirectly, CallFailsOver
<1>8. ASSUME NEW c \in Calls, AttemptEnds(c)
      PROVE  Deliver(c) \/ Break(c) \/ CallFailsOver(c)
  BY <1>8 DEF AttemptEnds, CallAnswered, CallRejected, CallThrows
<1> QED
  BY <1>1, <1>2, <1>3, <1>4, <1>5, <1>6, <1>7, <1>8 DEF Next, vars

\* The cache, whatever its endpoints do, keeps the promise of KeyedSnapshot.
THEOREM SnapshotsImplemented == Spec => ImplementsSnapshots
<1>1. Init => Snapshots!AllStale
  BY DEF Init, CacheInit, Snapshots!AllStale, Phases, Hit
<1>2. TypeOK /\ OneFlightPerKey /\ OneFlightPerKey' /\ [Next]_vars
        => Snapshots!Step
  <2> SUFFICES ASSUME TypeOK, OneFlightPerKey, OneFlightPerKey', [Next]_vars
               PROVE  Snapshots!Step
    OBVIOUS
  <2>1. Phases' \in [Keys -> {"stale", "fetching", "fresh"}]
    BY DEF Phases
  <2>2. ASSUME NEW k \in Keys
        PROVE  Phases'[k] \in Snapshots!MayFollow[Phases[k]]
    <3>1. Phases[k] = IF inflight[k] THEN "fetching" ELSE IF Hit(k) THEN "fresh" ELSE "stale"
      BY DEF Phases
    <3>2. Phases'[k] = IF inflight'[k] THEN "fetching" ELSE IF Hit(k)' THEN "fresh" ELSE "stale"
      BY DEF Phases, Hit
    <3> QED
      BY <3>1, <3>2, StepOfKey DEF Snapshots!MayFollow
  <2> QED
    BY <2>1, <2>2 DEF Snapshots!Step
<1> QED
  BY <1>1, <1>2, ReadsTypeCorrect, FlightsSafe, PTL
  DEF Spec, ImplementsSnapshots, Snapshots!Lifecycle

----------------------------------------------------------------------------
(* Orphans: what a rejected producer leaves behind.                        *)

Orphans(k) == {c \in Calls : job[c] = Job(k, "orphan")}

Upstream(k) == {c \in Calls : Running(c) /\ job[c].about = k}

\* A job is that of a running call, and belongs to a key.
JobsAreRunning ==
  \A c \in Calls :
    job[c] # NoJob => Running(c) /\ job[c].about \in Keys /\ job[c].role # "none"

\* Where NoDuplicateUpstream fails: while no call of a rejected producer is
\* under way, a key has the upstream calls of one producer.
OnlyOrphansDuplicate ==
  \A k \in Keys :
    Cardinality(Upstream(k) \ Orphans(k)) <= Vital[k] + Optional[k]

LEMMA JobsInvariant == Spec => []JobsAreRunning
<1>1. Init => JobsAreRunning
  BY DEF Init, JobsAreRunning
<1>2. TypeOK /\ JobsAreRunning /\ [Next]_vars => JobsAreRunning'
  <2> SUFFICES ASSUME TypeOK, JobsAreRunning, [Next]_vars,
                      NEW c \in Calls, job'[c] # NoJob
               PROVE  Running(c)' /\ job'[c].about \in Keys /\ job'[c].role # "none"
    BY DEF JobsAreRunning
  <2>1. ASSUME job'[c] = job[c], Running(c) => Running(c)'
        PROVE  Running(c)' /\ job'[c].about \in Keys /\ job'[c].role # "none"
    BY <2>1 DEF JobsAreRunning
  <2>2. ASSUME NEW k \in Keys, Fetch(k)
        PROVE  Running(c)' /\ job'[c].about \in Keys /\ job'[c].role # "none"
    <3>1. PICK vitals \in SUBSET Vacant, optionals \in SUBSET Vacant :
            /\ Begin(vitals \cup optionals)
            /\ job' = [d \in Calls |->
                         CASE d \in vitals    -> Job(k, "vital")
                           [] d \in optionals -> Job(k, "optional")
                           [] OTHER -> job[d]]
      BY <2>2 DEF Fetch
    <3>2. Running(c) \/ c \in vitals \cup optionals => Running(c)'
      BY <3>1, AttemptsExist DEF Begin, Running
    <3>3. CASE c \in vitals \cup optionals
      <4>1. job'[c] \in {Job(k, "vital"), Job(k, "optional")}
        BY <3>1, <3>3
      <4> QED
        BY <3>2, <3>3, <4>1 DEF Job
    <3>4. CASE c \notin vitals \cup optionals
      BY <2>1, <3>1, <3>2, <3>4
    <3> QED
      BY <3>3, <3>4
  <2>3. ASSUME NEW d \in Calls, AttemptEnds(d)
        PROVE  Running(c)' /\ job'[c].about \in Keys /\ job'[c].role # "none"
    <3>1. EndpointAnswers(d) \/ EndpointFails(d)
      BY <2>3 DEF AttemptEnds, CallAnswered, CallRejected, CallFailsOver, CallThrows
    <3>2. c # d /\ Running(c) => Running(c)'
      BY <3>1, RunningAfter
    <3>3. CASE CallFailsOver(d)
      <4>1. job'[c] = job[c] /\ (Running(c) => Running(c)')
        BY <3>2, <3>3, RunningAfter DEF CallFailsOver
      <4> QED
        BY <2>1, <4>1
    <3>4. CASE Deliver(d)
      <4>1. c # d /\ job'[c] = job[c]
        BY <3>4 DEF Deliver, TypeOK
      <4> QED
        BY <2>1, <3>2, <4>1
    <3>5. CASE IsVital(d) /\ Break(d)
      <4> DEFINE k == job[d].about
      <4>1. job'[c] = CASE c = d -> NoJob
                        [] c # d /\ c \in Awaited(k) -> Job(k, "orphan")
                        [] OTHER -> job[c]
        BY <3>5 DEF Break
      <4>2. c # d
        BY <4>1
      <4>3. CASE c \in Awaited(k)
        <5>1. job'[c] = Job(k, "orphan")
          BY <4>1, <4>2, <4>3
        <5>2. job[d] # NoJob
          BY <3>5 DEF IsVital, NoJob, Job
        <5>3. k \in Keys
          BY <5>2 DEF JobsAreRunning
        <5>4. job[c] # NoJob
          BY <4>3 DEF Awaited, NoJob, Job
        <5> QED
          BY <3>2, <4>2, <5>1, <5>3, <5>4 DEF JobsAreRunning, Job
      <4>4. CASE c \notin Awaited(k)
        BY <2>1, <3>2, <4>1, <4>2, <4>4
      <4> QED
        BY <4>3, <4>4
    <3> QED
      BY <2>3, <3>3, <3>4, <3>5 DEF AttemptEnds, CallAnswered, CallRejected, CallThrows
  <2>4. ASSUME NEW d \in Calls, CallDirectly(d)
        PROVE  job'[c] = job[c] /\ (Running(c) => Running(c)')
    BY <2>4, AttemptsExist DEF CallDirectly, Begin, Running
  <2>5. ASSUME \/ TimePasses
               \/ \E k \in Keys : Complete(k)
               \/ UNCHANGED vars
        PROVE  job'[c] = job[c] /\ (Running(c) => Running(c)')
    BY <2>5 DEF TimePasses, CircuitsCool, Complete, vars, Running
  <2> QED
    BY <2>1, <2>2, <2>3, <2>4, <2>5 DEF Next
<1> QED
  BY <1>1, <1>2, ReadsTypeCorrect, PTL DEF Spec

\* The documented promise of coalescing holds of every key that no rejected
\* producer has left calls of, in every interleaving: a duplicate upstream call
\* always has an orphan beside it (cached, Promise.all of the producers).
THEOREM DuplicatesHaveOrphans == Spec => []OnlyOrphansDuplicate
<1>1. TypeOK /\ OneFlightPerKey /\ JobsAreRunning => OnlyOrphansDuplicate
  <2> SUFFICES ASSUME TypeOK, OneFlightPerKey, JobsAreRunning, NEW k \in Keys
               PROVE  Cardinality(Upstream(k) \ Orphans(k)) <= Vital[k] + Optional[k]
    BY DEF OnlyOrphansDuplicate
  <2>1. Upstream(k) \ Orphans(k) \subseteq Awaited(k)
    <3> SUFFICES ASSUME NEW c \in Calls, job[c].about = k, job[c] # Job(k, "orphan")
                 PROVE  c \in Awaited(k)
      BY DEF Upstream, Orphans
    <3>1. job[c] # NoJob
      BY ReadsAssumption DEF NoJob, Job
    <3>2. job[c].role \in {"vital", "optional", "orphan"} /\ job[c] \in Jobs
      BY <3>1 DEF JobsAreRunning, TypeOK, Jobs
    <3> QED
      BY <3>2 DEF Awaited, Job, Jobs
  <2>2. Cardinality(Awaited(k)) <= Vital[k] + Optional[k]
    BY DEF OneFlightPerKey
  <2> QED
    BY <2>1, <2>2, AwaitedFinite, FewAwaited
<1> QED
  BY <1>1, ReadsTypeCorrect, FlightsSafe, JobsInvariant, PTL

\* An entry becomes fresh only by the producer of the flight, when none of its
\* calls is awaited any more; the orphans of earlier ones store nothing (cached).
THEOREM EntriesAreWhole ==
  Spec => [][\A k \in Keys : Hit(k)' /\ ~Hit(k) =>
               /\ inflight[k] /\ ~inflight'[k]
               /\ Awaited(k)' = {}
               /\ Orphans(k)' = Orphans(k)]_vars
<1> DEFINE whole ==
      \A k \in Keys : Hit(k)' /\ ~Hit(k) =>
               /\ inflight[k] /\ ~inflight'[k]
               /\ Awaited(k)' = {}
               /\ Orphans(k)' = Orphans(k)
<1>1. TypeOK /\ OneFlightPerKey /\ [Next]_vars => [whole]_vars
  <2> SUFFICES ASSUME TypeOK, OneFlightPerKey, [Next]_vars,
                      NEW k \in Keys, Hit(k)', ~Hit(k)
               PROVE  /\ inflight[k] /\ ~inflight'[k]
                      /\ Awaited(k)' = {}
                      /\ Orphans(k)' = Orphans(k)
    OBVIOUS
  <2>1. ASSUME NEW c \in Calls, Deliver(c)
        PROVE  /\ inflight[k] /\ ~inflight'[k]
               /\ Awaited(k)' = {}
               /\ Orphans(k)' = Orphans(k)
    <3>1. k = job[c].about /\ Awaited(k) = {c}
      BY <2>1 DEF Deliver, Land, Crash, Hit, TypeOK
    <3>2. inflight[k] /\ ~inflight'[k]
      BY <2>1, <3>1 DEF Deliver, Land, Crash, Hit, TypeOK, OneFlightPerKey
    <3>3. job[c] \in {Job(k, "vital"), Job(k, "optional")}
      BY <3>1 DEF Awaited
    <3>4. ASSUME NEW d \in Calls
          PROVE  job'[d] = IF d = c THEN NoJob ELSE job[d]
      BY <2>1 DEF Deliver, TypeOK
    <3>5. Awaited(k)' = {}
      BY <3>1, <3>4, ReadsAssumption DEF Awaited, NoJob, Job
    <3>6. Orphans(k)' = Orphans(k)
      BY <3>3, <3>4, ReadsAssumption DEF Orphans, NoJob, Job
    <3> QED
      BY <3>2, <3>5, <3>6
  <2>2. ASSUME NEW h \in Keys, Complete(h)
        PROVE  /\ inflight[k] /\ ~inflight'[k]
               /\ Awaited(k)' = {}
               /\ Orphans(k)' = Orphans(k)
    <3>1. h = k /\ inflight[k] /\ ~inflight'[k] /\ Awaited(k) = {} /\ job' = job
      BY <2>2 DEF Complete, Land, Crash, Hit, TypeOK
    <3> QED
      BY <3>1 DEF Awaited, Orphans
  <2>3. ASSUME NEW h \in Keys, Fetch(h)
        PROVE  FALSE
    BY <2>3 DEF Fetch, TakeOff, Hit
  <2>4. ASSUME NEW c \in Calls, Break(c)
        PROVE  FALSE
    BY <2>4 DEF Break, Crash, Hit
  <2>5. ASSUME NEW c \in Calls, CallDirectly(c) \/ CallFailsOver(c)
        PROVE  FALSE
    BY <2>5 DEF CallDirectly, CallFailsOver, Hit
  <2>6. ASSUME TimePasses
        PROVE  FALSE
    BY <2>6 DEF TimePasses, EntriesAge, Hit
  <2>7. CASE UNCHANGED vars
    BY <2>7 DEF vars, Hit
  <2>8. ASSUME NEW c \in Calls, AttemptEnds(c)
        PROVE  Deliver(c) \/ Break(c) \/ CallFailsOver(c)
    BY <2>8 DEF AttemptEnds, CallAnswered, CallRejected, CallThrows
  <2> QED
    BY <2>1, <2>2, <2>3, <2>4, <2>5, <2>6, <2>7, <2>8 DEF Next
<1> QED
  BY <1>1, ReadsTypeCorrect, FlightsSafe, PTL DEF Spec

----------------------------------------------------------------------------
(* The attempts of a call.                                                 *)

\* A set of endpoints that is not empty has a greatest element.
LEMMA GreatestEndpoint ==
  ASSUME NEW S \in SUBSET Endpoints, S # {}
  PROVE  \E e \in S : \A f \in S : f <= e
<1> DEFINE mirrored == {EndpointCount - e : e \in S}
<1>1. mirrored \in SUBSET Nat /\ mirrored # {}
  <2>1. \A e \in S : EndpointCount - e \in Nat
    BY RpcAssumption DEF Endpoints
  <2>2. PICK e \in S : TRUE
    OBVIOUS
  <2>3. EndpointCount - e \in mirrored
    BY <2>2
  <2> QED
    BY <2>1, <2>3
<1>2. PICK m \in mirrored : \A n \in mirrored : m <= n
  <2> HIDE DEF mirrored
  <2> QED
    BY <1>1, LeastNatural
<1>3. PICK e \in S : m = EndpointCount - e
  BY <1>2
<1>4. \A f \in S : EndpointCount - e <= EndpointCount - f
  BY <1>2, <1>3
<1>5. \A f \in S : f \in Int
  BY DEF Endpoints
<1>6. \A f \in S : f <= e
  BY <1>4, <1>5, RpcAssumption
<1> QED
  BY <1>6

\* A call chooses MaxAttempts endpoints at most.
LEMMA FirstOfIsSmall ==
  ASSUME NEW S \in SUBSET Endpoints
  PROVE  IsFiniteSet(FirstOf(S)) /\ Cardinality(FirstOf(S)) <= MaxAttempts
<1> DEFINE chosen == FirstOf(S)
<1>1. IsFiniteSet(S) /\ IsFiniteSet(chosen) /\ chosen \subseteq S
  <2>1. IsFiniteSet(Endpoints)
    BY FS_Interval, RpcAssumption DEF Endpoints
  <2> QED
    BY <2>1, FS_Subset DEF FirstOf
<1>2. CASE chosen = {}
  BY <1>1, <1>2, FS_EmptySet, RpcAssumption
<1>3. CASE chosen # {}
  <2>1. PICK e \in chosen : \A f \in chosen : f <= e
    <3>1. chosen \in SUBSET Endpoints
      BY <1>1
    <3> QED
      BY <1>3, <3>1, GreatestEndpoint
  <2> DEFINE sooner == {f \in S : f < e}
  <2>2. chosen \ {e} \subseteq sooner
    <3> SUFFICES ASSUME NEW f \in chosen, f # e
                 PROVE  f \in sooner
      OBVIOUS
    <3>1. f <= e /\ f \in S /\ e \in Int /\ f \in Int
      <4> HIDE DEF chosen
      <4> QED
        BY <1>1, <2>1 DEF Endpoints
    <3> QED
      BY <3>1
  <2>3. IsFiniteSet(sooner) /\ Cardinality(sooner) < MaxAttempts
    <3>1. IsFiniteSet(sooner)
      BY <1>1, FS_Subset
    <3> QED
      BY <3>1, <2>1 DEF FirstOf
  <2>4. Cardinality(chosen \ {e}) <= Cardinality(sooner)
    BY <2>2, <2>3, FS_Subset
  <2>5. Cardinality(chosen \ {e}) = Cardinality(chosen) - 1
    BY <1>1, <2>1, FS_RemoveElement
  <2>6. Cardinality(chosen) \in Nat /\ Cardinality(sooner) \in Nat
    BY <1>1, <2>3, FS_CardinalityType
  <2> QED
    BY <1>1, <2>3, <2>4, <2>5, <2>6, RpcAssumption
<1> QED
  BY <1>2, <1>3

FewAttempts ==
  \A c \in Calls : IsFiniteSet(left[c]) /\ Cardinality(left[c]) <= MaxAttempts

\* However circuits open and close meanwhile, a call that is under way has a
\* bounded number of attempts left, every attempt that does not end it uses up
\* its endpoint, and so it tries none twice (rpcTransport).
THEOREM AttemptsAreBounded ==
  Spec => /\ []FewAttempts
          /\ [][\A c \in Calls : Running(c) /\ left'[c] # left[c] =>
                  /\ left'[c] \in {{}, left[c] \ {Current(c)}}
                  /\ Cardinality(left'[c]) < Cardinality(left[c])]_vars
<1> DEFINE shrinks ==
      \A c \in Calls : Running(c) /\ left'[c] # left[c] =>
                  /\ left'[c] \in {{}, left[c] \ {Current(c)}}
                  /\ Cardinality(left'[c]) < Cardinality(left[c])
<1>1. Init => FewAttempts
  BY FS_EmptySet, RpcAssumption DEF Init, RpcInit, FewAttempts
<1>2. ASSUME TypeOK, [Next]_vars, NEW c \in Calls
      PROVE  \/ left'[c] = left[c]
             \/ ~Running(c) /\ left'[c] = Attempts
             \/ Running(c) /\ left'[c] \in {{}, left[c] \ {Current(c)}}
  <2>1. ASSUME NEW k \in Keys, Fetch(k)
        PROVE  left'[c] = left[c] \/ (~Running(c) /\ left'[c] = Attempts)
    BY <2>1 DEF Fetch, Begin, Vacant
  <2>2. ASSUME NEW d \in Calls, CallDirectly(d)
        PROVE  left'[c] = left[c] \/ (~Running(c) /\ left'[c] = Attempts)
    BY <2>2 DEF CallDirectly, Begin, Vacant
  <2>3. ASSUME NEW d \in Calls, AttemptEnds(d)
        PROVE  left'[c] = left[c] \/ (Running(c) /\ left'[c] \in {{}, left[c] \ {Current(c)}})
    <3>1. EndpointAnswers(d) \/ EndpointFails(d)
      BY <2>3 DEF AttemptEnds, CallAnswered, CallRejected, CallFailsOver, CallThrows
    <3>2. CASE c = d
      BY <1>2, <3>1, <3>2 DEF EndpointAnswers, EndpointFails, TypeOK
    <3>3. CASE c # d
      BY <1>2, <3>1, <3>3 DEF EndpointAnswers, EndpointFails, TypeOK
    <3> QED
      BY <3>2, <3>3
  <2>4. ASSUME TimePasses \/ (\E k \in Keys : Complete(k)) \/ UNCHANGED vars
        PROVE  left'[c] = left[c]
    BY <2>4 DEF TimePasses, CircuitsCool, Complete, vars
  <2> QED
    BY <1>2, <2>1, <2>2, <2>3, <2>4 DEF Next
<1>3. IsFiniteSet(Attempts) /\ Cardinality(Attempts) <= MaxAttempts
  <2>1. (IF Available # {} THEN Available ELSE Endpoints) \in SUBSET Endpoints
    BY DEF Available
  <2> QED
    BY <2>1, FirstOfIsSmall DEF Attempts
<1>4. ASSUME NEW c \in Calls, FewAttempts, TypeOK, Running(c),
             left'[c] \in {{}, left[c] \ {Current(c)}}
      PROVE  /\ IsFiniteSet(left'[c])
             /\ Cardinality(left'[c]) < Cardinality(left[c])
             /\ Cardinality(left'[c]) <= MaxAttempts
  <2>1. Current(c) \in left[c] /\ left[c] # {}
    BY <1>4, CurrentIsLeft DEF Running
  <2>2. IsFiniteSet(left[c]) /\ Cardinality(left[c]) <= MaxAttempts
    BY <1>4 DEF FewAttempts
  <2>3. /\ IsFiniteSet(left[c] \ {Current(c)})
        /\ Cardinality(left[c] \ {Current(c)}) = Cardinality(left[c]) - 1
    BY <2>1, <2>2, FS_RemoveElement
  <2>4. Cardinality(left[c]) \in Nat \ {0}
    BY <2>1, <2>2, FS_CardinalityType, FS_EmptySet
  <2>5. IsFiniteSet({}) /\ Cardinality({}) = 0
    BY FS_EmptySet
  <2>6. CASE left'[c] = {}
    BY <2>2, <2>4, <2>5, <2>6, RpcAssumption
  <2>7. CASE left'[c] = left[c] \ {Current(c)}
    BY <2>2, <2>3, <2>4, <2>7, RpcAssumption
  <2> QED
    BY <1>4, <2>6, <2>7
<1>5. TypeOK /\ FewAttempts /\ [Next]_vars => FewAttempts' /\ [shrinks]_vars
  <2> SUFFICES ASSUME TypeOK, FewAttempts, [Next]_vars
               PROVE  FewAttempts' /\ [shrinks]_vars
    OBVIOUS
  <2>1. FewAttempts'
    <3> SUFFICES ASSUME NEW c \in Calls
                 PROVE  IsFiniteSet(left'[c]) /\ Cardinality(left'[c]) <= MaxAttempts
      BY DEF FewAttempts
    <3>1. CASE left'[c] = left[c]
      BY <3>1 DEF FewAttempts
    <3>2. CASE left'[c] = Attempts
      BY <1>3, <3>2
    <3> QED
      BY <1>2, <1>4, <3>1, <3>2
  <2>2. ASSUME NEW c \in Calls, Running(c), left'[c] # left[c]
        PROVE  /\ left'[c] \in {{}, left[c] \ {Current(c)}}
               /\ Cardinality(left'[c]) < Cardinality(left[c])
    BY <1>2, <1>4, <2>2
  <2> QED
    BY <2>1, <2>2
<1> QED
  BY <1>1, <1>5, ReadsTypeCorrect, PTL DEF Spec

----------------------------------------------------------------------------
(* A good endpoint.                                                        *)

\* Endpoint e is in selection and every call under way may still try it.
Healed(e) ==
  /\ health[e].cooling = 0
  /\ \A c \in Calls : Running(c) => e \in left[c]

\* A call that begins while an endpoint among the first is available will try it.
LEMMA AvailableIsTried ==
  ASSUME NEW e \in Endpoints, e <= MaxAttempts, health[e].cooling = 0
  PROVE  e \in Attempts
<1> DEFINE sooner == {f \in Available : f < e}
<1>1. e \in Available /\ e \in Nat \ {0}
  BY RpcAssumption DEF Available, Endpoints
<1>2. sooner \subseteq 1..(e - 1)
  BY <1>1 DEF Available, Endpoints
<1>3. IsFiniteSet(1..(e - 1)) /\ Cardinality(1..(e - 1)) = e - 1
  BY <1>1, FS_Interval
<1>4. Cardinality(sooner) <= e - 1 /\ Cardinality(sooner) \in Nat
  BY <1>2, <1>3, FS_Subset, FS_CardinalityType
<1>5. Cardinality(sooner) < MaxAttempts
  <2> HIDE DEF sooner
  <2> QED
    BY <1>1, <1>4, RpcAssumption
<1> QED
  BY <1>1, <1>5 DEF Attempts, FirstOf

LEMMA HealedStep ==
  ASSUME NEW e \in Endpoints, e <= MaxAttempts, TypeOK, Healed(e),
         Next, ~EndpointLetsDown(e)
  PROVE  Healed(e)' /\ ~CallGivesUp
<1>1. e \in Attempts
  BY AvailableIsTried DEF Healed
<1>2. health \in [Endpoints -> HealthRecords] /\ left \in [Calls -> SUBSET Endpoints]
  BY DEF TypeOK
<1>3. ASSUME NEW c \in Calls, EndpointFails(c)
      PROVE  Current(c) # e /\ e \in left[c]
  <2>1. Running(c)
    BY <1>3 DEF EndpointFails
  <2>2. Current(c) # e
    BY <1>3, <2>1 DEF EndpointLetsDown
  <2> QED
    BY <2>1, <2>2 DEF Healed
<1>4. ~CallGivesUp
  <2> SUFFICES ASSUME NEW c \in Calls, CallThrows(c)
               PROVE  FALSE
    BY DEF CallGivesUp
  <2>1. EndpointFails(c) /\ left[c] = {Current(c)}
    BY DEF CallThrows, OnLastAttempt
  <2> QED
    BY <1>3, <2>1
<1>5. ASSUME NEW calls \in SUBSET Calls, Begin(calls)
      PROVE  Healed(e)'
  <2>1. health'[e].cooling = 0
    BY <1>5 DEF Begin, Healed
  <2>2. \A c \in Calls : left'[c] = IF c \in calls THEN Attempts ELSE left[c]
    BY <1>5 DEF Begin
  <2> QED
    BY <1>1, <2>1, <2>2 DEF Healed, Running
<1>6. ASSUME NEW k \in Keys, Fetch(k)
      PROVE  Healed(e)'
  BY <1>5, <1>6 DEF Fetch, Vacant
<1>7. ASSUME NEW c \in Calls, CallDirectly(c)
      PROVE  Healed(e)'
  BY <1>5, <1>7 DEF CallDirectly
<1>8. ASSUME NEW c \in Calls, EndpointAnswers(c)
      PROVE  Healed(e)'
  <2>1. health' = [health EXCEPT ![Current(c)] = AfterSuccess(health[Current(c)])]
    BY <1>8 DEF EndpointAnswers
  <2>2. health'[e].cooling = 0
    <3>1. CASE Current(c) = e
      BY <1>2, <2>1, <3>1 DEF AfterSuccess
    <3>2. CASE Current(c) # e
      BY <1>2, <2>1, <3>2 DEF Healed
    <3> QED
      BY <3>1, <3>2
  <2>3. \A d \in Calls : left'[d] = IF d = c THEN {} ELSE left[d]
    BY <1>2, <1>8 DEF EndpointAnswers
  <2> QED
    BY <2>2, <2>3 DEF Healed, Running
<1>9. ASSUME NEW c \in Calls, EndpointFails(c)
      PROVE  Healed(e)'
  <2>1. /\ health' = [health EXCEPT ![Current(c)] = AfterFailure(health[Current(c)])]
        /\ left' = [left EXCEPT ![c] = left[c] \ {Current(c)}]
    BY <1>9 DEF EndpointFails
  <2>2. health'[e].cooling = 0
    BY <1>2, <1>3, <1>9, <2>1 DEF Healed
  <2>3. \A d \in Calls : left'[d] = IF d = c THEN left[c] \ {Current(c)} ELSE left[d]
    BY <1>2, <2>1
  <2>4. \A d \in Calls : left'[d] # {} => e \in left'[d]
    BY <1>3, <1>9, <2>3 DEF Healed, Running
  <2> QED
    BY <2>2, <2>4 DEF Healed, Running
<1>10. ASSUME NEW c \in Calls, AttemptEnds(c)
       PROVE  EndpointAnswers(c) \/ EndpointFails(c)
  BY <1>10 DEF AttemptEnds, CallAnswered, CallRejected, CallFailsOver, CallThrows
<1>11. ASSUME NEW k \in Keys, Complete(k)
       PROVE  Healed(e)'
  BY <1>11 DEF Complete, Healed, Running
<1>12. ASSUME TimePasses
       PROVE  Healed(e)'
  <2>1. left' = left
    BY <1>12 DEF TimePasses, CircuitsCool
  <2>2. health' = [f \in Endpoints |-> [health[f] EXCEPT !.cooling = Sooner(health[f].cooling)]]
    BY <1>12 DEF TimePasses, CircuitsCool
  <2>3. health'[e].cooling = 0
    BY <1>2, <2>2 DEF Sooner, Healed, HealthRecords
  <2> QED
    BY <2>1, <2>3 DEF Healed, Running
<1> QED
  BY <1>4, <1>6, <1>7, <1>8, <1>9, <1>10, <1>11, <1>12 DEF Next

\* The safety half of GoodEndpointHeals: an endpoint among the first MaxAttempts
\* that fails no attempt, once it is in selection and every call may try it,
\* stays so, and no call gives up any more, whatever the other endpoints do and
\* however many circuits are open (rpcTransport, updateRpcEndpoint).
THEOREM HealingLasts ==
  ASSUME NEW e \in Endpoints, e <= MaxAttempts
  PROVE  Spec /\ [][~EndpointLetsDown(e)]_vars
           => /\ [](Healed(e) => []Healed(e))
              /\ [][Healed(e) => ~CallGivesUp]_vars
<1>1. TypeOK /\ Healed(e) /\ [Next]_vars /\ [~EndpointLetsDown(e)]_vars => Healed(e)'
  <2> SUFFICES ASSUME TypeOK, Healed(e), [Next]_vars, [~EndpointLetsDown(e)]_vars
               PROVE  Healed(e)'
    OBVIOUS
  <2>1. CASE UNCHANGED vars
    BY <2>1 DEF vars, Healed, Running
  <2>2. CASE Next /\ ~EndpointLetsDown(e)
    BY <2>2, HealedStep
  <2> QED
    BY <2>1, <2>2
<1>2. TypeOK /\ [Next]_vars /\ [~EndpointLetsDown(e)]_vars
        => [Healed(e) => ~CallGivesUp]_vars
  BY HealedStep
<1> QED
  BY <1>1, <1>2, ReadsTypeCorrect, PTL DEF Spec
============================================================================
