---------------------------- MODULE SolanaReads ----------------------------
(***************************************************************************)
(* The reads of services/solana-data.ts: cached snapshots whose producers  *)
(* call the RPC failover, beside uncached calls of other routes.           *)
(*                                                                         *)
(* A producer starts its calls together (Promise.all).  The failure of a   *)
(* vital call rejects the producer at once, while the others keep running  *)
(* with nobody to wait for them: they are orphans.  The failure of an      *)
(* optional call is swallowed (.catch(() => null)).  A producer of         *)
(* Enriched also awaits other providers, which never throw, so that it may *)
(* end after its last RPC call.                                            *)
(***************************************************************************)
EXTENDS RpcFailover, SnapshotCache

CONSTANTS
  Vital,     \* how many vital calls the producer of a key makes
  Optional,  \* how many optional ones
  Enriched,  \* the keys whose producers await other providers too
  NoKey

ASSUME ReadsAssumption ==
  /\ Vital \in [Keys -> Nat \ {0}]
  /\ Optional \in [Keys -> Nat]
  /\ Enriched \subseteq Keys
  /\ NoKey \notin Keys
  /\ IsFiniteSet(Calls)

VARIABLE job  \* what each call was made for

vars == <<health, active, telemetry, left, life, inflight, job>>

Jobs == [about : Keys \cup {NoKey},
         role  : {"none", "vital", "optional", "orphan"}]

Job(k, role) == [about |-> k, role |-> role]
NoJob == Job(NoKey, "none")

Init == /\ RpcInit
        /\ CacheInit
        /\ job = [c \in Calls |-> NoJob]

Awaited(k) == {c \in Calls : job[c] \in {Job(k, "vital"), Job(k, "optional")}}

Vacant == {c \in Calls : ~Running(c)}

----------------------------------------------------------------------------
(* Readers and callers. *)

\* A reader finds neither a fresh snapshot nor a pending one.
Fetch(k) ==
  /\ Missed(k)
  /\ \E vitals, optionals \in SUBSET Vacant :
       /\ vitals \cap optionals = {}
       /\ Cardinality(vitals) = Vital[k]
       /\ Cardinality(optionals) = Optional[k]
       /\ Begin(vitals \cup optionals)
       /\ job' = [c \in Calls |->
                    CASE c \in vitals    -> Job(k, "vital")
                      [] c \in optionals -> Job(k, "optional")
                      [] OTHER -> job[c]]
  /\ TakeOff(k)

\* A call outside the cache: the program registry, the wallet.
CallDirectly(c) ==
  /\ c \in Vacant
  /\ Begin({c})
  /\ UNCHANGED <<life, inflight, job>>

----------------------------------------------------------------------------
(* The ends of a call, as its producer sees them. *)

\* The producer has what it needs of this call.  After the last one it returns
\* its snapshot, or throws over what it was told (no supply, no price); unless
\* it awaits other providers.
Deliver(c) ==
  /\ job' = [job EXCEPT ![c] = NoJob]
  /\ LET k == job[c].about IN
       IF k \in Keys \ Enriched /\ Awaited(k) = {c}
       THEN Land(k) \/ Crash(k)
       ELSE UNCHANGED <<life, inflight>>

\* A vital call threw, and Promise.all with it.
Break(c) ==
  LET k == job[c].about IN
  /\ job' = [d \in Calls |-> CASE d = c -> NoJob
                               [] d # c /\ d \in Awaited(k) -> Job(k, "orphan")
                               [] OTHER -> job[d]]
  /\ Crash(k)

IsVital(c) == job[c].role = "vital"

CallAnswered(c) == EndpointAnswers(c) /\ Deliver(c)

\* The answer carries a JSON-RPC error or no result.
CallRejected(c) == EndpointAnswers(c) /\ IsVital(c) /\ Break(c)

CallFailsOver(c) ==
  /\ EndpointFails(c)
  /\ ~OnLastAttempt(c)
  /\ UNCHANGED <<life, inflight, job>>

CallThrows(c) ==
  /\ EndpointFails(c)
  /\ OnLastAttempt(c)
  /\ IF IsVital(c) THEN Break(c) ELSE Deliver(c)

\* The other providers are done as well.
Complete(k) ==
  /\ k \in Enriched
  /\ inflight[k]
  /\ Awaited(k) = {}
  /\ Land(k) \/ Crash(k)
  /\ UNCHANGED <<health, active, telemetry, left, job>>

TimePasses ==
  /\ (\E e \in Endpoints : health[e].cooling > 0) \/ (\E k \in Keys : Hit(k))
  /\ CircuitsCool
  /\ EntriesAge
  /\ UNCHANGED job

----------------------------------------------------------------------------
AttemptEnds(c) ==
  CallAnswered(c) \/ CallRejected(c) \/ CallFailsOver(c) \/ CallThrows(c)

Next ==
  \/ \E k \in Keys : Fetch(k) \/ Complete(k)
  \/ \E c \in Calls : CallDirectly(c) \/ AttemptEnds(c)
  \/ TimePasses

\* The abort timer ends every attempt, fetchJson's ends every other provider's,
\* and the clock goes on.  Nobody has to read.
Fairness ==
  /\ \A c \in Calls : WF_vars(AttemptEnds(c))
  /\ \A k \in Keys : WF_vars(Complete(k))
  /\ WF_vars(TimePasses)

Spec == Init /\ [][Next]_vars
FairSpec == Spec /\ Fairness

----------------------------------------------------------------------------
(* Properties. *)

TypeOK ==
  /\ health \in [Endpoints -> HealthRecords]
  /\ active \in 0..EndpointCount
  /\ telemetry \in {"UNKNOWN", "LIVE", "DEGRADED"}
  /\ left \in [Calls -> SUBSET Endpoints]
  /\ life \in [Keys -> Nat]
  /\ inflight \in [Keys -> BOOLEAN]
  /\ job \in [Calls -> Jobs]

\* An endpoint is out of selection only after as many failures in a row as the
\* threshold asks for, whatever order the answers of concurrent calls come in;
\* and the status shows it (updateRpcEndpoint, rpcEndpointSnapshot).
OpenCircuitsAreEarned ==
  \A e \in Endpoints :
    /\ health[e].cooling > 0 => health[e].state = "OPEN"
    /\ health[e].state = "OPEN" <=> health[e].failures = Threshold
    /\ health[e].state = "LIVE" => health[e].failures = 0

\* While a producer's calls are awaited its key is in flight and has no fresh
\* entry; they are the calls of one producer; and a flight always has somebody
\* who will end it, so no Promise stays in the Map for ever (cached).
OneFlightPerKey ==
  \A k \in Keys :
    /\ Awaited(k) # {} => inflight[k]
    /\ inflight[k] => ~Hit(k)
    /\ inflight[k] /\ k \notin Enriched => Awaited(k) # {}
    /\ Cardinality(Awaited(k)) <= Vital[k] + Optional[k]
    /\ \A c \in Awaited(k) : Running(c)

\* What every key goes through, for readers who know nothing of endpoints.
Phases == [k \in Keys |-> IF inflight[k] THEN "fetching"
                          ELSE IF Hit(k) THEN "fresh" ELSE "stale"]

Snapshots == INSTANCE KeyedSnapshot WITH phase <- Phases

\* Each key of the cache lives the life of a KeyedSnapshot.
ImplementsSnapshots == Snapshots!Lifecycle

\* Every flight ends, however many endpoints are down: readers who share a
\* Promise get a value or an error.
FlightsEnd == Snapshots!EveryFlightEnds

EndpointLetsDown(e) == \E c \in Calls : /\ Running(c) /\ Current(c) = e
                                        /\ EndpointFails(c)
CallGivesUp == \E c \in Calls : CallThrows(c)

\* An endpoint among the first MaxAttempts that from some time on fails no
\* attempt makes the service whole again: from some time on no call gives up,
\* even if its circuit was open and all the others keep failing.
GoodEndpointHeals ==
  \A e \in Endpoints :
    e <= MaxAttempts =>
      \/ []<><<EndpointLetsDown(e)>>_vars
      \/ <>[][~CallGivesUp]_vars

\* Documented: coalescing "prevents duplicate upstream calls for the same cache
\* key".  Orphans of a rejected producer run on beside those of the next one.
NoDuplicateUpstream ==
  \A k \in Keys :
    Cardinality({c \in Calls : Running(c) /\ job[c].about = k}) <= Vital[k] + Optional[k]
============================================================================
