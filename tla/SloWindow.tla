----------------------------- MODULE SloWindow -----------------------------
(***************************************************************************)
(* The rolling window of HTTP samples and its verdict (runtime-metrics.ts).*)
(*                                                                         *)
(* Of a sample the verdict uses its age, whether the answer was a 5xx and  *)
(* whether it took longer than the p95 target.  Ages are counted in ticks  *)
(* up to the first one outside the window.                                 *)
(***************************************************************************)
EXTENDS Integers, SequencesExt

CONSTANTS
  Window,              \* SLO_WINDOW_SECONDS, in ticks
  MaxSamples,          \* SLO_MAX_SAMPLES
  MinSamples,          \* SLO_MIN_SAMPLES
  AvailabilityTarget   \* SLO_AVAILABILITY_TARGET_PCT

ASSUME SloAssumption ==
  /\ Window \in Nat
  /\ MaxSamples \in Nat \ {0}
  /\ MinSamples \in Nat \ {0}
  /\ AvailabilityTarget \in 50..100

VARIABLE samples  \* oldest first

Samples == [age : 0..Window + 1, failed : BOOLEAN, slow : BOOLEAN]

InWindow(sample) == sample.age <= Window

\* Faulty variant (mutant): one expired sample is dropped, the rest stay.
PrunedOnce(seq) == IF seq # <<>> /\ ~InWindow(Head(seq)) THEN Tail(seq) ELSE seq

\* prune: expired samples are shifted out from the front until one is not.
Pruned(seq) ==
  LET kept == {i \in DOMAIN seq : InWindow(seq[i])} IN
  IF kept = {} THEN <<>> ELSE SubSeq(seq, Min(kept), Len(seq))

\* Faulty variant (mutant): the window is never cut to its limit.
Everything(seq) == seq

Newest(seq) ==
  IF Len(seq) > MaxSamples THEN SubSeq(seq, Len(seq) - MaxSamples + 1, Len(seq))
  ELSE seq

\* Faulty variant (mutant): probes and the SLO endpoint count like the API.
CountsEverything(path) == TRUE

\* Health, readiness, the SLO itself and the API's documentation do not count.
Counts(path) == path = "api"

Sampled(seq, path, failed, slow) ==
  IF Counts(path)
  THEN Newest(Pruned(Append(seq, [age |-> 0, failed |-> failed, slow |-> slow])))
  ELSE seq

RecordHttpSample(path, failed, slow) ==
  samples' = Sampled(samples, path, failed, slow)

\* getSloSnapshot: "UNKNOWN" stands for ok = null.  The 95th percentile is the
\* duration at index ceil(0.95 n) - 1 of the sorted ones.
SloVerdict(seq) ==
  LET n      == Len(seq)
      failed == Cardinality({i \in DOMAIN seq : seq[i].failed})
      slow   == Cardinality({i \in DOMAIN seq : seq[i].slow})
  IN CASE n < MinSamples -> "UNKNOWN"
       [] n >= MinSamples /\ 100 * (n - failed) >= AvailabilityTarget * n
            /\ n - slow >= (95 * n + 99) \div 100 -> "MET"
       [] OTHER -> "MISSED"

SamplesAge ==
  samples' = [i \in DOMAIN samples |->
    IF InWindow(samples[i]) THEN [samples[i] EXCEPT !.age = @ + 1] ELSE samples[i]]
============================================================================
