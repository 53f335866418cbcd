--------------------------- MODULE SnapshotCache ---------------------------
(***************************************************************************)
(* The function cached of services/solana-data.ts with its two Maps, cache *)
(* and inflight.  A reader who finds a fresh entry gets it, one who finds  *)
(* a pending Promise shares it; neither changes anything.  Only a reader   *)
(* who finds neither starts the producer.                                  *)
(***************************************************************************)
EXTENDS Integers

CONSTANTS Keys, Ttl

ASSUME TtlAssumption == Ttl \in [Keys -> Nat \ {0}]

VARIABLES
  life,      \* ticks until the entry of a key expires; 0: expired or none
  inflight   \* whether a producer's Promise is pending for a key

CacheInit == /\ life = [k \in Keys |-> 0]
             /\ inflight = [k \in Keys |-> FALSE]

Hit(k) == life[k] > 0

\* Faulty variants (mutants): the pending Promise is not looked for; the fresh
\* entry is not looked for.
MissedUnlessFresh(k) == ~Hit(k)
MissedUnlessPending(k) == ~inflight[k]

Missed(k) == ~Hit(k) /\ ~inflight[k]

TakeOff(k) == /\ inflight' = [inflight EXCEPT ![k] = TRUE]
              /\ UNCHANGED life

\* The producer returned: its value lives from now on.
Land(k) == /\ life' = [life EXCEPT ![k] = Ttl[k]]
           /\ inflight' = [inflight EXCEPT ![k] = FALSE]

\* Faulty variant (mutant): the Promise is removed only after a success.
CrashKeepsPromise(k) == k \in Keys /\ UNCHANGED <<life, inflight>>

\* The producer threw: every reader who shares the Promise gets the error, and
\* the next one starts afresh.
Crash(k) == /\ inflight' = [inflight EXCEPT ![k] = FALSE]
            /\ UNCHANGED life

EntriesAge == /\ life' = [k \in Keys |-> IF Hit(k) THEN life[k] - 1 ELSE 0]
              /\ UNCHANGED inflight
============================================================================
