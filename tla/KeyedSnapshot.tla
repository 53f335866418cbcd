--------------------------- MODULE KeyedSnapshot ---------------------------
(***************************************************************************)
(* What the cache of services/solana-data.ts promises about its keys: the  *)
(* snapshot of a key is stale until somebody asks for it, then exactly one *)
(* flight fetches it; the flight ends, and leaves a fresh snapshot or      *)
(* none; a fresh snapshot serves every reader until it expires.            *)
(***************************************************************************)
CONSTANT Keys

VARIABLE phase

AllStale == phase = [k \in Keys |-> "stale"]

MayFollow == [stale    |-> {"stale", "fetching"},
              fetching |-> {"fetching", "fresh", "stale"},
              fresh    |-> {"fresh", "stale"}]

\* A moment may make several snapshots stale.
Step == /\ phase' \in [Keys -> {"stale", "fetching", "fresh"}]
        /\ \A k \in Keys : phase'[k] \in MayFollow[phase[k]]

Lifecycle == AllStale /\ [][Step]_phase

EveryFlightEnds == \A k \in Keys : phase[k] = "fetching" ~> phase[k] # "fetching"
============================================================================
