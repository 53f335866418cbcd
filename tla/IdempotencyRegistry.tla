------------------------ MODULE IdempotencyRegistry ------------------------
(***************************************************************************)
(* The class IdempotencyRegistry of domain/integrity.ts: one Map from the  *)
(* Idempotency-Key header to the hash of the request that first succeeded  *)
(* under it and the response it got.  The Map is global: one key space for *)
(* every intent and every operation.                                       *)
(*                                                                         *)
(* Keys are the keys that several requests may carry.  OnceKey stands for  *)
(* a key that no other request ever carries; the entry it leaves is never  *)
(* looked up again, so it is not recorded.  A request hash is the request  *)
(* itself: the hash covers every field, and requests of different          *)
(* operations have different fields.                                       *)
(***************************************************************************)
EXTENDS Integers

CONSTANTS Keys, OnceKey, NoEntry

ASSUME OnceKeyAssumption == OnceKey \notin Keys

VARIABLES
  entries,   \* the registry's Map
  answers    \* every successful reply sent for a key of Keys (history)

RequestKeys == Keys \cup {OnceKey}

RegistryInit == /\ entries = [k \in Keys |-> NoEntry]
                /\ answers = {}

\* execute calls the factory: the key has no entry.
Unseen(k) == k \in Keys => entries[k] = NoEntry

\* The factory returned: its response is stored and sent.  When it throws,
\* neither happens and the key stays unseen.
Remember(k, request, response) ==
  IF k = OnceKey
  THEN UNCHANGED <<entries, answers>>
  ELSE /\ entries' = [entries EXCEPT
                        ![k] = [request |-> request, response |-> response]]
       /\ answers' = answers \cup
            {[key |-> k, request |-> request, response |-> response]}

\* Faulty variant (mutant): the request under a known key is not compared.
ReplayAnyRequest(k, request) ==
  /\ k \in Keys
  /\ entries[k] # NoEntry
  /\ answers' = answers \cup {[key |-> k, request |-> request,
                               response |-> entries[k].response]}
  /\ UNCHANGED entries

\* The key has an entry: the stored response, unless the request differs from
\* the one the entry was made for (which is an error and changes nothing).
Replay(k, request) ==
  /\ k \in Keys
  /\ entries[k] # NoEntry
  /\ entries[k].request = request
  /\ answers' = answers \cup {[key |-> k, request |-> request,
                               response |-> entries[k].response]}
  /\ UNCHANGED entries
============================================================================
