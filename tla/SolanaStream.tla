---------------------------- MODULE SolanaStream ---------------------------
(***************************************************************************)
(* The browser's end of the stream (hooks/use-solana-stream.ts).  Every    *)
(* run of the effect is a closure with its own socket and reconnection     *)
(* timer; the retry counter is shared by all of them.  React runs an       *)
(* effect, cleans it up and runs it again in strict mode.                  *)
(*                                                                         *)
(* The counter stops at 5, where the delay min(30 s, 2^retry s) does.      *)
(***************************************************************************)
EXTENDS Integers, FiniteSets

CONSTANT Runs  \* how often the effect may run

ASSUME StreamAssumption == Runs \in Nat \ {0}

VARIABLES
  run,       \* the current run
  stopped,   \* whether it was cleaned up, and nothing is mounted
  link,      \* the socket of each run
  waiting,   \* the runs whose reconnection timer is set
  retry,
  shown      \* the state the page shows

streamVars == <<run, stopped, link, waiting, retry, shown>>

StreamInit ==
  /\ run = 1
  /\ stopped = FALSE
  /\ link = [r \in 1..Runs |-> IF r = 1 THEN "connecting" ELSE "none"]
  /\ waiting = {}
  /\ retry = 0
  /\ shown = "CONNECTING"

\* The closure of r was cleaned up.
IsStopped(r) == r # run \/ stopped

Label == IF retry > 0 THEN "RECONNECTING" ELSE "CONNECTING"

Opens(r) ==
  /\ link[r] = "connecting"
  /\ link' = [link EXCEPT ![r] = "open"]
  /\ retry' = 0
  /\ shown' = "LIVE"
  /\ UNCHANGED <<run, stopped, waiting>>

\* Faulty variant (mutant): the cleaned-up closure reconnects as well.
ReconnectsAlways(r) == TRUE

Reconnects(r) == ~IsStopped(r)

\* onclose: refused, lost, or the end of a socket its closure closed.
Closes(r) ==
  /\ link[r] # "none"
  /\ link' = [link EXCEPT ![r] = "none"]
  /\ IF Reconnects(r)
     THEN /\ waiting' = waiting \cup {r}
          /\ retry' = IF retry < 5 THEN retry + 1 ELSE retry
          /\ shown' = "RECONNECTING"
     ELSE UNCHANGED <<waiting, retry, shown>>
  /\ UNCHANGED <<run, stopped>>

\* Faulty variant (mutant): the client gives up at the longest delay.
TriesAgainBelowLimit(r) == ~IsStopped(r) /\ retry < 5

TriesAgain(r) == ~IsStopped(r)

TimerFires(r) ==
  /\ r \in waiting
  /\ waiting' = waiting \ {r}
  /\ IF TriesAgain(r) THEN link' = [link EXCEPT ![r] = "connecting"] /\ shown' = Label
     ELSE UNCHANGED <<link, shown>>
  /\ UNCHANGED <<run, stopped, retry>>

\* The cleanup closes the socket and clears the timer of its own closure.
CleanedUp == [link EXCEPT ![run] = IF @ = "none" THEN "none" ELSE "closing"]

Unmount ==
  /\ ~stopped
  /\ stopped' = TRUE
  /\ link' = CleanedUp
  /\ waiting' = waiting \ {run}
  /\ UNCHANGED <<run, retry, shown>>

\* Strict mode, or a page that is shown again.
RunsAgain ==
  /\ run < Runs
  /\ run' = run + 1
  /\ stopped' = FALSE
  /\ link' = [CleanedUp EXCEPT ![run + 1] = "connecting"]
  /\ waiting' = waiting \ {run}
  /\ shown' = Label
  /\ UNCHANGED retry

StreamNext ==
  \/ Unmount \/ RunsAgain
  \/ \E r \in 1..Runs : Opens(r) \/ Closes(r) \/ TimerFires(r)

StreamTypeOK ==
  /\ run \in 1..Runs
  /\ stopped \in BOOLEAN
  /\ link \in [1..Runs -> {"none", "connecting", "open", "closing"}]
  /\ waiting \subseteq 1..Runs
  /\ retry \in 0..5
  /\ shown \in {"CONNECTING", "LIVE", "RECONNECTING"}

----------------------------------------------------------------------------
(* Properties. *)

\* The page holds one connection at most, or the timer of the next one, and it
\* belongs to what is mounted: no closure that was cleaned up reconnects behind
\* its successor's back or after the page has gone.
OneConnection ==
  LET held == {r \in 1..Runs : r \in waiting \/ link[r] \in {"connecting", "open"}} IN
  held \subseteq {run} /\ (stopped => held = {}) /\ (link[run] = "none" \/ run \notin waiting)
============================================================================
