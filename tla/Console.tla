------------------------------ MODULE Console ------------------------------
(***************************************************************************)
(* The live part of the operations console: the server's end of the stream,*)
(* the browser's, a polled resource and the wallet.  They share no state;  *)
(* one specification holds them side by side and "focus" says which of     *)
(* them moves.                                                             *)
(***************************************************************************)
EXTENDS SnapshotSocket, SolanaStream, PollingResource, WalletProvider

VARIABLE focus

vars == <<focus, socketVars, streamVars, pollingVars, walletVars>>

Parts == {"socket", "stream", "polling", "wallet"}

Init ==
  /\ focus \in Parts
  /\ SocketInit /\ StreamInit /\ PollingInit
  /\ WalletInit /\ (focus # "wallet" => preferred = None)

Rests(part, state) == IF focus = part THEN TRUE ELSE UNCHANGED state

Moves(part) ==
  /\ focus = part
  /\ Rests("socket", socketVars)
  /\ Rests("stream", streamVars)
  /\ Rests("polling", pollingVars)
  /\ Rests("wallet", walletVars)
  /\ UNCHANGED focus

Next ==
  \/ SocketNext /\ Moves("socket")
  \/ StreamNext /\ Moves("stream")
  \/ PollingNext /\ Moves("polling")
  \/ WalletNext /\ Moves("wallet")

\* Reads end by their abort timers, requests by those of the proxy, and timers
\* fire.  A network that can be reached answers a connection.
Fairness ==
  /\ WF_vars(TimerTicks /\ Moves("socket"))
  /\ \A p \in Publishes : WF_vars(PublishSteps(p) /\ Moves("socket"))
  /\ \A r \in 1..Runs : /\ WF_vars(Opens(r) /\ Moves("stream"))
                        /\ WF_vars(TimerFires(r) /\ Moves("stream"))
  /\ WF_vars((RequestSucceeds \/ RequestFails) /\ Moves("polling"))
  /\ \A c \in 1..Chains : WF_vars(PollTimerFires(c) /\ Moves("polling"))
  /\ WF_vars(DataAges /\ Moves("polling"))
  /\ \A a \in Accounts : WF_vars(LoadEnds(a) /\ Moves("wallet"))

Spec == Init /\ [][Next]_vars
FairSpec == Spec /\ Fairness

----------------------------------------------------------------------------
(* Properties. *)

TypeOK ==
  /\ focus \in Parts
  /\ SocketTypeOK /\ StreamTypeOK /\ PollingTypeOK /\ WalletTypeOK

\* However the subscriptions changed while its publish waited, a snapshot answers
\* a whole subscription that was in force at some moment since the publish was
\* started, and shows nothing that none of them asked for (publish in app.ts).
SnapshotsAnswer ==
  sent.kind = "snapshot" =>
    /\ \E subscription \in sent.asked : subscription \subseteq sent.payload
    /\ sent.payload \subseteq UNION sent.asked

\* A client that stays connected and leaves its subscription alone ends up with
\* snapshots of exactly that, or errors: a publish that an older subscription
\* started may be the last to end, but the interval starts another one.
SubscriptionsSettle ==
  \A subscription \in Subscriptions :
    <>[](socket = "open" /\ topics = subscription) =>
      <>[](\/ sent.kind = "error"
           \/ sent.kind = "snapshot" /\ sent.payload = subscription)

Lost == \E r \in 1..Runs : Closes(r)

\* When no connection is refused or lost any more, what is mounted gets LIVE and
\* stays so, however long the outage was.
StreamRecovers ==
  <>[](focus = "stream" /\ ~stopped) /\ <>[][~Lost]_vars => <>[](shown = "LIVE")

\* When every request fails, the data shown is marked as stale some day: a
\* failure, a hidden page or a second run of the effect does not stop the polls.
LossIsShown ==
  <>[](focus = "polling" /\ active) /\ <>[][~RequestSucceeds]_vars
    => <>[](age = -1 \/ stale)

\* After the page is gone the chains end, the ones another run left behind too.
PollingQuiets ==
  <>[]~active => <>[](~inFlight /\ timers = {})

\* Loads that end out of order may show the portfolio of another address, but
\* not for ever: where the address stays and the user refreshes now and then,
\* what is shown is the portfolio of that address or none.
RefreshHeals ==
  \A a \in Accounts :
    <>[](address = a) /\ []<><<RefreshClicked>>_vars => <>[](portfolio \in {a, None})
============================================================================
