--------------------------- MODULE Console_proofs --------------------------
(***************************************************************************)
(* Proofs about the live console, for every number of overlapping          *)
(* publishes, of messages, of runs of an effect and of loads.              *)
(***************************************************************************)
EXTENDS Console, TLAPS

----------------------------------------------------------------------------
(* The server's end of the stream. *)

\* What a publish has read and reads now was asked for; one that awaits the
\* programs has the overview already or was asked for the programs alone.
AskedFor(x) ==
  /\ x.payload \cup {x.awaits} \subseteq UNION x.asked
  /\ x.awaits = "programs" => x.payload = {"overview"} \/ {"programs"} \in x.asked

\* Every publish under way was started for, or saw, the subscription in force.
SocketOK ==
  /\ SocketTypeOK
  /\ \A p \in Publishes :
       Pending(p) => topics \in publish[p].asked /\ AskedFor(publish[p])
  /\ SnapshotsAnswer

\* A frame that is no snapshot, or one that answers.
AnswersTopics(frame) ==
  frame.kind = "snapshot" =>
    /\ \E subscription \in frame.asked : subscription \subseteq frame.payload
    /\ frame.payload \subseteq UNION frame.asked

LEMMA SubscriptionsAreFilled ==
  ASSUME NEW requested \in SUBSET Topics
  PROVE  Accepted(requested) \in Subscriptions
  BY DEF Accepted, Subscriptions, Topics

LEMMA StartedIsTyped ==
  ASSUME NEW subscription \in Subscriptions
  PROVE  /\ StartedFor(subscription) \in PublishStates
         /\ StartedFor(subscription).awaits # "none"
         /\ StartedFor(subscription).asked = {subscription}
         /\ AskedFor(StartedFor(subscription))
<1>1. subscription \subseteq {"overview", "programs"} /\ subscription # {}
  BY DEF Subscriptions, Topics
<1>2. "overview" \notin subscription => subscription = {"programs"}
  BY <1>1
<1>3. StartedFor(subscription).awaits \in subscription
  BY <1>1, <1>2 DEF StartedFor
<1>4. UNION {subscription} = subscription
  OBVIOUS
<1>5. AskedFor(StartedFor(subscription))
  BY <1>2, <1>3, <1>4 DEF AskedFor, StartedFor
<1> QED
  BY <1>2, <1>5 DEF StartedFor, PublishStates, Topics

LEMMA EmptyFrames ==
  ASSUME NEW kind \in {"none", "hello", "subscribed", "error"}
  PROVE  Frame(kind) \in Frames /\ Frame(kind).kind # "snapshot" /\ AnswersTopics(Frame(kind))
  BY DEF Frame, Frames, AnswersTopics

LEMMA NoPublishIsTyped == NoPublish \in PublishStates /\ NoPublish.awaits = "none"
  BY DEF NoPublish, PublishStates

LEMMA SendKeepsAnswers ==
  ASSUME SnapshotsAnswer, sent \in Frames, NEW frame \in Frames, Send(frame),
         AnswersTopics(frame)
  PROVE  SnapshotsAnswer' /\ sent' \in Frames
  BY DEF SnapshotsAnswer, AnswersTopics, Send

\* A publish that ends leaves the others as they are.
LEMMA EndKeepsSocket ==
  ASSUME SocketOK, NEW p \in Publishes, NEW frame \in Frames, Ends(p, frame),
         UNCHANGED <<socket, topics, messages, ticking>>, AnswersTopics(frame)
  PROVE  SocketOK'
<1>1. SnapshotsAnswer' /\ sent' \in Frames
  BY SendKeepsAnswers DEF Ends, SocketOK, SocketTypeOK
<1>2. publish' = [publish EXCEPT ![p] = NoPublish]
  BY DEF Ends
<1>3. publish' \in [Publishes -> PublishStates]
  BY <1>2, NoPublishIsTyped DEF SocketOK, SocketTypeOK
<1>4. SocketTypeOK'
  BY <1>1, <1>3 DEF SocketOK, SocketTypeOK
<1>5. \A q \in Publishes : Pending(q)' => publish'[q] = publish[q] /\ Pending(q)
  BY <1>2, NoPublishIsTyped DEF Pending, SocketOK, SocketTypeOK
<1> QED
  BY <1>1, <1>4, <1>5 DEF SocketOK

LEMMA AcceptKeepsSocket ==
  ASSUME SocketOK, Accept
  PROVE  SocketOK'
<1>1. {"overview"} \in Subscriptions
  BY DEF Subscriptions, Topics
<1>2. PICK p \in Publishes :
        publish' = [q \in Publishes |->
                      IF q = p THEN StartedFor({"overview"}) ELSE NoPublish]
  BY DEF Accept
<1>3. publish' \in [Publishes -> PublishStates]
  BY <1>1, <1>2, StartedIsTyped, NoPublishIsTyped
<1>4. sent' = Frame("hello") /\ topics' = {"overview"}
      /\ socket' = "open" /\ messages' = 0 /\ ticking' = TRUE
  BY DEF Accept
<1>5. SnapshotsAnswer' /\ sent' \in Frames
  BY <1>4, EmptyFrames DEF SnapshotsAnswer
<1>6. SocketTypeOK'
  BY <1>1, <1>3, <1>4, <1>5, SocketAssumption DEF SocketTypeOK
<1>7. \A q \in Publishes : Pending(q)' => publish'[q] = StartedFor({"overview"})
  BY <1>2, NoPublishIsTyped DEF Pending
<1> QED
  BY <1>1, <1>4, <1>5, <1>6, <1>7, StartedIsTyped DEF SocketOK

LEMMA TickKeepsSocket ==
  ASSUME SocketOK, TimerTicks
  PROVE  SocketOK'
<1>1. PICK p \in Publishes : publish' = [publish EXCEPT ![p] = StartedFor(topics)]
  BY DEF TimerTicks
<1>2. UNCHANGED <<socket, topics, messages, ticking, sent>>
  BY DEF TimerTicks
<1>3. topics \in Subscriptions
  BY DEF SocketOK, SocketTypeOK
<1>4. publish' \in [Publishes -> PublishStates]
  BY <1>1, <1>3, StartedIsTyped DEF SocketOK, SocketTypeOK
<1>5. SocketTypeOK'
  BY <1>2, <1>4 DEF SocketOK, SocketTypeOK
<1>6. \A q \in Publishes : publish'[q] = publish[q] \/ publish'[q] = StartedFor(topics)
  BY <1>1 DEF SocketOK, SocketTypeOK
<1>7. SnapshotsAnswer'
  BY <1>2 DEF SocketOK, SnapshotsAnswer
<1>8. ASSUME NEW q \in Publishes, Pending(q)'
      PROVE  topics' \in publish'[q].asked /\ AskedFor(publish'[q])
  <2>1. CASE publish'[q] = publish[q]
    BY <1>2, <1>8, <2>1 DEF SocketOK, Pending
  <2>2. CASE publish'[q] = StartedFor(topics)
    BY <1>2, <1>3, <2>2, StartedIsTyped
  <2> QED
    BY <1>6, <2>1, <2>2
<1> QED
  BY <1>5, <1>7, <1>8 DEF SocketOK

LEMMA SubscribeKeepsSocket ==
  ASSUME SocketOK, Subscribe
  PROVE  SocketOK'
<1>1. PICK requested \in SUBSET Topics, p \in Publishes :
        /\ topics' = Accepted(requested)
        /\ publish' = [q \in Publishes |->
             IF q = p THEN StartedFor(Accepted(requested))
             ELSE IF Pending(q)
                  THEN [publish[q] EXCEPT !.asked = @ \cup {Accepted(requested)}]
             ELSE publish[q]]
  BY DEF Subscribe
<1> DEFINE subscription == Accepted(requested)
<1>2. subscription \in Subscriptions
  BY SubscriptionsAreFilled
<1> HIDE DEF subscription
<1>3. \A q \in Publishes :
        \/ publish'[q] = StartedFor(subscription)
        \/ /\ Pending(q)
           /\ publish'[q] = [publish[q] EXCEPT !.asked = @ \cup {subscription}]
        \/ ~Pending(q) /\ publish'[q] = publish[q]
  BY <1>1 DEF subscription
<1>4. \A q \in Publishes : publish[q] \in PublishStates
  BY DEF SocketOK, SocketTypeOK
<1>5. ASSUME NEW q \in Publishes
      PROVE  /\ publish'[q] \in PublishStates
             /\ Pending(q)' =>
                  subscription \in publish'[q].asked /\ AskedFor(publish'[q])
  <2>1. CASE publish'[q] = StartedFor(subscription)
    BY <1>2, <2>1, StartedIsTyped
  <2>2. CASE /\ Pending(q)
             /\ publish'[q] = [publish[q] EXCEPT !.asked = @ \cup {subscription}]
    <3>1. /\ publish'[q].awaits = publish[q].awaits
          /\ publish'[q].payload = publish[q].payload
          /\ publish'[q].asked = publish[q].asked \cup {subscription}
          /\ publish'[q] \in PublishStates
      BY <1>2, <1>4, <2>2 DEF PublishStates
    <3>2. AskedFor(publish[q])
      BY <2>2 DEF SocketOK
    <3>3. UNION publish[q].asked \subseteq UNION publish'[q].asked
      BY <3>1
    <3> QED
      BY <3>1, <3>2, <3>3 DEF AskedFor
  <2>3. CASE ~Pending(q) /\ publish'[q] = publish[q]
    BY <1>4, <2>3 DEF Pending
  <2> QED
    BY <1>3, <2>1, <2>2, <2>3
<1>6. publish' \in [Publishes -> PublishStates]
  <2>1. publish' = [q \in Publishes |-> publish'[q]]
    BY <1>1
  <2> QED
    BY <1>5, <2>1
<1>7. SnapshotsAnswer' /\ sent' \in Frames
  BY EmptyFrames, SendKeepsAnswers DEF Subscribe, SocketOK, SocketTypeOK
<1>8. /\ topics' = subscription
      /\ messages' \in 0..MessageLimit + 1
      /\ UNCHANGED <<socket, ticking>>
  BY <1>1, SocketAssumption DEF Subscribe, Received, SocketOK, SocketTypeOK, subscription
<1>9. SocketTypeOK'
  BY <1>2, <1>6, <1>7, <1>8 DEF SocketOK, SocketTypeOK
<1> QED
  BY <1>5, <1>7, <1>8, <1>9 DEF SocketOK

LEMMA OverviewKeepsSocket ==
  ASSUME SocketOK, NEW p \in Publishes, OverviewRead(p)
  PROVE  SocketOK'
<1>1. /\ publish[p] \in PublishStates /\ publish[p].awaits = "overview"
      /\ UNCHANGED <<socket, topics, messages, ticking>>
      /\ topics \in publish[p].asked /\ topics \in Subscriptions
      /\ "overview" \in UNION publish[p].asked
  BY DEF OverviewRead, SocketOK, SocketTypeOK, Pending, AskedFor
<1>2. CASE "programs" \in topics
  <2>1. /\ publish' = [publish EXCEPT ![p].awaits = "programs",
                                      ![p].payload = {"overview"}]
        /\ UNCHANGED sent
    BY <1>2 DEF OverviewRead, TopicsNow
  <2>2. publish' = [publish EXCEPT ![p] =
                      [publish[p] EXCEPT !.awaits = "programs", !.payload = {"overview"}]]
    BY <2>1
  <2>3. publish'[p] = [publish[p] EXCEPT !.awaits = "programs", !.payload = {"overview"}]
        /\ \A q \in Publishes \ {p} : publish'[q] = publish[q]
    BY <2>2 DEF SocketOK, SocketTypeOK
  <2>4. /\ publish'[p] \in PublishStates
        /\ publish'[p].asked = publish[p].asked /\ publish'[p].payload = {"overview"}
        /\ publish'[p].awaits = "programs"
    BY <1>1, <2>3 DEF PublishStates, Topics
  <2>5. publish' \in [Publishes -> PublishStates]
    BY <2>2, <2>3, <2>4 DEF SocketOK, SocketTypeOK
  <2>6. SocketTypeOK'
    BY <1>1, <2>1, <2>5 DEF SocketOK, SocketTypeOK
  <2>7. SnapshotsAnswer'
    BY <2>1 DEF SocketOK, SnapshotsAnswer
  <2>8. AskedFor(publish'[p])
    BY <1>1, <1>2, <2>4 DEF AskedFor
  <2> QED
    BY <1>1, <2>3, <2>4, <2>6, <2>7, <2>8 DEF SocketOK, Pending
<1>3. CASE "programs" \notin topics
  <2> DEFINE frame == [kind |-> "snapshot", payload |-> {"overview"},
                       asked |-> publish[p].asked]
  <2>1. Ends(p, frame)
    BY <1>3 DEF OverviewRead, TopicsNow
  <2>2. topics \subseteq {"overview"}
    BY <1>1, <1>3 DEF Subscriptions, Topics
  <2>3. frame \in Frames
    BY <1>1 DEF Frames, PublishStates, Topics
  <2>4. AnswersTopics(frame)
    BY <1>1, <2>2 DEF AnswersTopics
  <2> HIDE DEF frame
  <2> QED
    BY <1>1, <2>1, <2>3, <2>4, EndKeepsSocket
<1> QED
  BY <1>2, <1>3

LEMMA ProgramsKeepSocket ==
  ASSUME SocketOK, NEW p \in Publishes, ProgramsRead(p)
  PROVE  SocketOK'
<1> DEFINE frame == [kind |-> "snapshot", payload |-> publish[p].payload \cup {"programs"},
                     asked |-> publish[p].asked]
<1>1. /\ publish[p] \in PublishStates /\ Ends(p, frame)
      /\ UNCHANGED <<socket, topics, messages, ticking>>
      /\ topics \in publish[p].asked /\ topics \in Subscriptions
      /\ publish[p].payload = {"overview"} \/ {"programs"} \in publish[p].asked
      /\ publish[p].payload \cup {"programs"} \subseteq UNION publish[p].asked
  BY DEF ProgramsRead, SocketOK, SocketTypeOK, Pending, AskedFor
<1>2. frame \in Frames
  BY <1>1 DEF Frames, PublishStates, Topics
<1>3. AnswersTopics(frame)
  <2> SUFFICES \E subscription \in frame.asked : subscription \subseteq frame.payload
    BY <1>1 DEF AnswersTopics
  <2>1. CASE publish[p].payload = {"overview"}
    BY <1>1, <2>1 DEF Subscriptions, Topics
  <2>2. CASE {"programs"} \in publish[p].asked
    BY <2>2
  <2> QED
    BY <1>1, <2>1, <2>2
<1> HIDE DEF frame
<1> QED
  BY <1>1, <1>2, <1>3, EndKeepsSocket

LEMMA StepKeepsSocket ==
  ASSUME SocketOK, SocketNext
  PROVE  SocketOK'
<1>1. CASE TooMany \/ Rejected
  <2>1. SnapshotsAnswer' /\ sent' \in Frames
    BY <1>1, EmptyFrames, SendKeepsAnswers DEF TooMany, Rejected, SocketOK, SocketTypeOK
  <2>2. /\ UNCHANGED <<topics, publish, ticking>>
        /\ socket' \in {"open", "closing", "closed"}
        /\ messages' \in 0..MessageLimit + 1
    BY <1>1, SocketAssumption DEF TooMany, Rejected, Received, SocketOK, SocketTypeOK
  <2> QED
    BY <2>1, <2>2 DEF SocketOK, SocketTypeOK, Pending
<1>2. CASE SocketCloses
  BY <1>2 DEF SocketCloses, SocketOK, SocketTypeOK, SnapshotsAnswer, Pending
<1>3. CASE \E p \in Publishes : ReadThrows(p)
  BY <1>3, EmptyFrames, EndKeepsSocket DEF ReadThrows
<1> QED
  BY <1>1, <1>2, <1>3, AcceptKeepsSocket, TickKeepsSocket, SubscribeKeepsSocket,
     OverviewKeepsSocket, ProgramsKeepSocket DEF SocketNext, PublishSteps

LEMMA SocketInvariant == Spec => []SocketOK
<1>1. Init => SocketOK
  <2> SUFFICES ASSUME Init PROVE SocketOK
    OBVIOUS
  <2>1. SocketInit
    BY DEF Init
  <2>2. {"overview"} \in Subscriptions
    BY DEF Subscriptions, Topics
  <2>3. SocketTypeOK
    <3>1. publish \in [Publishes -> PublishStates]
      BY <2>1, NoPublishIsTyped DEF SocketInit
    <3>2. sent \in Frames
      BY <2>1, EmptyFrames DEF SocketInit
    <3>3. messages \in 0..MessageLimit + 1
      BY <2>1, SocketAssumption DEF SocketInit
    <3> QED
      BY <2>1, <2>2, <3>1, <3>2, <3>3 DEF SocketInit, SocketTypeOK
  <2>4. SnapshotsAnswer
    BY <2>1, EmptyFrames DEF SocketInit, SnapshotsAnswer
  <2>5. \A p \in Publishes : ~Pending(p)
    BY <2>1, NoPublishIsTyped DEF SocketInit, Pending
  <2> QED
    BY <2>3, <2>4, <2>5 DEF SocketOK
<1>2. SocketOK /\ [Next]_vars => SocketOK'
  <2> SUFFICES ASSUME SocketOK, [Next]_vars PROVE SocketOK'
    OBVIOUS
  <2>1. CASE UNCHANGED socketVars
    BY <2>1 DEF SocketOK, SocketTypeOK, SnapshotsAnswer, Pending, socketVars
  <2>2. CASE SocketNext
    BY <2>2, StepKeepsSocket
  <2> QED
    BY <2>1, <2>2 DEF Next, vars, Moves, Rests
<1> QED
  BY <1>1, <1>2, PTL DEF Spec

\* A snapshot answers a subscription that was in force since its publish began,
\* however many publishes overlap.
THEOREM SnapshotsCorrect == Spec => []SnapshotsAnswer
<1>1. SocketOK => SnapshotsAnswer
  BY DEF SocketOK
<1> QED
  BY <1>1, SocketInvariant, PTL

----------------------------------------------------------------------------
(* The browser's end of the stream. *)

\* OneConnection keeps itself: only what is mounted connects, waits or counts.
StreamOK == StreamTypeOK /\ OneConnection

\* OneConnection, without the set it names.
LEMMA HeldByTheMounted ==
  OneConnection <=>
    /\ \A r \in 1..Runs :
         r \in waiting \/ link[r] \in {"connecting", "open"} => r = run /\ ~stopped
    /\ link[run] = "none" \/ run \notin waiting
  BY DEF OneConnection

LEMMA CleanUp ==
  ASSUME StreamTypeOK
  PROVE  /\ CleanedUp \in [1..Runs -> {"none", "connecting", "open", "closing"}]
         /\ CleanedUp[run] \in {"none", "closing"}
         /\ \A r \in 1..Runs : r # run => CleanedUp[r] = link[r]
  BY DEF CleanedUp, StreamTypeOK

LEMMA StepKeepsStream ==
  ASSUME StreamOK, StreamNext
  PROVE  StreamOK'
<1> DEFINE Links == {"none", "connecting", "open", "closing"}
           Alone == /\ \A r \in 1..Runs :
                         r \in waiting \/ link[r] \in {"connecting", "open"}
                           => r = run /\ ~stopped
                    /\ link[run] = "none" \/ run \notin waiting
<1>1. Runs \in Nat /\ StreamTypeOK /\ Alone
  BY StreamAssumption, HeldByTheMounted DEF StreamOK
<1>2. SUFFICES StreamTypeOK' /\ Alone'
  <2>1. OneConnection' <=> Alone'
    BY DEF OneConnection
  <2> QED
    BY <2>1 DEF StreamOK
<1>3. CASE Unmount
  <2>1. /\ run' = run /\ retry' = retry /\ shown' = shown /\ stopped' = TRUE
        /\ link' = CleanedUp /\ waiting' = waiting \ {run}
    BY <1>3 DEF Unmount
  <2> QED
    BY <1>1, <2>1, CleanUp DEF StreamTypeOK
<1>4. CASE RunsAgain
  <2>1. /\ run < Runs /\ run' = run + 1 /\ stopped' = FALSE /\ retry' = retry
        /\ link' = [CleanedUp EXCEPT ![run + 1] = "connecting"]
        /\ waiting' = waiting \ {run}
        /\ shown' = Label
    BY <1>4 DEF RunsAgain
  <2>2. run \in 1..Runs /\ run + 1 \in 1..Runs /\ run + 1 # run
    BY <1>1, <2>1 DEF StreamTypeOK
  <2>3. shown' \in {"CONNECTING", "LIVE", "RECONNECTING"}
    BY <2>1 DEF Label
  <2>4. link' \in [1..Runs -> Links]
    BY <1>1, <2>1, CleanUp
  <2>5. StreamTypeOK'
    BY <1>1, <2>1, <2>2, <2>3, <2>4 DEF StreamTypeOK
  <2>6. \A r \in 1..Runs : r # run + 1 => link'[r] = CleanedUp[r]
    BY <1>1, <2>1, CleanUp
  <2>7. Alone'
    BY <1>1, <2>1, <2>2, <2>6, CleanUp
  <2> QED
    BY <2>5, <2>7
<1>5. CASE \E r \in 1..Runs : Opens(r)
  <2>1. PICK r \in 1..Runs : Opens(r)
    BY <1>5
  <2>2. r = run /\ ~stopped
    BY <1>1, <2>1 DEF Opens
  <2>3. /\ link' = [link EXCEPT ![run] = "open"] /\ link[run] = "connecting"
        /\ retry' = 0 /\ shown' = "LIVE"
        /\ UNCHANGED <<run, stopped, waiting>>
    BY <2>1, <2>2 DEF Opens
  <2> QED
    BY <1>1, <2>2, <2>3 DEF StreamTypeOK
<1>6. CASE \E r \in 1..Runs : Closes(r)
  <2>1. PICK r \in 1..Runs : Closes(r)
    BY <1>6
  <2>2. link' = [link EXCEPT ![r] = "none"] /\ UNCHANGED <<run, stopped>>
    BY <2>1 DEF Closes
  <2>3. CASE Reconnects(r)
    <3>1. r = run /\ ~stopped
      BY <2>3 DEF Reconnects, IsStopped
    <3>2. /\ waiting' = waiting \cup {r} /\ shown' = "RECONNECTING"
          /\ retry' = IF retry < 5 THEN retry + 1 ELSE retry
      BY <2>1, <2>3 DEF Closes
    <3>3. retry' \in 0..5
      BY <1>1, <3>2 DEF StreamTypeOK
    <3> QED
      BY <1>1, <2>2, <3>1, <3>2, <3>3 DEF StreamTypeOK
  <2>4. CASE ~Reconnects(r)
    <3>1. UNCHANGED <<waiting, retry, shown>>
      BY <2>1, <2>4 DEF Closes
    <3> QED
      BY <1>1, <2>2, <3>1 DEF StreamTypeOK
  <2> QED
    BY <2>3, <2>4
<1>7. CASE \E r \in 1..Runs : TimerFires(r)
  <2>1. PICK r \in 1..Runs : TimerFires(r)
    BY <1>7
  <2>2. r = run /\ ~stopped /\ TriesAgain(r)
    BY <1>1, <2>1 DEF TimerFires, TriesAgain, IsStopped
  <2>3. /\ link' = [link EXCEPT ![run] = "connecting"] /\ shown' = Label
        /\ waiting' = waiting \ {run} /\ UNCHANGED <<run, stopped, retry>>
    BY <2>1, <2>2 DEF TimerFires
  <2>4. shown' \in {"CONNECTING", "LIVE", "RECONNECTING"}
    BY <2>3 DEF Label
  <2> QED
    BY <1>1, <2>2, <2>3, <2>4 DEF StreamTypeOK
<1> QED
  BY <1>3, <1>4, <1>5, <1>6, <1>7 DEF StreamNext

LEMMA StreamInvariant == Spec => []StreamOK
<1>1. Init => StreamOK
  <2> SUFFICES ASSUME StreamInit PROVE StreamOK
    BY DEF Init
  <2>1. Runs \in Nat /\ 1 \in 1..Runs
    BY StreamAssumption
  <2>2. StreamTypeOK
    <3>1. link \in [1..Runs -> {"none", "connecting", "open", "closing"}]
      BY DEF StreamInit
    <3>2. /\ run = 1 /\ stopped = FALSE /\ waiting = {} /\ retry = 0
          /\ shown = "CONNECTING"
      BY DEF StreamInit
    <3>3. run \in 1..Runs /\ waiting \subseteq 1..Runs /\ retry \in 0..5
      BY <2>1, <3>2
    <3>4. stopped \in BOOLEAN /\ shown \in {"CONNECTING", "LIVE", "RECONNECTING"}
      BY <3>2
    <3> QED
      BY <3>1, <3>3, <3>4 DEF StreamTypeOK
  <2>3. \A r \in 1..Runs : link[r] # "none" => r = run
    BY <2>1 DEF StreamInit
  <2>4. OneConnection
    BY <2>3 DEF StreamInit, OneConnection
  <2> QED
    BY <2>2, <2>4 DEF StreamOK
<1>2. StreamOK /\ [Next]_vars => StreamOK'
  <2> SUFFICES ASSUME StreamOK, [Next]_vars PROVE StreamOK'
    OBVIOUS
  <2>1. CASE UNCHANGED streamVars
    BY <2>1 DEF StreamOK, StreamTypeOK, OneConnection, streamVars
  <2>2. CASE StreamNext
    BY <2>2, StepKeepsStream
  <2> QED
    BY <2>1, <2>2 DEF Next, vars, Moves, Rests
<1> QED
  BY <1>1, <1>2, PTL DEF Spec

\* The page holds one connection at most and it belongs to what is mounted, for
\* every number of runs of the effect.
THEOREM OneConnectionCorrect == Spec => []OneConnection
<1>1. StreamOK => OneConnection
  BY DEF StreamOK
<1> QED
  BY <1>1, StreamInvariant, PTL

\* What is mounted has a connection, opening or open, or the timer of the next
\* one, and the page shows which: LIVE exactly while it is open.
StreamGoesOn ==
  ~stopped =>
    /\ link[run] # "closing"
    /\ link[run] = "none" => run \in waiting
    /\ shown = "LIVE" <=> link[run] = "open"
    /\ shown = "LIVE" => retry = 0
    /\ shown = "RECONNECTING" => retry > 0
    /\ shown = "CONNECTING" => retry = 0 /\ link[run] = "connecting"

LEMMA StepKeepsGoing ==
  ASSUME StreamOK, StreamOK', StreamGoesOn, StreamNext
  PROVE  StreamGoesOn'
<1>1. /\ Runs \in Nat /\ StreamTypeOK /\ run \in 1..Runs
      /\ link \in [1..Runs -> {"none", "connecting", "open", "closing"}]
      /\ retry \in 0..5
  BY StreamAssumption DEF StreamOK, StreamTypeOK
<1>2. \A r \in 1..Runs :
        r \in waiting \/ link[r] \in {"connecting", "open"} => r = run /\ ~stopped
  BY HeldByTheMounted DEF StreamOK
<1>3. CASE Unmount
  BY <1>3 DEF Unmount, StreamGoesOn
<1>4. CASE RunsAgain
  <2>1. /\ run < Runs /\ run' = run + 1 /\ retry' = retry /\ shown' = Label
        /\ link' = [CleanedUp EXCEPT ![run + 1] = "connecting"]
    BY <1>4 DEF RunsAgain
  <2>2. run + 1 \in 1..Runs
    BY <1>1, <2>1
  <2>3. link'[run'] = "connecting"
    BY <1>1, <2>1, <2>2, CleanUp
  <2>4. shown' = IF retry' > 0 THEN "RECONNECTING" ELSE "CONNECTING"
    BY <2>1 DEF Label
  <2>5. retry' = 0 \/ retry' > 0
    BY <1>1, <2>1
  <2> QED
    BY <2>3, <2>4, <2>5 DEF StreamGoesOn
<1>5. ASSUME NEW r \in 1..Runs, Opens(r)
      PROVE  StreamGoesOn'
  <2>1. r = run
    BY <1>2, <1>5 DEF Opens
  <2>2. link'[run'] = "open" /\ retry' = 0 /\ shown' = "LIVE"
    BY <1>1, <1>5, <2>1 DEF Opens
  <2> QED
    BY <2>2 DEF StreamGoesOn
<1>6. ASSUME NEW r \in 1..Runs, Closes(r)
      PROVE  StreamGoesOn'
  <2>1. /\ link' = [link EXCEPT ![r] = "none"] /\ UNCHANGED <<run, stopped>>
    BY <1>6 DEF Closes
  <2>2. CASE Reconnects(r)
    <3>1. r = run /\ ~stopped
      BY <2>2 DEF Reconnects, IsStopped
    <3>2. /\ run' \in waiting' /\ shown' = "RECONNECTING" /\ link'[run'] = "none"
          /\ retry' = IF retry < 5 THEN retry + 1 ELSE retry
      BY <1>1, <1>6, <2>1, <2>2, <3>1 DEF Closes
    <3>3. retry' > 0
      BY <1>1, <3>2
    <3> QED
      BY <3>2, <3>3 DEF StreamGoesOn
  <2>3. CASE ~Reconnects(r)
    <3>1. stopped \/ r # run
      BY <2>3 DEF Reconnects, IsStopped
    <3>2. UNCHANGED <<waiting, retry, shown>>
      BY <1>6, <2>3 DEF Closes
    <3> QED
      BY <1>1, <2>1, <3>1, <3>2 DEF StreamGoesOn
  <2> QED
    BY <2>2, <2>3
<1>7. ASSUME NEW r \in 1..Runs, TimerFires(r)
      PROVE  StreamGoesOn'
  <2>1. r = run /\ ~stopped
    BY <1>2, <1>7 DEF TimerFires
  <2>2. /\ link'[run'] = "connecting" /\ shown' = Label /\ retry' = retry
    BY <1>1, <1>7, <2>1 DEF TimerFires, TriesAgain, IsStopped
  <2>3. shown' = IF retry' > 0 THEN "RECONNECTING" ELSE "CONNECTING"
    BY <2>2 DEF Label
  <2>4. retry' = 0 \/ retry' > 0
    BY <1>1, <2>2
  <2> QED
    BY <2>2, <2>3, <2>4 DEF StreamGoesOn
<1> QED
  BY <1>3, <1>4, <1>5, <1>6, <1>7 DEF StreamNext

\* The safety half of StreamRecovers, for every number of runs: no order of
\* closes, cleanups and timers leaves what is mounted without a connection and
\* without a timer, or the page with a label that is not true of it
\* (connect, onopen and onclose of use-solana-stream.ts).
THEOREM StreamGoesOnCorrect == Spec => []StreamGoesOn
<1>1. Init => StreamGoesOn
  BY StreamAssumption DEF Init, StreamInit, StreamGoesOn
<1>2. StreamOK /\ StreamOK' /\ StreamGoesOn /\ [Next]_vars => StreamGoesOn'
  <2> SUFFICES ASSUME StreamOK, StreamOK', StreamGoesOn, [Next]_vars PROVE StreamGoesOn'
    OBVIOUS
  <2>1. CASE UNCHANGED streamVars
    BY <2>1 DEF StreamGoesOn, streamVars
  <2>2. CASE StreamNext
    BY <2>2, StepKeepsGoing
  <2> QED
    BY <2>1, <2>2 DEF Next, vars, Moves, Rests
<1> QED
  BY <1>1, <1>2, StreamInvariant, PTL DEF Spec

----------------------------------------------------------------------------
(* The polled resource and the wallet: their types. *)

LEMMA PollingInvariant == Spec => []PollingTypeOK
<1>1. Init => PollingTypeOK
  <2>1. 1 \in 1..Chains /\ -1 \in -1..StaleAfter + 1
    BY PollingAssumption
  <2> QED
    BY <2>1 DEF Init, PollingInit, PollingTypeOK
<1>2. PollingTypeOK /\ [Next]_vars => PollingTypeOK'
  <2> SUFFICES ASSUME PollingTypeOK, [Next]_vars PROVE PollingTypeOK'
    OBVIOUS
  <2> USE PollingAssumption DEF PollingTypeOK
  <2>1. CASE UNCHANGED pollingVars
    BY <2>1 DEF pollingVars
  <2>2. CASE PollingNext
    <3>1. CASE RequestSucceeds
      <4>1. 0 \in -1..StaleAfter + 1 /\ Scheduled \subseteq 1..Chains
        BY DEF Scheduled
      <4>2. age' \in -1..StaleAfter + 1 /\ stale' \in BOOLEAN /\ timers' \subseteq 1..Chains
        BY <3>1, <4>1 DEF RequestSucceeds
      <4> QED
        BY <3>1, <4>2 DEF RequestSucceeds, RequestEnds
    <3>2. CASE RequestFails
      <4>1. Scheduled \subseteq 1..Chains
        BY DEF Scheduled
      <4>2. StaleNow \in BOOLEAN
        <5>1. CASE active /\ age >= 0
          BY <5>1 DEF StaleNow
        <5>2. CASE ~(active /\ age >= 0)
          BY <5>2 DEF StaleNow
        <5> QED
          BY <5>1, <5>2
      <4> QED
        BY <3>2, <4>1, <4>2 DEF RequestFails, RequestEnds
    <3>3. CASE Kick \/ PollingUnmounts
      BY <3>3 DEF Kick, PollingUnmounts, Refresh
    <3>4. CASE EffectRunsAgain
      BY <3>4 DEF EffectRunsAgain, Refresh
    <3>5. CASE DataAges
      BY <3>5 DEF DataAges
    <3>6. CASE \E c \in 1..Chains : PollTimerFires(c)
      BY <3>6 DEF PollTimerFires, Refresh
    <3> QED
      BY <2>2, <3>1, <3>2, <3>3, <3>4, <3>5, <3>6 DEF PollingNext
  <2> QED
    BY <2>1, <2>2 DEF Next, vars, Moves, Rests
<1> QED
  BY <1>1, <1>2, PTL DEF Spec

LEMMA LoadIsTyped ==
  ASSUME WalletTypeOK, NEW a \in Accounts, Load(a)
  PROVE  loads' \in [Accounts -> 0..MaxLoads] /\ loading' = TRUE
<1>1. /\ MaxLoads \in Nat /\ loads[a] \in 0..MaxLoads
      /\ loads[a] < MaxLoads
      /\ loads' = [loads EXCEPT ![a] = loads[a] + 1] /\ loading' = TRUE
  BY WalletAssumption DEF WalletTypeOK, Load
<1>2. loads[a] + 1 \in 0..MaxLoads
  BY <1>1
<1> QED
  BY <1>1, <1>2 DEF WalletTypeOK

LEMMA WalletInvariant == Spec => []WalletTypeOK
<1>1. Init => WalletTypeOK
  <2>1. 0 \in 0..MaxLoads
    BY WalletAssumption
  <2> QED
    BY <2>1 DEF Init, WalletInit, WalletTypeOK
<1>2. WalletTypeOK /\ [Next]_vars => WalletTypeOK'
  <2> SUFFICES ASSUME WalletTypeOK, [Next]_vars PROVE WalletTypeOK'
    OBVIOUS
  <2>1. CASE UNCHANGED walletVars
    BY <2>1 DEF walletVars, WalletTypeOK
  <2>2. CASE WalletNext
    <3>1. CASE AccountChanged
      BY <3>1, LoadIsTyped DEF AccountChanged, WalletTypeOK
    <3>2. CASE WalletLeaves \/ DisconnectClicked \/ Disconnected \/ DisconnectionFails
      BY <3>2 DEF WalletLeaves, DisconnectClicked, Disconnected, DisconnectionFails, Clear,
           WalletTypeOK
    <3>3. CASE RefreshClicked
      <4>1. address \in Accounts
        BY <3>3 DEF RefreshClicked, WalletTypeOK
      <4>2. loads' \in [Accounts -> 0..MaxLoads] /\ loading' = TRUE
        BY <3>3, <4>1, LoadIsTyped DEF RefreshClicked, CurrentOne
      <4> QED
        BY <3>3, <4>2 DEF RefreshClicked, WalletTypeOK
    <3>4. CASE \E k \in Kinds : ConnectClicked(k) \/ ConnectionFails(k)
      BY <3>4 DEF ConnectClicked, ConnectionFails, WalletTypeOK
    <3>5. CASE \E k \in Kinds : Connected(k)
      BY <3>5, LoadIsTyped DEF Connected, WalletTypeOK
    <3>6. CASE \E a \in Accounts : LoadEnds(a)
      <4>1. PICK a \in Accounts : LoadEnds(a)
        BY <3>6
      <4>2. /\ MaxLoads \in Nat /\ loads[a] \in 0..MaxLoads /\ loads[a] > 0
            /\ loads' = [loads EXCEPT ![a] = loads[a] - 1]
        BY <4>1, WalletAssumption DEF LoadEnds, WalletTypeOK
      <4>3. loads[a] - 1 \in 0..MaxLoads
        BY <4>2
      <4>4. loads' \in [Accounts -> 0..MaxLoads]
        BY <4>2, <4>3 DEF WalletTypeOK
      <4> QED
        BY <4>1, <4>4 DEF LoadEnds, WalletTypeOK
    <3> QED
      BY <2>2, <3>1, <3>2, <3>3, <3>4, <3>5, <3>6 DEF WalletNext
  <2> QED
    BY <2>1, <2>2 DEF Next, vars, Moves, Rests
<1> QED
  BY <1>1, <1>2, PTL DEF Spec

\* The type invariant of the console, for every size of its parts.
THEOREM ConsoleTypeCorrect == Spec => []TypeOK
<1>1. Init => focus \in Parts
  BY DEF Init
<1>2. focus \in Parts /\ [Next]_vars => (focus \in Parts)'
  BY DEF Next, Moves, vars
<1>3. SocketOK /\ StreamOK /\ PollingTypeOK /\ WalletTypeOK /\ focus \in Parts => TypeOK
  BY DEF TypeOK, SocketOK, StreamOK
<1> QED
  BY <1>1, <1>2, <1>3, SocketInvariant, StreamInvariant, PollingInvariant, WalletInvariant,
     PTL DEF Spec

----------------------------------------------------------------------------
(* The polls go on, and the wallet agrees with its address. *)

\* While the hook is active its current chain waits for a refresh that is under
\* way or for its timer; no chain does both; and data is marked as stale only
\* when it is too old.
PollingGoesOn ==
  /\ active => chain \in awaiting \cup timers
  /\ awaiting # {} => inFlight
  /\ awaiting \cap timers = {}
  /\ awaiting \cup timers \subseteq 1..chain
  /\ ~active => chain \notin timers
  /\ stale => age > StaleAfter

LEMMA StepKeepsPolling ==
  ASSUME PollingTypeOK, PollingGoesOn, PollingNext
  PROVE  PollingGoesOn'
<1>1. /\ Chains \in Nat /\ StaleAfter \in Nat /\ chain \in 1..Chains
      /\ age \in -1..StaleAfter + 1
  BY PollingAssumption DEF PollingTypeOK
<1>2. CASE RequestSucceeds
  <2>1. /\ awaiting' = {} /\ timers' = timers \cup Scheduled
        /\ UNCHANGED <<chain, active>>
        /\ age' = IF active THEN 0 ELSE age
        /\ stale' = IF active THEN FALSE ELSE stale
    BY <1>2 DEF RequestSucceeds, RequestEnds
  <2>2. stale' => age' > StaleAfter
    BY <2>1 DEF PollingGoesOn
  <2> QED
    BY <2>1, <2>2 DEF PollingGoesOn, Scheduled
<1>3. CASE RequestFails
  <2>1. /\ awaiting' = {} /\ timers' = timers \cup Scheduled
        /\ UNCHANGED <<chain, active, age>>
        /\ stale' = StaleNow
    BY <1>3 DEF RequestFails, RequestEnds
  <2>2. stale' => age' > StaleAfter
    <3>1. CASE active /\ age >= 0
      BY <2>1, <3>1 DEF StaleNow
    <3>2. CASE ~(active /\ age >= 0)
      BY <2>1, <3>2 DEF StaleNow, PollingGoesOn
    <3> QED
      BY <3>1, <3>2
  <2> QED
    BY <2>1, <2>2 DEF PollingGoesOn, Scheduled
<1>4. CASE Kick
  BY <1>4 DEF Kick, Refresh, PollingGoesOn
<1>5. CASE EffectRunsAgain
  <2>1. /\ chain' = chain + 1 /\ timers' = timers \ {chain} /\ inFlight' = TRUE
        /\ awaiting' = awaiting \cup {chain + 1} /\ UNCHANGED <<active, age, stale>>
        /\ active
    BY <1>5 DEF EffectRunsAgain, Refresh
  <2>2. chain + 1 \notin 1..chain /\ 1..chain \subseteq 1..chain + 1
        /\ chain + 1 \in 1..chain + 1
    BY <1>1
  <2> QED
    BY <2>1, <2>2 DEF PollingGoesOn
<1>6. CASE PollingUnmounts
  BY <1>6 DEF PollingUnmounts, PollingGoesOn
<1>7. CASE DataAges
  <2>1. age' = age + 1 /\ UNCHANGED <<chain, active, inFlight, awaiting, timers, stale>>
    BY <1>7 DEF DataAges
  <2>2. stale' => age' > StaleAfter
    BY <1>1, <2>1 DEF PollingGoesOn
  <2> QED
    BY <2>1, <2>2 DEF PollingGoesOn
<1>8. ASSUME NEW c \in 1..Chains, PollTimerFires(c)
      PROVE  PollingGoesOn'
  <2>1. /\ c \in timers /\ timers' = timers \ {c} /\ inFlight' = TRUE
        /\ awaiting' = awaiting \cup {c} /\ UNCHANGED <<chain, active, age, stale>>
    BY <1>8 DEF PollTimerFires, Refresh
  <2> QED
    BY <2>1 DEF PollingGoesOn
<1> QED
  BY <1>2, <1>3, <1>4, <1>5, <1>6, <1>7, <1>8 DEF PollingNext

\* The safety half of LossIsShown, for every number of runs of the effect and
\* every staleAfterMs: no failure, visibility change, manual refresh or second
\* run leaves an active hook without a poll to come (use-polling-resource.ts).
THEOREM PollingGoesOnCorrect == Spec => []PollingGoesOn
<1>1. Init => PollingGoesOn
  BY PollingAssumption DEF Init, PollingInit, PollingGoesOn
<1>2. PollingTypeOK /\ PollingGoesOn /\ [Next]_vars => PollingGoesOn'
  <2> SUFFICES ASSUME PollingTypeOK, PollingGoesOn, [Next]_vars PROVE PollingGoesOn'
    OBVIOUS
  <2>1. CASE UNCHANGED pollingVars
    BY <2>1 DEF PollingGoesOn, pollingVars
  <2>2. CASE PollingNext
    BY <2>2, StepKeepsPolling
  <2> QED
    BY <2>1, <2>2 DEF Next, vars, Moves, Rests
<1> QED
  BY <1>1, <1>2, PollingInvariant, PTL DEF Spec

\* There is an address exactly while there is a wallet, and the page says that
\* it loads only while a load is under way.
WalletAgrees ==
  /\ wallet = None <=> address = None
  /\ loading => \E a \in Accounts : loads[a] > 0

LEMMA StepKeepsAgreement ==
  ASSUME WalletTypeOK, WalletAgrees, WalletNext
  PROVE  WalletAgrees'
<1>1. ASSUME NEW a \in Accounts, Load(a)
      PROVE  loads'[a] > 0
  <2>1. loads[a] \in 0..MaxLoads /\ MaxLoads \in Nat
    BY WalletAssumption DEF WalletTypeOK
  <2>2. loads'[a] = loads[a] + 1
    BY <1>1 DEF Load, WalletTypeOK
  <2> QED
    BY <2>1, <2>2
<1>2. CASE AccountChanged
  BY <1>1, <1>2, WalletAssumption DEF AccountChanged, WalletAgrees
<1>3. CASE WalletLeaves \/ DisconnectClicked \/ Disconnected \/ DisconnectionFails
  BY <1>3 DEF WalletLeaves, DisconnectClicked, Disconnected, DisconnectionFails, Clear,
       WalletAgrees
<1>4. CASE RefreshClicked
  <2>1. address \in Accounts /\ Load(address) /\ UNCHANGED <<wallet, address>>
    BY <1>4 DEF RefreshClicked, CurrentOne, WalletTypeOK
  <2> QED
    BY <1>1, <2>1 DEF WalletAgrees
<1>5. CASE \E k \in Kinds : ConnectClicked(k) \/ ConnectionFails(k)
  <2>1. UNCHANGED <<wallet, address, loading, loads>>
    BY <1>5 DEF ConnectClicked, ConnectionFails
  <2> QED
    BY <2>1 DEF WalletAgrees
<1>6. CASE \E k \in Kinds : Connected(k)
  <2>1. PICK k \in Kinds, a \in Accounts :
          wallet' = k /\ address' = a /\ Load(a)
    BY <1>6 DEF Connected
  <2>2. wallet' # None /\ address' # None
    BY <2>1, WalletAssumption
  <2> QED
    BY <1>1, <2>1, <2>2 DEF WalletAgrees
<1>7. CASE \E a \in Accounts : LoadEnds(a)
  BY <1>7 DEF LoadEnds, WalletAgrees
<1> QED
  BY <1>2, <1>3, <1>4, <1>5, <1>6, <1>7 DEF WalletNext

\* However connections, disconnections, account changes and loads overtake each
\* other, the wallet and its address come and go together, and the page does not
\* say it loads when nothing does (wallet-provider.tsx).
THEOREM WalletAgreesCorrect == Spec => []WalletAgrees
<1>1. Init => WalletAgrees
  BY DEF Init, WalletInit, WalletAgrees
<1>2. WalletTypeOK /\ WalletAgrees /\ [Next]_vars => WalletAgrees'
  <2> SUFFICES ASSUME WalletTypeOK, WalletAgrees, [Next]_vars PROVE WalletAgrees'
    OBVIOUS
  <2>1. CASE UNCHANGED walletVars
    BY <2>1 DEF WalletAgrees, walletVars
  <2>2. CASE WalletNext
    BY <2>2, StepKeepsAgreement
  <2> QED
    BY <2>1, <2>2 DEF Next, vars, Moves, Rests
<1> QED
  BY <1>1, <1>2, WalletInvariant, PTL DEF Spec

----------------------------------------------------------------------------
(* What is settled stays settled: the safety halves of SubscriptionsSettle, *)
(* PollingQuiets and RefreshHeals.                                          *)

\* A publish that will send a snapshot of exactly these topics, or an error.
Answers(state, subscription) ==
  /\ state.asked = {subscription}
  /\ state.awaits = "overview" => "overview" \in subscription
  /\ state.awaits = "programs" => state.payload \cup {"programs"} = subscription

SocketSettled ==
  /\ \A p \in Publishes : Pending(p) => Answers(publish[p], topics)
  /\ sent.kind = "snapshot" => sent.payload = topics

LEMMA StartedAnswers ==
  ASSUME NEW subscription \in Subscriptions
  PROVE  Answers(StartedFor(subscription), subscription)
<1>1. subscription \subseteq {"overview", "programs"} /\ subscription # {}
  BY DEF Subscriptions, Topics
<1>2. "overview" \notin subscription => subscription = {"programs"}
  BY <1>1
<1> QED
  BY <1>2 DEF StartedFor, Answers

LEMMA SettledSocketStep ==
  ASSUME SocketOK, SocketSettled, SocketNext, topics' = topics
  PROVE  SocketSettled'
<1>1. /\ publish \in [Publishes -> PublishStates] /\ topics \in Subscriptions
      /\ \A p \in Publishes : publish[p] \in PublishStates
  BY DEF SocketOK, SocketTypeOK
<1>2. Answers(StartedFor(topics), topics)
  BY <1>1, StartedAnswers
<1>3. ASSUME NEW frame, Send(frame), frame.kind = "snapshot" => frame.payload = topics
      PROVE  sent'.kind = "snapshot" => sent'.payload = topics'
  BY <1>3 DEF Send, SocketSettled
<1>4. ASSUME \A p \in Publishes :
               Pending(p)' => Answers(publish'[p], topics),
             sent'.kind = "snapshot" => sent'.payload = topics'
      PROVE  SocketSettled'
  BY <1>4 DEF SocketSettled
<1>5. CASE Accept
  <2>1. PICK p \in Publishes :
          publish' = [q \in Publishes |->
                        IF q = p THEN StartedFor({"overview"}) ELSE NoPublish]
    BY <1>5 DEF Accept
  <2>2. topics = {"overview"} /\ sent' = Frame("hello")
    BY <1>5 DEF Accept
  <2>3. \A q \in Publishes : Pending(q)' => publish'[q] = StartedFor(topics)
    BY <2>1, <2>2, NoPublishIsTyped DEF Pending
  <2> QED
    BY <1>2, <1>4, <2>2, <2>3, EmptyFrames
<1>6. CASE TimerTicks
  <2>1. PICK p \in Publishes : publish' = [publish EXCEPT ![p] = StartedFor(topics)]
    BY <1>6 DEF TimerTicks
  <2>2. \A q \in Publishes : publish'[q] = publish[q] \/ publish'[q] = StartedFor(topics)
    BY <1>1, <2>1
  <2>3. sent' = sent
    BY <1>6 DEF TimerTicks
  <2> QED
    BY <1>2, <1>4, <2>2, <2>3 DEF SocketSettled, Pending
<1>7. CASE TooMany \/ Rejected
  <2>1. Send(Frame("error")) /\ publish' = publish
    BY <1>7 DEF TooMany, Rejected
  <2>2. Frame("error").kind # "snapshot"
    BY EmptyFrames
  <2> QED
    BY <1>3, <1>4, <2>1, <2>2 DEF SocketSettled, Pending
<1>8. CASE Subscribe
  <2>1. PICK p \in Publishes :
          publish' = [q \in Publishes |->
             IF q = p THEN StartedFor(topics)
             ELSE IF Pending(q) THEN [publish[q] EXCEPT !.asked = @ \cup {topics}]
             ELSE publish[q]]
    BY <1>8 DEF Subscribe
  <2>2. ASSUME NEW q \in Publishes, Pending(q)'
        PROVE  Answers(publish'[q], topics)
    <3>1. CASE q = p
      BY <1>2, <2>1, <3>1
    <3>2. CASE q # p /\ Pending(q)
      <4>1. publish'[q] = [publish[q] EXCEPT !.asked = @ \cup {topics}]
        BY <2>1, <3>2
      <4>2. publish[q].asked \cup {topics} = publish[q].asked
        BY <3>2 DEF SocketSettled, Answers
      <4>3. publish'[q] = publish[q]
        BY <1>1, <4>1, <4>2 DEF PublishStates
      <4> QED
        BY <3>2, <4>3 DEF SocketSettled
    <3>3. CASE q # p /\ ~Pending(q)
      BY <2>1, <2>2, <3>3 DEF Pending
    <3> QED
      BY <3>1, <3>2, <3>3
  <2>3. Send(Frame("subscribed"))
    BY <1>8 DEF Subscribe
  <2>4. Frame("subscribed").kind # "snapshot"
    BY EmptyFrames
  <2> QED
    BY <1>3, <1>4, <2>2, <2>3, <2>4
<1>9. CASE SocketCloses
  <2>1. UNCHANGED <<publish, sent>>
    BY <1>9 DEF SocketCloses
  <2> QED
    BY <1>4, <2>1 DEF SocketSettled, Pending
<1>10. ASSUME NEW p \in Publishes, NEW frame, Ends(p, frame),
              frame.kind = "snapshot" => frame.payload = topics
       PROVE  SocketSettled'
  <2>1. Send(frame) /\ publish' = [publish EXCEPT ![p] = NoPublish]
    BY <1>10 DEF Ends
  <2>2. \A q \in Publishes : Pending(q)' => publish'[q] = publish[q] /\ Pending(q)
    BY <1>1, <2>1, NoPublishIsTyped DEF Pending
  <2> QED
    BY <1>3, <1>4, <1>10, <2>1, <2>2 DEF SocketSettled
<1>11. ASSUME NEW p \in Publishes, OverviewRead(p)
       PROVE  SocketSettled'
  <2>1. publish[p].awaits = "overview" /\ Pending(p)
    BY <1>11 DEF OverviewRead, Pending
  <2>2. "overview" \in topics /\ publish[p].asked = {topics}
    BY <2>1 DEF SocketSettled, Answers
  <2>3. topics \subseteq {"overview", "programs"}
    BY <1>1 DEF Subscriptions, Topics
  <2>4. CASE "programs" \in topics
    <3>1. /\ publish' = [publish EXCEPT ![p].awaits = "programs",
                                        ![p].payload = {"overview"}]
          /\ sent' = sent
      BY <1>11, <2>4 DEF OverviewRead, TopicsNow
    <3>2. publish' = [publish EXCEPT ![p] =
                        [publish[p] EXCEPT !.awaits = "programs", !.payload = {"overview"}]]
      BY <3>1
    <3>3. /\ publish'[p] = [publish[p] EXCEPT !.awaits = "programs",
                                              !.payload = {"overview"}]
          /\ \A q \in Publishes : q # p => publish'[q] = publish[q]
      BY <1>1, <3>2
    <3>4. /\ publish'[p].awaits = "programs" /\ publish'[p].payload = {"overview"}
          /\ publish'[p].asked = {topics}
      BY <1>1, <2>2, <3>3 DEF PublishStates
    <3>5. {"overview"} \cup {"programs"} = topics
      BY <2>2, <2>3, <2>4
    <3>6. Answers(publish'[p], topics)
      BY <3>4, <3>5 DEF Answers
    <3> QED
      BY <1>4, <3>1, <3>3, <3>6 DEF SocketSettled, Pending
  <2>5. CASE "programs" \notin topics
    <3> DEFINE frame == [kind |-> "snapshot", payload |-> {"overview"},
                         asked |-> publish[p].asked]
    <3>1. Ends(p, frame)
      BY <1>11, <2>5 DEF OverviewRead, TopicsNow
    <3>2. frame.payload = topics
      BY <2>2, <2>3, <2>5
    <3> HIDE DEF frame
    <3> QED
      BY <1>10, <3>1, <3>2
  <2> QED
    BY <2>4, <2>5
<1>12. ASSUME NEW p \in Publishes, ProgramsRead(p)
       PROVE  SocketSettled'
  <2> DEFINE frame == [kind |-> "snapshot",
                       payload |-> publish[p].payload \cup {"programs"},
                       asked |-> publish[p].asked]
  <2>1. Ends(p, frame) /\ publish[p].awaits = "programs"
    BY <1>12 DEF ProgramsRead
  <2>2. frame.payload = topics
    BY <2>1 DEF SocketSettled, Answers, Pending
  <2> HIDE DEF frame
  <2> QED
    BY <1>10, <2>1, <2>2
<1>13. ASSUME NEW p \in Publishes, ReadThrows(p)
       PROVE  SocketSettled'
  <2>1. Ends(p, Frame("error")) /\ Frame("error").kind # "snapshot"
    BY <1>13, EmptyFrames DEF ReadThrows
  <2> QED
    BY <1>10, <2>1
<1> QED
  BY <1>5, <1>6, <1>7, <1>8, <1>9, <1>11, <1>12, <1>13 DEF SocketNext, PublishSteps

\* Once every publish under way was started for the subscription in force, and
\* until it changes, whatever is sent is a snapshot of exactly its topics or no
\* snapshot at all, however the publishes overlap (publish in app.ts).
THEOREM SettledSocketLasts ==
  Spec => [][SocketSettled /\ topics' = topics => SocketSettled']_vars
<1>1. SocketOK /\ [Next]_vars
        => [SocketSettled /\ topics' = topics => SocketSettled']_vars
  <2> SUFFICES ASSUME SocketOK, [Next]_vars, SocketSettled, topics' = topics
               PROVE  SocketSettled'
    OBVIOUS
  <2>1. CASE UNCHANGED socketVars
    BY <2>1 DEF socketVars, SocketSettled, Pending
  <2>2. CASE SocketNext
    BY <2>2, SettledSocketStep
  <2> QED
    BY <2>1, <2>2 DEF Next, vars, Moves, Rests
<1> QED
  BY <1>1, SocketInvariant, PTL DEF Spec

\* After the page is gone no chain is added to those that still wait or have a
\* timer: they only end (cleanup and schedule of use-polling-resource.ts).
THEOREM ChainsOnlyEnd ==
  Spec => [][~active => /\ ~active'
                        /\ awaiting' \cup timers' \subseteq awaiting \cup timers]_vars
<1> DEFINE ends == ~active => /\ ~active'
                              /\ awaiting' \cup timers' \subseteq awaiting \cup timers
<1>1. [Next]_vars => [ends]_vars
  <2> SUFFICES ASSUME [Next]_vars, ~active
               PROVE  ~active' /\ awaiting' \cup timers' \subseteq awaiting \cup timers
    OBVIOUS
  <2>1. CASE UNCHANGED pollingVars
    BY <2>1 DEF pollingVars
  <2>2. CASE RequestSucceeds \/ RequestFails
    BY <2>2 DEF RequestSucceeds, RequestFails, RequestEnds, Scheduled
  <2>3. CASE Kick \/ EffectRunsAgain \/ PollingUnmounts
    BY <2>3 DEF Kick, EffectRunsAgain, PollingUnmounts
  <2>4. CASE DataAges
    BY <2>4 DEF DataAges
  <2>5. CASE \E c \in 1..Chains : PollTimerFires(c)
    BY <2>5 DEF PollTimerFires, Refresh
  <2> QED
    BY <2>1, <2>2, <2>3, <2>4, <2>5 DEF Next, PollingNext, vars, Moves, Rests
<1> QED
  BY <1>1, PTL DEF Spec

\* What is shown belongs to the address, and so does every load under way.
PortfolioSettled(a) ==
  /\ address = a
  /\ portfolio \in {a, None}
  /\ \A b \in Accounts : loads[b] > 0 => b = a

\* Once the loads of other addresses have ended the portfolio shown is that of
\* the address, or none, for as long as the address stays: whatever connects,
\* refreshes or ends in between (loadPortfolio of wallet-provider.tsx).
THEOREM PortfolioSettledLasts ==
  Spec => [][\A a \in Accounts :
               PortfolioSettled(a) /\ address' = a => PortfolioSettled(a)']_vars
<1> DEFINE lasts == \A a \in Accounts :
                      PortfolioSettled(a) /\ address' = a => PortfolioSettled(a)'
<1>1. WalletTypeOK /\ [Next]_vars => [lasts]_vars
  <2> SUFFICES ASSUME WalletTypeOK, [Next]_vars, NEW a \in Accounts,
                      PortfolioSettled(a), address' = a
               PROVE  PortfolioSettled(a)'
    OBVIOUS
  <2>1. ASSUME UNCHANGED loads, portfolio' \in {portfolio, None}
        PROVE  PortfolioSettled(a)'
    BY <2>1 DEF PortfolioSettled
  <2>2. ASSUME Load(a), portfolio' \in {portfolio, None}
        PROVE  PortfolioSettled(a)'
    <3>1. \A b \in Accounts : b # a => loads'[b] = loads[b]
      BY <2>2 DEF Load, WalletTypeOK
    <3> QED
      BY <2>2, <3>1 DEF PortfolioSettled
  <2>3. CASE UNCHANGED walletVars
    BY <2>1, <2>3 DEF walletVars
  <2>4. CASE AccountChanged
    BY <2>2, <2>4 DEF AccountChanged
  <2>5. CASE \E k \in Kinds : Connected(k)
    BY <2>2, <2>5 DEF Connected
  <2>6. CASE RefreshClicked
    BY <2>2, <2>6 DEF RefreshClicked, CurrentOne, PortfolioSettled
  <2>7. CASE \/ WalletLeaves \/ DisconnectClicked \/ Disconnected \/ DisconnectionFails
             \/ \E k \in Kinds : ConnectClicked(k) \/ ConnectionFails(k)
    BY <2>1, <2>7
    DEF WalletLeaves, DisconnectClicked, Disconnected, DisconnectionFails, Clear,
        ConnectClicked, ConnectionFails
  <2>8. ASSUME NEW b \in Accounts, LoadEnds(b)
        PROVE  PortfolioSettled(a)'
    <3>1. b = a
      BY <2>8 DEF LoadEnds, PortfolioSettled
    <3>2. /\ portfolio' \in {a, None}
          /\ loads' = [loads EXCEPT ![a] = loads[a] - 1]
      BY <2>8, <3>1 DEF LoadEnds
    <3>3. \A d \in Accounts : d # a => loads'[d] = loads[d]
      BY <3>2 DEF WalletTypeOK
    <3> QED
      BY <3>2, <3>3 DEF PortfolioSettled
  <2> QED
    BY <2>3, <2>4, <2>5, <2>6, <2>7, <2>8 DEF Next, WalletNext, vars, Moves, Rests
<1> QED
  BY <1>1, WalletInvariant, PTL DEF Spec
============================================================================
