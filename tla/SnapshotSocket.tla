--------------------------- MODULE SnapshotSocket --------------------------
(***************************************************************************)
(* The handler of one WebSocket connection at /api/v1/ws/solana (app.ts).  *)
(* Publishes are started by the connection, by the timer and by every      *)
(* subscription; each awaits up to two reads and looks at the topics again *)
(* in between, so that they overlap with each other and with later         *)
(* subscriptions.                                                          *)
(*                                                                         *)
(* At most Publishes of them are under way at one time; a connection that  *)
(* is closed is followed by another one with a handler of its own.         *)
(***************************************************************************)
EXTENDS Integers, FiniteSets

CONSTANTS
  Publishes,     \* the publishes that can be under way at one time
  MessageLimit   \* messages answered before the connection is closed: 30

ASSUME SocketAssumption == MessageLimit \in Nat \ {0}

VARIABLES
  socket,     \* the state of the connection as the server sees it
  topics,
  messages,   \* messageCount
  ticking,    \* whether the interval runs
  publish,    \* what each publish waits for
  sent        \* the last frame

socketVars == <<socket, topics, messages, ticking, publish, sent>>

Topics == {"overview", "programs"}
Subscriptions == (SUBSET Topics) \ {{}}

\* asked: the subscriptions in force at some moment since it was started.
PublishStates == [awaits : Topics \cup {"none"}, payload : SUBSET Topics,
                  asked : SUBSET Subscriptions]
NoPublish == [awaits |-> "none", payload |-> {}, asked |-> {}]

Frames == [kind : {"none", "hello", "subscribed", "error", "snapshot"},
           payload : SUBSET Topics, asked : SUBSET Subscriptions]
Frame(kind) == [kind |-> kind, payload |-> {}, asked |-> {}]

SocketInit ==
  /\ socket = "closed"
  /\ topics = {"overview"}
  /\ messages = 0
  /\ ticking = FALSE
  /\ publish = [p \in Publishes |-> NoPublish]
  /\ sent = Frame("none")

Send(frame) == sent' = IF socket = "open" THEN frame ELSE sent

Pending(p) == publish[p].awaits # "none"

\* Faulty variant (mutant): the overview is read whether or not it is a topic.
StartedWithOverview(subscription) ==
  [awaits |-> "overview", payload |-> {}, asked |-> {subscription}]

\* Up to its first await a publish runs at once.
StartedFor(subscription) ==
  [awaits  |-> IF "overview" \in subscription THEN "overview" ELSE "programs",
   payload |-> {},
   asked   |-> {subscription}]

\* A new connection: hello, and the first publish for the default topics.
Accept ==
  /\ socket = "closed"
  /\ socket' = "open"
  /\ topics' = {"overview"}
  /\ messages' = 0
  /\ ticking' = TRUE
  /\ \E p \in Publishes :
       publish' = [q \in Publishes |->
                     IF q = p THEN StartedFor({"overview"}) ELSE NoPublish]
  /\ sent' = Frame("hello")

TimerTicks ==
  /\ ticking
  /\ \E p \in Publishes :
       ~Pending(p) /\ publish' = [publish EXCEPT ![p] = StartedFor(topics)]
  /\ UNCHANGED <<socket, topics, messages, ticking, sent>>

----------------------------------------------------------------------------
(* Messages.  Those after the one too many change nothing and are left out. *)

Received == socket = "open" /\ messages <= MessageLimit /\ messages' = messages + 1

TooMany ==
  /\ Received
  /\ messages = MessageLimit
  /\ Send(Frame("error"))
  /\ socket' = "closing"
  /\ UNCHANGED <<topics, ticking, publish>>

\* Too large, not JSON, or not a subscription.
Rejected ==
  /\ Received
  /\ messages < MessageLimit
  /\ Send(Frame("error"))
  /\ UNCHANGED <<socket, topics, ticking, publish>>

\* Faulty variant (mutant): a subscription to nothing known is taken as it is.
Unfilled(requested) == requested

\* Unknown topics are filtered out; nothing left means the overview.
Accepted(requested) == IF requested = {} THEN {"overview"} ELSE requested

Subscribe ==
  /\ Received
  /\ messages < MessageLimit
  /\ \E requested \in SUBSET Topics, p \in Publishes :
       LET subscription == Accepted(requested) IN
       /\ ~Pending(p)
       /\ topics' = subscription
       /\ publish' = [q \in Publishes |->
            IF q = p THEN StartedFor(subscription)
            ELSE IF Pending(q) THEN [publish[q] EXCEPT !.asked = @ \cup {subscription}]
            ELSE publish[q]]
  /\ Send(Frame("subscribed"))
  /\ UNCHANGED <<socket, ticking>>

----------------------------------------------------------------------------
(* The awaits of a publish. *)

Ends(p, frame) ==
  /\ publish' = [publish EXCEPT ![p] = NoPublish]
  /\ Send(frame)

\* Faulty variant (mutant): the programs are read whether or not they are a topic.
EveryTopic(p) == Topics

TopicsNow(p) == topics

OverviewRead(p) ==
  /\ publish[p].awaits = "overview"
  /\ IF "programs" \in TopicsNow(p)
     THEN /\ publish' = [publish EXCEPT ![p].awaits = "programs",
                                        ![p].payload = {"overview"}]
          /\ UNCHANGED sent
     ELSE Ends(p, [kind |-> "snapshot", payload |-> {"overview"},
                   asked |-> publish[p].asked])
  /\ UNCHANGED <<socket, topics, messages, ticking>>

ProgramsRead(p) ==
  /\ publish[p].awaits = "programs"
  /\ Ends(p, [kind |-> "snapshot", payload |-> publish[p].payload \cup {"programs"},
              asked |-> publish[p].asked])
  /\ UNCHANGED <<socket, topics, messages, ticking>>

ReadThrows(p) ==
  /\ Pending(p)
  /\ Ends(p, Frame("error"))
  /\ UNCHANGED <<socket, topics, messages, ticking>>

PublishSteps(p) == OverviewRead(p) \/ ProgramsRead(p) \/ ReadThrows(p)

----------------------------------------------------------------------------
\* The client is gone, or the closing handshake is over.
SocketCloses ==
  /\ socket # "closed"
  /\ socket' = "closed"
  /\ ticking' = FALSE
  /\ UNCHANGED <<topics, messages, publish, sent>>

SocketNext ==
  \/ Accept \/ TimerTicks \/ TooMany \/ Rejected \/ Subscribe \/ SocketCloses
  \/ \E p \in Publishes : PublishSteps(p)

SocketTypeOK ==
  /\ socket \in {"open", "closing", "closed"}
  /\ topics \in Subscriptions
  /\ messages \in 0..MessageLimit + 1
  /\ ticking \in BOOLEAN
  /\ publish \in [Publishes -> PublishStates]
  /\ sent \in Frames
============================================================================
