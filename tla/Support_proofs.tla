--------------------------- MODULE Support_proofs --------------------------
(***************************************************************************)
(* Proofs about the commission arithmetic, the API process, the portfolio  *)
(* request and the release gate, for every value of their constants.       *)
(***************************************************************************)
EXTENDS Support, SequenceTheorems, TLAPS

----------------------------------------------------------------------------
(* The commission. *)

Shares == [total : Nat, community : Nat, ecosystem : Nat]

CommissionOK ==
  /\ fundings \in Nat
  /\ proceeds \in Nat
  /\ charged \in Shares
  /\ quoted \in Shares
  /\ CommissionsAgree

\* Floors add up to the floor of the sum or to one less.
LEMMA FloorsAddUp ==
  ASSUME NEW a \in Nat, NEW b \in Nat
  PROVE  /\ a \div 10000 \in Nat
         /\ a \div 10000 + b \div 10000 <= (a + b) \div 10000
         /\ (a + b) \div 10000 <= a \div 10000 + b \div 10000 + 1
  OBVIOUS

\* The two computations of one funding: the same community share, and a total
\* that is quoted at most a unit lower.
LEMMA OneFunding ==
  ASSUME NEW amount \in Nat
  PROVE  LET c == SuccessfulFundingCommission(amount)
             q == BuildSuccessCommission(amount)
         IN /\ c \in Shares
            /\ q \in Shares
            /\ c.community + c.ecosystem = c.total
            /\ q.community + q.ecosystem = q.total
            /\ q.community = c.community
            /\ q.total <= c.total
            /\ c.total <= q.total + 1
            /\ c.total = FloorBps(amount, 500)
<1> DEFINE five == FloorBps(amount, 500)
           two == FloorBps(amount, 200)
           three == FloorBps(amount, 300)
<1>1. /\ five \in Nat /\ two \in Nat /\ three \in Nat
      /\ two + three <= five
      /\ five <= two + three + 1
  <2>1. /\ amount * 200 \in Nat /\ amount * 300 \in Nat
        /\ amount * 500 = amount * 200 + amount * 300
    OBVIOUS
  <2> QED
    BY <2>1, FloorsAddUp DEF FloorBps
<1>2. SuccessfulFundingCommission(amount)
        = [total |-> five, community |-> two, ecosystem |-> five - two]
  BY DEF SuccessfulFundingCommission
<1>3. BuildSuccessCommission(amount)
        = [total |-> two + three, community |-> two, ecosystem |-> three]
  BY DEF BuildSuccessCommission
<1> HIDE DEF five, two, three
<1>4. five = FloorBps(amount, 500)
  BY DEF five
<1> QED
  BY <1>1, <1>2, <1>3, <1>4 DEF Shares

\* A funding keeps the invariant.
LEMMA FundingKeepsCommission ==
  ASSUME CommissionOK, NEW amount \in Nat, FundingCharged(amount)
  PROVE  CommissionOK'
<1> DEFINE c == SuccessfulFundingCommission(amount)
           q == BuildSuccessCommission(amount)
<1>1. /\ c \in Shares /\ q \in Shares
      /\ c.community + c.ecosystem = c.total
      /\ q.community + q.ecosystem = q.total
      /\ q.community = c.community
      /\ q.total <= c.total
      /\ c.total <= q.total + 1
      /\ c.total = FloorBps(amount, 500)
  BY OneFunding
<1> HIDE DEF c, q
<1>2. /\ fundings' = fundings + 1
      /\ proceeds' = proceeds + amount
      /\ charged' = Plus(charged, c)
      /\ quoted' = Plus(quoted, q)
  BY DEF FundingCharged, c, q
<1>3. /\ fundings \in Nat /\ proceeds \in Nat
      /\ charged \in Shares /\ quoted \in Shares
  BY DEF CommissionOK
<1>4. /\ FloorBps(proceeds, 500) \in Nat
      /\ FloorBps(proceeds, 500) + c.total <= FloorBps(proceeds', 500)
      /\ FloorBps(proceeds', 500) <= FloorBps(proceeds, 500) + c.total + 1
  <2>1. /\ proceeds * 500 \in Nat /\ amount * 500 \in Nat
        /\ (proceeds + amount) * 500 = proceeds * 500 + amount * 500
    BY <1>3
  <2> QED
    BY <2>1, <1>1, <1>2, FloorsAddUp DEF FloorBps
<1>5. FloorBps(proceeds', 500) \in Nat
  BY <1>2, <1>3, FloorsAddUp DEF FloorBps
<1>6. /\ charged'.total = charged.total + c.total
      /\ charged'.community = charged.community + c.community
      /\ charged'.ecosystem = charged.ecosystem + c.ecosystem
      /\ quoted'.total = quoted.total + q.total
      /\ quoted'.community = quoted.community + q.community
      /\ quoted'.ecosystem = quoted.ecosystem + q.ecosystem
      /\ charged' \in Shares /\ quoted' \in Shares
  BY <1>1, <1>2, <1>3 DEF Plus, Shares
<1>7. CommissionsAgree
  BY DEF CommissionOK
<1>8. CommissionsAgree'
  <2> SUFFICES /\ charged'.community + charged'.ecosystem = charged'.total
               /\ quoted'.community + quoted'.ecosystem = quoted'.total
               /\ quoted'.community = charged'.community
               /\ quoted'.total <= charged'.total
               /\ charged'.total <= quoted'.total + fundings'
               /\ charged'.total <= FloorBps(proceeds', 500)
               /\ FloorBps(proceeds', 500) <= charged'.total + fundings'
    BY DEF CommissionsAgree, FloorBps
  <2> DEFINE before == FloorBps(proceeds, 500)
             after == FloorBps(proceeds', 500)
  <2>1. /\ before \in Nat /\ after \in Nat
        /\ before + c.total <= after
        /\ after <= before + c.total + 1
        /\ charged.total <= before
        /\ before <= charged.total + fundings
    BY <1>4, <1>5, <1>7 DEF CommissionsAgree
  <2> HIDE DEF before, after
  <2>2. /\ charged.total \in Nat /\ charged.community \in Nat /\ charged.ecosystem \in Nat
        /\ quoted.total \in Nat /\ quoted.community \in Nat /\ quoted.ecosystem \in Nat
        /\ c.total \in Nat /\ c.community \in Nat /\ c.ecosystem \in Nat
        /\ q.total \in Nat /\ q.community \in Nat /\ q.ecosystem \in Nat
    BY <1>1, <1>3 DEF Shares
  <2>3. /\ charged'.community + charged'.ecosystem = charged'.total
        /\ quoted'.community + quoted'.ecosystem = quoted'.total
        /\ quoted'.community = charged'.community
        /\ quoted'.total <= charged'.total
        /\ charged'.total <= quoted'.total + fundings'
    BY <1>1, <1>2, <1>3, <1>6, <1>7, <2>2 DEF CommissionsAgree
  <2>4. charged'.total <= after /\ after <= charged'.total + fundings'
    BY <1>2, <1>3, <1>6, <2>1, <2>2
  <2> QED
    BY <2>3, <2>4 DEF after
<1> QED
  BY <1>2, <1>3, <1>6, <1>8 DEF CommissionOK

\* The commission of domain/fees.ts and the quote of packages/fees agree on the
\* community and differ by a unit per funding at most, for every series of amounts.
THEOREM CommissionCorrect == Spec => []CommissionsAgree
<1>1. Init => CommissionOK
  BY FloorsAddUp DEF Init, CommissionInit, CommissionOK, CommissionsAgree, Shares, Nothing,
       FloorBps
<1>2. CommissionOK /\ [Next]_vars => CommissionOK'
  <2> SUFFICES ASSUME CommissionOK, [Next]_vars PROVE CommissionOK'
    OBVIOUS
  <2>1. CASE UNCHANGED commissionVars
    BY <2>1 DEF CommissionOK, CommissionsAgree, commissionVars, FloorBps
  <2>2. CASE \E amount \in Amounts : FundingCharged(amount)
    BY <2>2, FundingKeepsCommission, CommissionAssumption
  <2> QED
    BY <2>1, <2>2 DEF Next, vars, Moves, Rests, CommissionNext
<1>3. CommissionOK => CommissionsAgree
  BY DEF CommissionOK
<1> QED
  BY <1>1, <1>2, <1>3, PTL DEF Spec

----------------------------------------------------------------------------
(* The API process. *)

\* The search has moved one port per attempt, in development only, and only for a
\* configuration the check let through.
ServerOK ==
  /\ config \in Configurations
  /\ attempt \in 1..MaxAttempts
  /\ port = config.port + attempt - 1
  /\ config.production => attempt = 1
  /\ server \in {"starting", "listening"} => Problems(config) = {}
  /\ server = "listening" => port <= LastPort

LEMMA ServerStepKeepsServer ==
  ASSUME ServerOK, ServerNext
  PROVE  ServerOK'
<1>1. /\ config.port \in Nat /\ config.production \in BOOLEAN
      /\ MaxAttempts \in Nat /\ MaxAttempts > 0 /\ LastPort \in Nat
  BY ServerAssumption DEF ServerOK, ConfigurationSpace
<1>2. CASE ConfigRefused
  BY <1>2 DEF ConfigRefused, ServerOK
<1>3. CASE ConfigAccepted
  BY <1>3 DEF ConfigAccepted, ServerOK
<1>4. CASE Listens
  BY <1>1, <1>4 DEF Listens, ServerOK
<1>5. CASE PortIsTaken
  <2>1. CASE AllowPortFallback /\ attempt < MaxAttempts
    <3>1. /\ ~config.production
          /\ port' = port + 1 /\ attempt' = attempt + 1
          /\ server = "starting" /\ server' = server /\ config' = config
      BY <1>5, <2>1 DEF PortIsTaken, AllowPortFallback
    <3> QED
      BY <1>1, <2>1, <3>1 DEF ServerOK
  <2>2. CASE ~(AllowPortFallback /\ attempt < MaxAttempts)
    BY <1>5, <2>2 DEF PortIsTaken, ServerOK
  <2> QED
    BY <2>1, <2>2
<1>6. CASE ListenFails
  BY <1>6 DEF ListenFails, ServerOK
<1>7. CASE \E p \in Ports : OthersBind(p) \/ OthersRelease(p)
  BY <1>7 DEF OthersBind, OthersRelease, ServerOK
<1>8. CASE \E s \in {"SIGINT", "SIGTERM"} : Signalled(s)
  <2>1. UNCHANGED <<config, port, attempt>> /\ server' \in {"closing", "ended"}
    BY <1>8 DEF Signalled
  <2> QED
    BY <2>1 DEF ServerOK
<1>9. CASE Closed
  BY <1>9 DEF Closed, ServerOK
<1> QED
  BY <1>2, <1>3, <1>4, <1>5, <1>6, <1>7, <1>8, <1>9 DEF ServerNext

\* Whatever other processes do with the ports, for every environment and every
\* number of attempts, the API listens only where and how it may.
THEOREM ListeningCorrect == Spec => []ListeningIsAllowed
<1>1. Init => ServerOK
  BY ServerAssumption DEF Init, ServerInit, ServerOK, ConfigurationSpace
<1>2. ServerOK /\ [Next]_vars => ServerOK'
  <2> SUFFICES ASSUME ServerOK, [Next]_vars PROVE ServerOK'
    OBVIOUS
  <2>1. CASE UNCHANGED serverVars
    BY <2>1 DEF ServerOK, serverVars
  <2>2. CASE ServerNext
    BY <2>2, ServerStepKeepsServer
  <2> QED
    BY <2>1, <2>2 DEF Next, vars, Moves, Rests
<1>3. ServerOK => ListeningIsAllowed
  <2> SUFFICES ASSUME ServerOK, server = "listening" PROVE ListeningIsAllowed
    BY DEF ListeningIsAllowed
  <2>1. /\ config \in ConfigurationSpace /\ Problems(config) = {}
        /\ attempt \in 1..MaxAttempts /\ port = config.port + attempt - 1
        /\ port <= LastPort /\ (config.production => attempt = 1)
        /\ config.port \in Nat /\ MaxAttempts \in Nat
    BY ServerAssumption DEF ServerOK, ConfigurationSpace
  <2>2. config.production => config.network = "mainnet-beta"
    BY <2>1 DEF Problems
  <2>3. config.production => config.origins = {"site"}
    <3>1. config.production => config.origins # {} /\ "*" \notin config.origins
      BY <2>1 DEF Problems
    <3> QED
      BY <2>1, <3>1 DEF ConfigurationSpace
  <2> QED
    BY <2>1, <2>2, <2>3 DEF ListeningIsAllowed
<1> QED
  BY <1>1, <1>2, <1>3, PTL DEF Spec

----------------------------------------------------------------------------
(* The portfolio request. *)

Honest(portfolio) ==
  \/ portfolio = NoAnswer
  \/ portfolio.code # 200
  \/ /\ portfolio.status = "LIVE" <=> portfolio.native = "LIVE" /\ portfolio.assets = "LIVE"
     /\ portfolio.status = "UNAVAILABLE"
          <=> portfolio.native # "LIVE" /\ portfolio.assets # "LIVE"
     /\ portfolio.items # {} => portfolio.assets = "LIVE"

\* The three returns of getWalletPortfolio.
LEMMA ReturnsAreHonest ==
  ASSUME balance \in {"LIVE", "UNAVAILABLE"}, NEW items
  PROVE  /\ Honest(Portfolio("LIVE", items))
         /\ Honest(Portfolio("UNAVAILABLE", {}))
         /\ Honest(Portfolio("UNCONFIGURED", {}))
  BY DEF Honest, Portfolio, Status, Degraded

LEMMA FailureIsHonest ==
  ASSUME NEW code \in {400, 500, 503}
  PROVE  Honest(Failure(code))
  BY DEF Honest, Failure

PortfolioOK ==
  /\ balance \in {"LIVE", "UNAVAILABLE"}
  /\ Honest(answer)
  /\ Honest(page)

\* What the page is handed is honest, whenever the proxy gave up and whatever the
\* index lists.
THEOREM PortfolioCorrect == Spec => []PortfolioIsHonest
<1>1. Init => PortfolioOK
  BY DEF Init, PortfolioInit, PortfolioOK, Honest
<1>2. PortfolioOK /\ [Next]_vars => PortfolioOK'
  <2> SUFFICES ASSUME PortfolioOK, [Next]_vars PROVE PortfolioOK'
    OBVIOUS
  <2>1. CASE UNCHANGED portfolioVars
    BY <2>1 DEF PortfolioOK, portfolioVars, Honest
  <2>2. CASE PortfolioNext
    <3>1. CASE AddressRefused
      BY <3>1, FailureIsHonest DEF AddressRefused, PortfolioOK, Honest
    <3>2. CASE AddressAccepted
      BY <3>2 DEF AddressAccepted, PortfolioOK, Honest
    <3>3. CASE \E state \in {"LIVE", "UNAVAILABLE"} : BalanceRead(state)
      BY <3>3 DEF BalanceRead, PortfolioOK, Honest
    <3>4. CASE AssetsSkipped
      BY <3>4, ReturnsAreHonest DEF AssetsSkipped, PortfolioOK, Honest
    <3>5. CASE AssetsFail
      BY <3>5, ReturnsAreHonest DEF AssetsFail, PortfolioOK, Honest
    <3>6. CASE \E items \in SUBSET Items : AssetsRead(items)
      BY <3>6, ReturnsAreHonest DEF AssetsRead, PortfolioOK, Honest
    <3>7. CASE ProxyAnswers
      BY <3>7 DEF ProxyAnswers, PortfolioOK, Honest
    <3>8. CASE \E code \in {500, 503} : ProxyRefuses(code)
      BY <3>8, FailureIsHonest DEF ProxyRefuses, PortfolioOK, Honest
    <3> QED
      BY <2>2, <3>1, <3>2, <3>3, <3>4, <3>5, <3>6, <3>7, <3>8 DEF PortfolioNext
  <2> QED
    BY <2>1, <2>2 DEF Next, vars, Moves, Rests
<1>3. PortfolioOK => PortfolioIsHonest
  BY DEF PortfolioOK, PortfolioIsHonest, Honest
<1> QED
  BY <1>1, <1>2, <1>3, PTL DEF Spec

----------------------------------------------------------------------------
(* The release gate: where a run stands. *)

StepNames ==
  { PredeploySteps[i] : i \in 1..14 } \cup { PostdeploySteps[i] : i \in 1..5 }

\* What is left to do is a last part of a sequence of steps.
EndOf(steps) ==
  /\ gate.todo \in Seq(StepNames)
  /\ Len(gate.todo) <= Len(steps)
  /\ \A i \in 1..Len(gate.todo) : gate.todo[i] = steps[Len(steps) - Len(gate.todo) + i]

Gates ==
  [launch : Nat, mode : {"none", "predeploy", "postdeploy", "all", "hand"},
   phase : {"idle", "predeploy", "postdeploy", "hand"}, todo : Seq(StepNames),
   ok : BOOLEAN, lock : Nat, expected : Nat, deployment : Nat, attested : BOOLEAN]

GateOK ==
  /\ gate \in Gates
  /\ gate.phase # "idle" => gate.deployment \in Deployments
  /\ ~gate.ok => gate.todo = <<>>
  /\ gate.mode = "all" => gate.phase \in {"predeploy", "postdeploy"}
  /\ gate.phase = "predeploy" => EndOf(PredeploySteps)
  /\ gate.phase = "postdeploy" => EndOf(PostdeploySteps)

LEMMA Sequences14And5 ==
  /\ PredeploySteps \in Seq(StepNames) /\ Len(PredeploySteps) = 14
  /\ PostdeploySteps \in Seq(StepNames) /\ Len(PostdeploySteps) = 5
  /\ \A i \in 1..14 : PredeploySteps[i] # "deployment-evidence"
  /\ PredeploySteps[14] = "program-change-control"
<1>1. DOMAIN PostdeploySteps = 1..5 /\ Len(PostdeploySteps) = 5
      /\ PostdeploySteps = [i \in 1..5 |-> PostdeploySteps[i]]
  BY DEF PostdeploySteps
<1>2. Len(PredeploySteps) = 14 /\ PredeploySteps[14] = "program-change-control"
  BY DEF PredeploySteps
<1>3. \A i \in 1..14 : PredeploySteps[i] # "deployment-evidence"
  BY DEF PredeploySteps
<1>4. PredeploySteps = [i \in 1..14 |-> PredeploySteps[i]]
  BY DEF PredeploySteps
<1>5. PredeploySteps \in [1..14 -> StepNames] /\ PostdeploySteps \in [1..5 -> StepNames]
  BY <1>1, <1>4 DEF StepNames
<1>6. PredeploySteps \in Seq(StepNames) /\ PostdeploySteps \in Seq(StepNames)
  <2>1. \A n \in Nat : [1..n -> StepNames] \subseteq Seq(StepNames)
    BY SeqDef
  <2> QED
    BY <1>5, <2>1
<1> QED
  BY <1>1, <1>2, <1>3, <1>6

LEMMA TailOfSteps ==
  ASSUME NEW steps \in Seq(StepNames), steps # <<>>
  PROVE  Tail(steps) \in Seq(StepNames) /\ Len(Tail(steps)) = Len(steps) - 1
  OBVIOUS

\* A running step is the one its place in the sequence says, and the next in turn
\* is what is left after it.
LEMMA NextStep ==
  ASSUME GateOK, NEW step, Running(step), NEW steps \in Seq(StepNames), EndOf(steps),
         gate' = AfterStep(TRUE)
  PROVE  /\ Len(gate.todo) \in 1..Len(steps)
         /\ step = steps[Len(steps) - Len(gate.todo) + 1]
         /\ Len(gate'.todo) = Len(gate.todo) - 1
         /\ EndOf(steps)'
<1> DEFINE todo == gate.todo
<1>1. todo \in Seq(StepNames) /\ todo # <<>> /\ Head(todo) = step
  BY DEF Running, EndOf
<1>2. gate'.todo = Tail(todo)
  BY DEF AfterStep, GateOK, Gates
<1>3. /\ Len(todo) <= Len(steps)
      /\ \A i \in 1..Len(todo) : todo[i] = steps[Len(steps) - Len(todo) + i]
  BY DEF EndOf
<1> HIDE DEF todo
<1>4. /\ Len(todo) \in Nat /\ Len(todo) >= 1
      /\ Tail(todo) \in Seq(StepNames) /\ Len(Tail(todo)) = Len(todo) - 1
      /\ \A i \in 1..Len(todo) - 1 : Tail(todo)[i] = todo[i + 1]
      /\ todo[1] = step
  BY <1>1
<1>5. Len(steps) \in Nat
  OBVIOUS
<1>6. \A i \in 1..Len(todo) - 1 :
        Tail(todo)[i] = steps[Len(steps) - (Len(todo) - 1) + i]
  <2> TAKE i \in 1..Len(todo) - 1
  <2>1. i + 1 \in 1..Len(todo)
    BY <1>4
  <2>2. Len(steps) - Len(todo) + (i + 1) = Len(steps) - (Len(todo) - 1) + i
    BY <1>4, <1>5
  <2> QED
    BY <1>3, <1>4, <2>1, <2>2
<1>7. step = steps[Len(steps) - Len(todo) + 1]
  BY <1>3, <1>4
<1>8. EndOf(steps)'
  <2>1. Len(gate'.todo) = Len(todo) - 1
    BY <1>2, <1>4
  <2>2a. Len(todo) - 1 <= Len(steps)
    BY <1>3, <1>4, <1>5
  <2>2. gate'.todo \in Seq(StepNames)
    BY <1>2, <1>4
  <2>3. \A i \in 1..Len(gate'.todo) :
          gate'.todo[i] = steps[Len(steps) - Len(gate'.todo) + i]
    BY <1>2, <1>6, <2>1
  <2> QED
    BY <2>1, <2>2a, <2>2, <2>3 DEF EndOf
<1>9. Len(todo) \in 1..Len(steps)
  BY <1>3, <1>4, <1>5
<1>10. Len(gate'.todo) = Len(todo) - 1
  BY <1>2, <1>4
<1> QED
  BY <1>7, <1>8, <1>9, <1>10 DEF todo

LEMMA WholeSequence ==
  ASSUME NEW steps \in Seq(StepNames), gate'.todo = steps
  PROVE  EndOf(steps)'
<1>1. Len(steps) \in Nat /\ \A i \in 1..Len(steps) : Len(steps) - Len(steps) + i = i
  OBVIOUS
<1> QED
  BY <1>1 DEF EndOf

LEMMA StepKeepsGate ==
  ASSUME GateOK, NEW step, Running(step), NEW passed \in BOOLEAN,
         gate' = AfterStep(passed)
  PROVE  GateOK'
<1>1. CASE passed
  <2>1. gate' = [gate EXCEPT !.todo = Tail(gate.todo)]
    BY <1>1 DEF AfterStep
  <2>2. gate.todo \in Seq(StepNames) /\ gate.todo # <<>>
    BY DEF Running, GateOK, Gates
  <2>3. Tail(gate.todo) \in Seq(StepNames)
    BY <2>2, TailOfSteps
  <2>4. gate' \in Gates
    BY <2>1, <2>3 DEF GateOK, Gates
  <2>5. /\ gate'.phase = gate.phase /\ gate'.mode = gate.mode
        /\ gate'.deployment = gate.deployment /\ gate'.ok = gate.ok
    BY <2>1 DEF GateOK, Gates
  <2>6. gate.ok
    BY <2>2 DEF GateOK
  <2>7. gate'.phase = "predeploy" => EndOf(PredeploySteps)'
    BY <1>1, <2>5, NextStep, Sequences14And5 DEF GateOK
  <2>8. gate'.phase = "postdeploy" => EndOf(PostdeploySteps)'
    BY <1>1, <2>5, NextStep, Sequences14And5 DEF GateOK
  <2> QED
    BY <2>4, <2>5, <2>6, <2>7, <2>8 DEF GateOK
<1>2. CASE ~passed
  <2>1. gate' = [gate EXCEPT !.todo = <<>>, !.ok = FALSE]
    BY <1>2 DEF AfterStep
  <2>2. <<>> \in Seq(StepNames) /\ Len(<<>>) = 0
    OBVIOUS
  <2>3. gate' \in Gates
    BY <2>1, <2>2 DEF GateOK, Gates
  <2>4. /\ gate'.phase = gate.phase /\ gate'.mode = gate.mode
        /\ gate'.deployment = gate.deployment /\ gate'.todo = <<>>
    BY <2>1 DEF GateOK, Gates
  <2>5. EndOf(PredeploySteps)' /\ EndOf(PostdeploySteps)'
    BY <2>2, <2>4, Sequences14And5 DEF EndOf
  <2> QED
    BY <2>3, <2>4, <2>5 DEF GateOK
<1> QED
  BY <1>1, <1>2

LEMMA LaunchKeepsGate ==
  ASSUME GateOK,
         NEW mode \in {"predeploy", "postdeploy", "all", "hand"},
         NEW phase \in {"predeploy", "postdeploy", "hand"},
         NEW todo \in Seq(StepNames),
         mode = "all" => phase = "predeploy",
         phase = "predeploy" => todo = PredeploySteps,
         phase = "postdeploy" => todo = PostdeploySteps,
         Launch(mode, phase, todo)
  PROVE  GateOK'
<1>1. PICK e \in Environments :
        gate' = [launch |-> gate.launch + 1, mode |-> mode, phase |-> phase, todo |-> todo,
                 ok |-> TRUE, lock |-> e.lock, expected |-> e.expected,
                 deployment |-> e.deployment, attested |-> e.attested]
  BY DEF Launch
<1>2. /\ e.lock \in Nat /\ e.expected \in Nat /\ e.deployment \in Nat
      /\ e.attested \in BOOLEAN
      /\ e.deployment \in Deployments
  BY ReleaseAssumption DEF Deployments
<1>3. gate' \in Gates
  BY <1>1, <1>2 DEF GateOK, Gates
<1>4. /\ gate'.phase = phase /\ gate'.mode = mode /\ gate'.todo = todo /\ gate'.ok = TRUE
      /\ gate'.deployment = e.deployment
  BY <1>1
<1>5. phase = "predeploy" => EndOf(PredeploySteps)'
  BY <1>4, WholeSequence, Sequences14And5
<1>6. phase = "postdeploy" => EndOf(PostdeploySteps)'
  BY <1>4, WholeSequence, Sequences14And5
<1> QED
  BY <1>2, <1>3, <1>4, <1>5, <1>6 DEF GateOK

LEMMA IdleKeepsGate ==
  ASSUME GateOK, gate' = Idle(gate.launch)
  PROVE  GateOK'
<1>1. gate' \in Gates
  BY DEF GateOK, Gates, Idle
<1>2. gate'.phase = "idle" /\ gate'.mode = "none" /\ gate'.todo = <<>>
  BY DEF Idle
<1> QED
  BY <1>1, <1>2 DEF GateOK

LEMMA PredeployEndKeepsGate ==
  ASSUME GateOK, PredeployEnds
  PROVE  GateOK'
<1>1. CASE gate.mode = "all" /\ gate.ok
  <2>1. gate' = [gate EXCEPT !.phase = "postdeploy", !.todo = PostdeploySteps]
    BY <1>1 DEF PredeployEnds
  <2>2. gate' \in Gates
    BY <2>1, Sequences14And5 DEF GateOK, Gates
  <2>3. /\ gate'.phase = "postdeploy" /\ gate'.todo = PostdeploySteps
        /\ gate'.ok = gate.ok /\ gate'.deployment = gate.deployment
        /\ gate.phase = "predeploy"
    BY <2>1 DEF GateOK, Gates, PredeployEnds
  <2>4. EndOf(PostdeploySteps)'
    BY <2>3, WholeSequence, Sequences14And5
  <2> QED
    BY <1>1, <2>2, <2>3, <2>4 DEF GateOK
<1>2. CASE ~(gate.mode = "all" /\ gate.ok)
  BY <1>2, IdleKeepsGate DEF PredeployEnds
<1> QED
  BY <1>1, <1>2

\* The steps of either phase.
Steps == { PredeploySteps[i] : i \in DOMAIN PredeploySteps }
           \cup { PostdeploySteps[i] : i \in DOMAIN PostdeploySteps }

\* What a step of the release does, with one case for a step of either phase.
LEMMA ReleaseCases ==
  ASSUME ReleaseNext
  PROVE  \/ LaunchPredeploy \/ LaunchPostdeploy \/ LaunchAll
         \/ \E step \in Steps : StepPasses(step) \/ StepFails(step)
         \/ \E step \in StepNames : RunByHand(step)
         \/ PredeployEnds \/ PostdeployEnds \/ HandStepEnds
         \/ GateKilled
         \/ \E p \in Prints : ProgramsUpgraded(p)
<1>1. DOMAIN PredeploySteps = 1..14 /\ DOMAIN PostdeploySteps = 1..5
  BY DEF PredeploySteps, PostdeploySteps
<1>2. CASE \E i \in DOMAIN PredeploySteps :
             LET step == PredeploySteps[i]
             IN StepPasses(step) \/ StepFails(step) \/ RunByHand(step)
  BY <1>1, <1>2 DEF Steps, StepNames
<1>3. CASE \E i \in DOMAIN PostdeploySteps :
             LET step == PostdeploySteps[i]
             IN StepPasses(step) \/ StepFails(step) \/ RunByHand(step)
  BY <1>1, <1>3 DEF Steps, StepNames
<1> QED
  BY <1>2, <1>3 DEF ReleaseNext

LEMMA ReleaseStepKeepsGate ==
  ASSUME GateOK, ReleaseNext
  PROVE  GateOK'
<1>1. CASE LaunchPredeploy
  BY <1>1, Sequences14And5, LaunchKeepsGate DEF LaunchPredeploy
<1>2. CASE LaunchPostdeploy
  BY <1>2, Sequences14And5, LaunchKeepsGate DEF LaunchPostdeploy
<1>3. CASE LaunchAll
  BY <1>3, Sequences14And5, LaunchKeepsGate DEF LaunchAll
<1>4. CASE \E step \in Steps : StepPasses(step) \/ StepFails(step)
  BY <1>4, StepKeepsGate DEF StepPasses, StepFails
<1>5. CASE \E step \in StepNames : RunByHand(step)
  <2>1. PICK step \in StepNames : Launch("hand", "hand", <<step>>)
    BY <1>5 DEF RunByHand
  <2>2. <<step>> \in Seq(StepNames)
    OBVIOUS
  <2> QED
    BY <2>1, <2>2, LaunchKeepsGate
<1>6. CASE PredeployEnds
  BY <1>6, PredeployEndKeepsGate
<1>7. CASE PostdeployEnds \/ HandStepEnds \/ GateKilled
  BY <1>7, IdleKeepsGate DEF PostdeployEnds, HandStepEnds, GateKilled
<1>8. CASE \E p \in Prints : ProgramsUpgraded(p)
  BY <1>8 DEF ProgramsUpgraded, GateOK, EndOf
<1> QED
  BY <1>1, <1>2, <1>3, <1>4, <1>5, <1>6, <1>7, <1>8, ReleaseCases

LEMMA GateInvariant == Spec => []GateOK
<1>1. Init => GateOK
  <2> SUFFICES ASSUME Init PROVE GateOK
    OBVIOUS
  <2>1. gate = Idle(0)
    BY DEF Init, ReleaseInit
  <2>2. <<>> \in Seq(StepNames)
    OBVIOUS
  <2> QED
    BY <2>1, <2>2 DEF Idle, GateOK, Gates
<1>2. GateOK /\ [Next]_vars => GateOK'
  <2> SUFFICES ASSUME GateOK, [Next]_vars PROVE GateOK'
    OBVIOUS
  <2>1. CASE UNCHANGED releaseVars
    BY <2>1 DEF GateOK, EndOf, releaseVars
  <2>2. CASE ReleaseNext
    BY <2>2, ReleaseStepKeepsGate
  <2> QED
    BY <2>1, <2>2 DEF Next, vars, Moves, Rests
<1> QED
  BY <1>1, <1>2, PTL DEF Spec

----------------------------------------------------------------------------
(* The release gate: what the files say. *)

FilesOK ==
  /\ DOMAIN disk = BoundReports \cup {"postdeploy"}
  /\ DOMAIN evidence = Deployments
  /\ DOMAIN seal = Deployments
  /\ disk["predeploy"].pass => exit = "PASS"

\* A step writes at most one report, and never those of the gate itself.
LEMMA StepsWriteTheirReport ==
  ASSUME NEW step, NEW passed
  PROVE  /\ Report(step) \in BoundReports \cup {"none"}
         /\ Report(step) \notin {"predeploy", "postdeploy"}
         /\ DOMAIN disk = BoundReports \cup {"postdeploy"} =>
              /\ DOMAIN Written(step, passed) = BoundReports \cup {"postdeploy"}
              /\ \A name \in BoundReports \cup {"postdeploy"} :
                   name # Report(step) => Written(step, passed)[name] = disk[name]
<1>1. Report(step) \in BoundReports \cup {"none"}
      /\ Report(step) \notin {"predeploy", "postdeploy"}
  BY DEF Report, BoundReports
<1> QED
  BY <1>1 DEF Written

LEMMA StepsKeepThePhases ==
  ASSUME FilesOK, NEW step, NEW passed
  PROVE  /\ Written(step, passed)["predeploy"] = disk["predeploy"]
         /\ Written(step, passed)["postdeploy"] = disk["postdeploy"]
<1>1. Report(step) \notin {"predeploy", "postdeploy"}
  BY StepsWriteTheirReport
<1>2. {"predeploy", "postdeploy"} \subseteq DOMAIN disk
  BY DEF FilesOK, BoundReports
<1> QED
  BY <1>1, <1>2 DEF Written

LEMMA ReleaseStepKeepsFiles ==
  ASSUME FilesOK, ReleaseNext
  PROVE  FilesOK'
<1>1. CASE LaunchPredeploy \/ LaunchPostdeploy \/ LaunchAll
             \/ \E step \in StepNames : RunByHand(step)
  BY <1>1 DEF LaunchPredeploy, LaunchPostdeploy, LaunchAll, RunByHand, Launch, FilesOK
<1>2. CASE \E step \in Steps : StepPasses(step)
  <2>1. PICK step \in Steps : StepPasses(step)
    BY <1>2
  <2>2. disk' = Written(step, TRUE) /\ exit' = exit
    BY <2>1 DEF StepPasses
  <2>3. DOMAIN disk' = BoundReports \cup {"postdeploy"}
        /\ disk'["predeploy"] = disk["predeploy"]
    BY <2>2, StepsWriteTheirReport DEF FilesOK, BoundReports
  <2>4. DOMAIN evidence' = Deployments /\ DOMAIN seal' = Deployments
    BY <2>1 DEF StepPasses, FilesOK
  <2> QED
    BY <2>2, <2>3, <2>4 DEF FilesOK
<1>3. CASE \E step \in Steps : StepFails(step)
  <2>1. PICK step \in Steps : StepFails(step)
    BY <1>3
  <2>2. /\ disk' = disk \/ disk' = Written(step, FALSE)
        /\ UNCHANGED <<evidence, seal, exit>>
    BY <2>1 DEF StepFails
  <2>3. DOMAIN disk' = BoundReports \cup {"postdeploy"}
        /\ disk'["predeploy"] = disk["predeploy"]
    BY <2>2, StepsWriteTheirReport DEF FilesOK, BoundReports
  <2> QED
    BY <2>2, <2>3 DEF FilesOK
<1>4. CASE PredeployEnds
  <2>1. /\ disk' = [disk EXCEPT !["predeploy"] =
                      [launch |-> gate.launch, pass |-> gate.ok, of |-> gate.lock]]
        /\ exit' = IF gate.ok THEN "PASS" ELSE "FAIL"
        /\ UNCHANGED <<evidence, seal>>
    BY <1>4 DEF PredeployEnds, PhaseReport
  <2>2. disk'["predeploy"].pass = gate.ok
    BY <2>1 DEF FilesOK, BoundReports
  <2>3. DOMAIN disk' = DOMAIN disk
    BY <2>1
  <2> QED
    BY <2>1, <2>2, <2>3 DEF FilesOK
<1>5. CASE PostdeployEnds
  BY <1>5 DEF PostdeployEnds, PhaseReport, FilesOK, BoundReports
<1>6. CASE HandStepEnds \/ GateKilled \/ \E p \in Prints : ProgramsUpgraded(p)
  BY <1>6 DEF HandStepEnds, GateKilled, ProgramsUpgraded, FilesOK
<1> QED
  BY <1>1, <1>2, <1>3, <1>4, <1>5, <1>6, ReleaseCases

LEMMA FilesInvariant == Spec => []FilesOK
<1>1. Init => FilesOK
  BY DEF Init, ReleaseInit, FilesOK, Missing, BoundReports
<1>2. FilesOK /\ [Next]_vars => FilesOK'
  <2> SUFFICES ASSUME FilesOK, [Next]_vars PROVE FilesOK'
    OBVIOUS
  <2>1. CASE UNCHANGED releaseVars
    BY <2>1 DEF FilesOK, releaseVars
  <2>2. CASE ReleaseNext
    BY <2>2, ReleaseStepKeepsFiles
  <2> QED
    BY <2>1, <2>2 DEF Next, vars, Moves, Rests
<1> QED
  BY <1>1, <1>2, PTL DEF Spec

\* Evidence changes when the evidence step passes, and then of one deployment.
LEMMA EvidenceIsRecorded ==
  ASSUME ReleaseNext, evidence' # evidence
  PROVE  /\ StepPasses("deployment-evidence")
         /\ evidence' = [evidence EXCEPT ![gate.deployment] = Recorded]
<1>1. CASE \E step \in Steps : StepPasses(step)
  BY <1>1 DEF StepPasses
<1>2. CASE ~\E step \in Steps : StepPasses(step)
  BY <1>2, ReleaseCases DEF LaunchPredeploy, LaunchPostdeploy, LaunchAll, RunByHand, Launch,
       StepFails, PredeployEnds, PostdeployEnds, HandStepEnds, GateKilled, ProgramsUpgraded
<1> QED
  BY <1>1, <1>2

\* A predeploy that failed is never recorded as a deployment before one passes,
\* for every number of runs, kills and steps by hand.
THEOREM FailedCandidateCorrect == Spec => FailedCandidateIsNotRecorded
<1> DEFINE Recording == \A d \in Deployments : evidence'[d] # evidence[d] => exit = "PASS"
<1>1. FilesOK /\ [Next]_vars => [Recording]_releaseVars
  <2> SUFFICES ASSUME FilesOK, [Next]_vars, evidence' # evidence PROVE Recording
    OBVIOUS
  <2>1. ReleaseNext
    BY DEF Next, vars, Moves, Rests, releaseVars
  <2>2. CanPass("deployment-evidence")
    BY <2>1, EvidenceIsRecorded DEF StepPasses
  <2>3. disk["predeploy"].pass
    BY <2>2 DEF CanPass, Recordable
  <2> QED
    BY <2>3 DEF FilesOK
<1> QED
  BY <1>1, FilesInvariant, PTL DEF Spec, FailedCandidateIsNotRecorded

----------------------------------------------------------------------------
(* The release gate: what a postdeploy has done so far. *)

\* Each step of a postdeploy that has passed left its mark, and no later one wiped
\* it out.
MarksOK ==
  gate.phase = "postdeploy" /\ gate.ok =>
    /\ Len(gate.todo) <= 4 => disk["canary"].launch = gate.launch
    /\ Len(gate.todo) <= 3 => /\ disk["live"].launch = gate.launch
                              /\ disk["live"].of = gate.expected
    /\ Len(gate.todo) <= 2 =>
         /\ evidence[gate.deployment].launch = gate.launch
         /\ \A name \in BoundReports : evidence[gate.deployment].binds[name] = disk[name]
    /\ Len(gate.todo) <= 1 => seal[gate.deployment] = evidence[gate.deployment]

LEMMA PostdeployOrder ==
  /\ PostdeploySteps[1] = "canary-verification"
  /\ PostdeploySteps[2] = "live-readiness-programs-providers"
  /\ PostdeploySteps[3] = "deployment-evidence"
  /\ PostdeploySteps[4] = "deployment-attestation"
  /\ PostdeploySteps[5] = "deployment-evidence-verify"
  BY DEF PostdeploySteps

LEMMA Places ==
  /\ \A n \in 1..14 : 14 - n + 1 \in 1..14
  /\ \A n \in 1..5 : n - 1 > 2 => n \in {4, 5}
  /\ \A n \in 1..5 : PostdeploySteps[6 - n] = "deployment-evidence" => n = 3
  /\ PostdeploySteps[6 - 4] # "deployment-evidence"
  /\ PostdeploySteps[6 - 5] # "deployment-evidence"
<1>1. \A n \in 1..5 : n \in {1, 2, 3, 4, 5}
  OBVIOUS
<1> QED
  BY <1>1, PostdeployOrder

\* The step of a postdeploy that has so many steps left.
LEMMA PostdeployStep ==
  ASSUME GateOK, gate.phase = "postdeploy", NEW step, StepPasses(step)
  PROVE  /\ gate' = [gate EXCEPT !.todo = Tail(@)]
         /\ Len(gate.todo) \in 1..5
         /\ Len(gate'.todo) = Len(gate.todo) - 1
         /\ step = PostdeploySteps[6 - Len(gate.todo)]
         /\ gate'.launch = gate.launch /\ gate'.expected = gate.expected
         /\ gate'.deployment = gate.deployment
<1>1. Running(step) /\ gate' = AfterStep(TRUE)
  BY DEF StepPasses
<1>2. EndOf(PostdeploySteps)
  BY DEF GateOK
<1>3. /\ Len(gate.todo) \in 1..5
      /\ step = PostdeploySteps[5 - Len(gate.todo) + 1]
      /\ Len(gate'.todo) = Len(gate.todo) - 1
  BY <1>1, <1>2, NextStep, Sequences14And5
<1>4. 5 - Len(gate.todo) + 1 = 6 - Len(gate.todo)
  BY <1>3
<1> QED
  BY <1>1, <1>3, <1>4 DEF AfterStep, GateOK, Gates

LEMMA PassedStepKeepsMarks ==
  ASSUME GateOK, FilesOK, MarksOK, NEW step, StepPasses(step)
  PROVE  MarksOK'
<1> SUFFICES ASSUME gate'.phase = "postdeploy", gate'.ok PROVE MarksOK'
  BY DEF MarksOK
<1>1. /\ gate.phase = "postdeploy" /\ gate.ok /\ gate.deployment \in Deployments
      /\ gate' = [gate EXCEPT !.todo = Tail(@)]
  BY DEF StepPasses, AfterStep, GateOK, Gates
<1>2. /\ Len(gate.todo) \in 1..5
      /\ Len(gate'.todo) = Len(gate.todo) - 1
      /\ step = PostdeploySteps[6 - Len(gate.todo)]
      /\ gate'.launch = gate.launch /\ gate'.expected = gate.expected
      /\ gate'.deployment = gate.deployment
  BY <1>1, PostdeployStep
<1> DEFINE left == Len(gate.todo)
           d == gate.deployment
<1>3. /\ left <= 4 => disk["canary"].launch = gate.launch
      /\ left <= 3 => /\ disk["live"].launch = gate.launch
                      /\ disk["live"].of = gate.expected
      /\ left <= 2 => /\ evidence[d].launch = gate.launch
                      /\ \A name \in BoundReports : evidence[d].binds[name] = disk[name]
      /\ left <= 1 => seal[d] = evidence[d]
  BY <1>1 DEF MarksOK
<1>4. /\ CanPass(step)
      /\ disk' = Written(step, TRUE)
      /\ evidence' = IF step = "deployment-evidence"
                     THEN [evidence EXCEPT ![d] = Recorded] ELSE evidence
      /\ seal' = IF step = "deployment-attestation"
                 THEN [seal EXCEPT ![d] = evidence[d]] ELSE seal
  BY DEF StepPasses
<1>5. CASE left = 5
  <2>1. step = "canary-verification"
    BY <1>2, <1>5, PostdeployOrder
  <2>2. disk' = [disk EXCEPT !["canary"] =
                   [launch |-> gate.launch, pass |-> TRUE, of |-> gate.lock]]
    BY <1>4, <2>1 DEF Written, Report, Subject
  <2>3. disk'["canary"].launch = gate.launch
    BY <2>2 DEF FilesOK, BoundReports
  <2> QED
    BY <1>2, <1>5, <2>3 DEF MarksOK
<1>6. CASE left = 4
  <2>1. step = "live-readiness-programs-providers"
    BY <1>2, <1>6, PostdeployOrder
  <2>2. disk' = [disk EXCEPT !["live"] =
                   [launch |-> gate.launch, pass |-> TRUE, of |-> chain]]
    BY <1>4, <2>1 DEF Written, Report, Subject
  <2>3. chain = gate.expected
    BY <1>4, <2>1 DEF CanPass, PinnedProgram
  <2>4. /\ disk'["live"].launch = gate.launch /\ disk'["live"].of = gate.expected
        /\ disk'["canary"] = disk["canary"]
    BY <2>2, <2>3 DEF FilesOK, BoundReports
  <2> QED
    BY <1>2, <1>3, <1>6, <2>4 DEF MarksOK
<1>7. CASE left = 3
  <2>1. step = "deployment-evidence"
    BY <1>2, <1>7, PostdeployOrder
  <2>2. disk' = disk /\ evidence' = [evidence EXCEPT ![d] = Recorded]
    BY <1>4, <2>1 DEF Written, Report
  <2>3. evidence'[d] = Recorded
    BY <1>1, <2>2 DEF FilesOK
  <2>4. /\ Recorded.launch = gate.launch
        /\ \A name \in BoundReports : Recorded.binds[name] = disk[name]
    BY DEF Recorded
  <2> QED
    BY <1>2, <1>3, <1>7, <2>2, <2>3, <2>4 DEF MarksOK
<1>8. CASE left = 2
  <2>1. step = "deployment-attestation"
    BY <1>2, <1>8, PostdeployOrder
  <2>2. /\ disk' = disk /\ evidence' = evidence
        /\ seal' = [seal EXCEPT ![d] = evidence[d]]
    BY <1>4, <2>1 DEF Written, Report
  <2>3. seal'[d] = evidence'[d]
    BY <1>1, <2>2 DEF FilesOK
  <2> QED
    BY <1>2, <1>3, <1>8, <2>2, <2>3 DEF MarksOK
<1>9. CASE left = 1
  <2>1. step = "deployment-evidence-verify"
    BY <1>2, <1>9, PostdeployOrder
  <2>2. disk' = disk /\ evidence' = evidence /\ seal' = seal
    BY <1>4, <2>1 DEF Written, Report
  <2> QED
    BY <1>2, <1>3, <1>9, <2>2 DEF MarksOK
<1> QED
  BY <1>2, <1>5, <1>6, <1>7, <1>8, <1>9

LEMMA ReleaseStepKeepsMarks ==
  ASSUME GateOK, FilesOK, MarksOK, ReleaseNext
  PROVE  MarksOK'
<1>1. CASE LaunchPredeploy \/ LaunchAll \/ \E step \in StepNames : RunByHand(step)
  BY <1>1 DEF LaunchPredeploy, LaunchAll, RunByHand, Launch, MarksOK
<1>2. CASE LaunchPostdeploy
  <2>1. gate'.todo = PostdeploySteps
    BY <1>2 DEF LaunchPostdeploy, Launch
  <2> QED
    BY <2>1, Sequences14And5 DEF MarksOK
<1>3. CASE \E step \in Steps : StepPasses(step)
  BY <1>3, PassedStepKeepsMarks
<1>4. CASE \E step \in Steps : StepFails(step)
  <2>1. gate'.ok = FALSE
    BY <1>4 DEF StepFails, AfterStep, GateOK, Gates
  <2> QED
    BY <2>1 DEF MarksOK
<1>5. CASE PredeployEnds
  <2>1. CASE gate.mode = "all" /\ gate.ok
    <3>1. gate'.todo = PostdeploySteps
      BY <1>5, <2>1 DEF PredeployEnds, GateOK, Gates
    <3> QED
      BY <3>1, Sequences14And5 DEF MarksOK
  <2>2. CASE ~(gate.mode = "all" /\ gate.ok)
    BY <1>5, <2>2 DEF PredeployEnds, Idle, MarksOK
  <2> QED
    BY <2>1, <2>2
<1>6. CASE PostdeployEnds \/ HandStepEnds \/ GateKilled
  BY <1>6 DEF PostdeployEnds, HandStepEnds, GateKilled, Idle, MarksOK
<1>7. CASE \E p \in Prints : ProgramsUpgraded(p)
  BY <1>7 DEF ProgramsUpgraded, MarksOK
<1> QED
  BY <1>1, <1>2, <1>3, <1>4, <1>5, <1>6, <1>7, ReleaseCases

LEMMA MarksInvariant == Spec => []MarksOK
<1>1. Init => MarksOK
  BY DEF Init, ReleaseInit, Idle, MarksOK
<1>2. GateOK /\ FilesOK /\ MarksOK /\ [Next]_vars => MarksOK'
  <2> SUFFICES ASSUME GateOK, FilesOK, MarksOK, [Next]_vars PROVE MarksOK'
    OBVIOUS
  <2>1. CASE UNCHANGED releaseVars
    BY <2>1 DEF MarksOK, releaseVars
  <2>2. CASE ReleaseNext
    BY <2>2, ReleaseStepKeepsMarks
  <2> QED
    BY <2>1, <2>2 DEF Next, vars, Moves, Rests
<1> QED
  BY <1>1, <1>2, GateInvariant, FilesInvariant, PTL DEF Spec

\* The report of the postdeploy changes when a postdeploy ends.
LEMMA PostdeployIsReported ==
  ASSUME FilesOK, ReleaseNext, disk'["postdeploy"] # disk["postdeploy"]
  PROVE  PostdeployEnds
<1>1. CASE \E step \in Steps : StepPasses(step) \/ StepFails(step)
  <2>1. PICK step \in Steps : StepPasses(step) \/ StepFails(step)
    BY <1>1
  <2>2. \/ disk' = disk \/ disk' = Written(step, TRUE) \/ disk' = Written(step, FALSE)
    BY <2>1 DEF StepPasses, StepFails
  <2>3. CASE disk' = Written(step, TRUE)
    BY <2>3, StepsKeepThePhases
  <2>4. CASE disk' = Written(step, FALSE)
    BY <2>4, StepsKeepThePhases
  <2> QED
    BY <2>2, <2>3, <2>4
<1>2. CASE PredeployEnds
  <2>1. disk' = [disk EXCEPT !["predeploy"] =
                   [launch |-> gate.launch, pass |-> gate.ok, of |-> gate.lock]]
    BY <1>2 DEF PredeployEnds, PhaseReport
  <2>2. disk'["postdeploy"] = disk["postdeploy"]
    BY <2>1 DEF FilesOK
  <2> QED
    BY <2>2
<1>3. CASE \/ LaunchPredeploy \/ LaunchPostdeploy \/ LaunchAll
           \/ \E step \in StepNames : RunByHand(step)
           \/ HandStepEnds \/ GateKilled
           \/ \E p \in Prints : ProgramsUpgraded(p)
  BY <1>3 DEF LaunchPredeploy, LaunchPostdeploy, LaunchAll, RunByHand, Launch, HandStepEnds,
       GateKilled, ProgramsUpgraded
<1> QED
  BY <1>1, <1>2, <1>3, ReleaseCases

\* A postdeploy that reports PASS made its canary, its live verification, the
\* evidence and the attestation itself, for every history of runs and kills.
THEOREM PassedGateCorrect == Spec => PassedGateIsFresh
<1> DEFINE Fresh ==
      disk'["postdeploy"] # disk["postdeploy"] /\ disk'["postdeploy"].pass =>
        \E d \in Deployments :
          /\ seal[d] = evidence[d]
          /\ {disk["canary"].launch, disk["live"].launch, evidence[d].launch}
               = {disk'["postdeploy"].launch}
          /\ \A name \in BoundReports : evidence[d].binds[name] = disk[name]
<1>1. GateOK /\ FilesOK /\ MarksOK /\ [Next]_vars => [Fresh]_releaseVars
  <2> SUFFICES ASSUME GateOK, FilesOK, MarksOK, [Next]_vars,
                      disk'["postdeploy"] # disk["postdeploy"], disk'["postdeploy"].pass
               PROVE  Fresh
    OBVIOUS
  <2>1. ReleaseNext
    BY DEF Next, vars, Moves, Rests, releaseVars
  <2>2. PostdeployEnds
    BY <2>1, PostdeployIsReported
  <2>3. disk' = [disk EXCEPT !["postdeploy"] =
                   [launch |-> gate.launch, pass |-> gate.ok, of |-> gate.lock]]
        /\ gate.phase = "postdeploy" /\ gate.todo = <<>>
    BY <2>2 DEF PostdeployEnds, PhaseReport
  <2>4. disk'["postdeploy"].launch = gate.launch /\ gate.ok
    BY <2>3 DEF FilesOK
  <2>5. Len(gate.todo) = 0 /\ gate.deployment \in Deployments
    BY <2>3 DEF GateOK
  <2>6. /\ disk["canary"].launch = gate.launch
        /\ disk["live"].launch = gate.launch
        /\ evidence[gate.deployment].launch = gate.launch
        /\ \A name \in BoundReports : evidence[gate.deployment].binds[name] = disk[name]
        /\ seal[gate.deployment] = evidence[gate.deployment]
    BY <2>3, <2>4, <2>5 DEF MarksOK
  <2>7. {disk["canary"].launch, disk["live"].launch, evidence[gate.deployment].launch}
          = {disk'["postdeploy"].launch}
    BY <2>4, <2>6
  <2> QED
    BY <2>5, <2>6, <2>7
<1> QED
  BY <1>1, GateInvariant, FilesInvariant, MarksInvariant, PTL DEF Spec, PassedGateIsFresh

----------------------------------------------------------------------------
(* The release gate: approved upgrades. *)

\* A run of both phases that came through the predeploy has its upgrade approved,
\* until its own evidence takes the place of what was compared.
ChangeOK ==
  gate.mode = "all" /\ gate.ok
    /\ (\/ gate.phase = "predeploy" /\ gate.todo = <<>>
        \/ gate.phase = "postdeploy" /\ Len(gate.todo) > 2)
  => ChangeControlled

LEMMA SameChange ==
  ASSUME ChangeControlled, UNCHANGED <<evidence, approved>>,
         gate'.expected = gate.expected, gate'.deployment = gate.deployment
  PROVE  ChangeControlled'
  BY DEF ChangeControlled, Initial, Previous

LEMMA PassedStepKeepsChange ==
  ASSUME GateOK, ChangeOK, NEW step, StepPasses(step)
  PROVE  ChangeOK'
<1> SUFFICES ASSUME gate'.mode = "all", gate'.ok,
                    \/ gate'.phase = "predeploy" /\ gate'.todo = <<>>
                    \/ gate'.phase = "postdeploy" /\ Len(gate'.todo) > 2
             PROVE  ChangeControlled'
  BY DEF ChangeOK
<1>1. /\ gate' = [gate EXCEPT !.todo = Tail(@)] /\ Running(step)
      /\ gate'.phase = gate.phase /\ gate'.mode = gate.mode /\ gate'.ok = gate.ok
      /\ gate'.expected = gate.expected /\ gate'.deployment = gate.deployment
  BY DEF StepPasses, AfterStep, GateOK, Gates
<1>2. CASE gate'.phase = "predeploy" /\ gate'.todo = <<>>
  <2>1. /\ Len(gate'.todo) = Len(gate.todo) - 1
        /\ Len(gate.todo) \in 1..14
        /\ step = PredeploySteps[14 - Len(gate.todo) + 1]
    <3>1. EndOf(PredeploySteps) /\ gate' = AfterStep(TRUE)
      BY <1>1, <1>2 DEF GateOK, StepPasses
    <3>2. /\ Len(gate'.todo) = Len(gate.todo) - 1
          /\ Len(gate.todo) \in 1..Len(PredeploySteps)
          /\ step = PredeploySteps[Len(PredeploySteps) - Len(gate.todo) + 1]
      BY <1>1, <3>1, NextStep, Sequences14And5
    <3>3. Len(PredeploySteps) = 14
      BY Sequences14And5
    <3> QED
      BY <3>2, <3>3
  <2>2. Len(gate.todo) = 1
    BY <1>2, <2>1
  <2>3. step = "program-change-control"
    BY <2>1, <2>2, Sequences14And5
  <2>4. ChangeControlled /\ UNCHANGED <<evidence, approved>>
    BY <2>3 DEF StepPasses, CanPass
  <2> QED
    BY <1>1, <2>4, SameChange
<1>3. CASE gate'.phase = "postdeploy" /\ Len(gate'.todo) > 2
  <2>1. /\ Len(gate'.todo) = Len(gate.todo) - 1
        /\ Len(gate.todo) \in 1..5
        /\ step = PostdeploySteps[6 - Len(gate.todo)]
    BY <1>1, <1>3, PostdeployStep
  <2>2. Len(gate.todo) \in {4, 5}
    BY <1>3, <2>1, Places
  <2>3. step # "deployment-evidence"
    BY <2>1, <2>2, Places
  <2>4. UNCHANGED <<evidence, approved>>
    BY <2>3 DEF StepPasses
  <2>5. ChangeControlled
    BY <1>1, <1>3, <2>2 DEF ChangeOK
  <2> QED
    BY <1>1, <2>4, <2>5, SameChange
<1> QED
  BY <1>2, <1>3

LEMMA ReleaseStepKeepsChange ==
  ASSUME GateOK, ChangeOK, ReleaseNext
  PROVE  ChangeOK'
<1>1. CASE LaunchPredeploy \/ LaunchPostdeploy \/ \E step \in StepNames : RunByHand(step)
  BY <1>1 DEF LaunchPredeploy, LaunchPostdeploy, RunByHand, Launch, ChangeOK
<1>2. CASE LaunchAll
  <2>1. gate'.phase = "predeploy" /\ gate'.todo = PredeploySteps
    BY <1>2 DEF LaunchAll, Launch
  <2>2. PredeploySteps # <<>>
    BY DEF PredeploySteps
  <2> QED
    BY <2>1, <2>2 DEF ChangeOK
<1>3. CASE \E step \in Steps : StepPasses(step)
  BY <1>3, PassedStepKeepsChange
<1>4. CASE \E step \in Steps : StepFails(step)
  <2>1. gate'.ok = FALSE
    BY <1>4 DEF StepFails, AfterStep, GateOK, Gates
  <2> QED
    BY <2>1 DEF ChangeOK
<1>5. CASE PredeployEnds
  <2>1. CASE gate.mode = "all" /\ gate.ok
    <3>1. ChangeControlled /\ UNCHANGED <<evidence, approved>>
      BY <1>5, <2>1 DEF PredeployEnds, ChangeOK
    <3>2. gate'.expected = gate.expected /\ gate'.deployment = gate.deployment
      BY <1>5, <2>1 DEF PredeployEnds, GateOK, Gates
    <3> QED
      BY <3>1, <3>2, SameChange DEF ChangeOK
  <2>2. CASE ~(gate.mode = "all" /\ gate.ok)
    BY <1>5, <2>2 DEF PredeployEnds, Idle, ChangeOK
  <2> QED
    BY <2>1, <2>2
<1>6. CASE PostdeployEnds \/ HandStepEnds \/ GateKilled
  BY <1>6 DEF PostdeployEnds, HandStepEnds, GateKilled, Idle, ChangeOK
<1>7. CASE \E p \in Prints : ProgramsUpgraded(p)
  BY <1>7, SameChange DEF ProgramsUpgraded, ChangeOK
<1> QED
  BY <1>1, <1>2, <1>3, <1>4, <1>5, <1>6, <1>7, ReleaseCases

LEMMA ChangeInvariant == Spec => []ChangeOK
<1>1. Init => ChangeOK
  BY DEF Init, ReleaseInit, Idle, ChangeOK
<1>2. GateOK /\ ChangeOK /\ [Next]_vars => ChangeOK'
  <2> SUFFICES ASSUME GateOK, ChangeOK, [Next]_vars PROVE ChangeOK'
    OBVIOUS
  <2>1. CASE UNCHANGED releaseVars
    BY <2>1, SameChange DEF ChangeOK, releaseVars
  <2>2. CASE ReleaseNext
    BY <2>2, ReleaseStepKeepsChange
  <2> QED
    BY <2>1, <2>2 DEF Next, vars, Moves, Rests
<1> QED
  BY <1>1, <1>2, GateInvariant, PTL DEF Spec

\* What a run of both phases records are the programs of the deployment before it
\* or an approved upgrade of them, whenever the programs change.
THEOREM UpgradesCorrect == Spec => UpgradesAreApproved
<1> DEFINE Approved ==
      \A d \in Deployments \ {1} :
        evidence'[d] # evidence[d] /\ gate.mode = "all" =>
          \/ evidence'[d].print = evidence'[d].previous
          \/ <<evidence'[d].previous, evidence'[d].print>> \in approved
<1>1. GateOK /\ FilesOK /\ MarksOK /\ ChangeOK /\ [Next]_vars => [Approved]_releaseVars
  <2> SUFFICES ASSUME GateOK, FilesOK, MarksOK, ChangeOK, [Next]_vars,
                      NEW d \in Deployments \ {1},
                      evidence'[d] # evidence[d], gate.mode = "all"
               PROVE  \/ evidence'[d].print = evidence'[d].previous
                      \/ <<evidence'[d].previous, evidence'[d].print>> \in approved
    OBVIOUS
  <2>1. ReleaseNext
    BY DEF Next, vars, Moves, Rests, releaseVars
  <2>2. /\ StepPasses("deployment-evidence")
        /\ evidence' = [evidence EXCEPT ![gate.deployment] = Recorded]
    BY <2>1, EvidenceIsRecorded
  <2>3. d = gate.deployment /\ evidence'[d] = Recorded
    BY <2>2 DEF FilesOK
  <2>4. Running("deployment-evidence") /\ gate' = AfterStep(TRUE)
    BY <2>2 DEF StepPasses
  <2>5. gate.phase = "postdeploy"
    <3> SUFFICES ASSUME gate.phase = "predeploy" PROVE FALSE
      BY DEF GateOK
    <3>1. /\ Len(gate.todo) \in 1..14
          /\ "deployment-evidence" = PredeploySteps[14 - Len(gate.todo) + 1]
      BY <2>4, NextStep, Sequences14And5 DEF GateOK
    <3>2. 14 - Len(gate.todo) + 1 \in 1..14
      BY <3>1, Places
    <3> QED
      BY <3>1, <3>2, Sequences14And5
  <2>6. /\ Len(gate.todo) \in 1..5
        /\ "deployment-evidence" = PostdeploySteps[6 - Len(gate.todo)]
    BY <2>2, <2>5, PostdeployStep
  <2>7. Len(gate.todo) = 3
    BY <2>6, Places
  <2>8. gate.ok
    BY <2>4 DEF Running, GateOK
  <2>9. ChangeControlled
    BY <2>5, <2>7, <2>8 DEF ChangeOK
  <2>10. disk["live"].of = gate.expected
    BY <2>5, <2>7, <2>8 DEF MarksOK
  <2>11. Recorded.print = gate.expected /\ Recorded.previous = Previous.print
    BY <2>10 DEF Recorded
  <2> QED
    BY <2>3, <2>9, <2>11 DEF ChangeControlled, Initial
<1> QED
  BY <1>1, GateInvariant, FilesInvariant, MarksInvariant, ChangeInvariant, PTL
     DEF Spec, UpgradesAreApproved
============================================================================
