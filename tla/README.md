# Verification of the PowerChain disaster relief platform

TLA+ modules, TLC configurations and TLAPS proofs kept beside the code of
`src/`. The reference is the code: every definition is translated from it, and
`PROJECT.json` maps each one to its lines.

## The system

The platform is a single Node process (Fastify, one event loop) in
`apps/backend`, a Next.js site in `apps/web`, small rule packages in
`packages/` and release scripts in `scripts/`.

| Component | State | Operations | Interacts with |
|---|---|---|---|
| Capital state machine `domain/capital.ts` | none (pure) | `applyCapitalTransition`: ten transitions and their refusals | capital service |
| Release review `domain/release-policy.ts` | none (pure) | `evaluateRelease`: seven checks | capital service |
| Settlement reconciliation and ledger `domain/reconciliation.ts`, `domain/ledger.ts` | none (pure) | create, submit, unknown, reconcile; journal of a settlement | capital service |
| Idempotency registry, receipts `domain/integrity.ts` | Map from key to request hash and response | `execute`, `createReceipt` | every mutating handler |
| Capital service `services/relief-capital.ts`, routes `api/v1/capital.ts` | Map from identifier to aggregate | ten handlers, nine of which change state | clients, operators |
| RPC failover `services/solana-data.ts` | telemetry and circuit per endpoint | `rpcTransport`, `updateRpcEndpoint` | snapshot cache, Solana RPC |
| Snapshot cache `services/solana-data.ts` | `cache` and `inflight` Maps | `cached` | every read of chain or market |
| Provider telemetry and quorum `services/solana-data.ts` | telemetry per provider, hysteresis counters | `fetchJson`, `rpcTransport` record; `getProviderStatus` reads and counts | readiness, status page |
| Market observations | none | `getSolanaMarket`: six providers, priority, divergence | snapshot cache |
| Readiness, SLO `app.ts`, `runtime-metrics.ts` | ring of samples | `/ready`, `/observability/slo`, `onResponse` | all of the above, release gate |
| WebSocket snapshots `app.ts` | topics, timer, message count per socket | subscribe, publish, close | snapshot cache, stream hook |
| Server start and shutdown `server.ts`, `config/validate-runtime-config.ts` | listening state | check, listen with port fallback, shutdown | other processes, signals |
| Wallet data `services/wallet-data.ts`, `api/v1/wallet.ts`, web proxy | none | one portfolio request | RPC, Helius, wallet provider |
| Address validation | none | two base58 validators | routes |
| Fees `domain/fees.ts`, `packages/fees` | none (pure) | two computations of one commission | |
| Rewards, bridge, policy packages, `domain/authority.ts` | none (pure) | conjunctions of comparisons | no caller in the backend |
| Polling and stream hooks | React state, refs, timers, closures | effects, requests, sockets | API client, WebSocket |
| Wallet provider `providers/wallet-provider.tsx` | wallet, address, portfolio, local storage | connect, disconnect, refresh, account change | browser wallets, wallet data |
| Release scripts `scripts/` | reports in `release/evidence` | gate of two phases, 19 steps | operator, programs on chain |

### What is hard, and what must hold

* **Capital.** Requests of many clients reach the service in any order, are
  lost, repeated and delayed; money moves through eight totals, labels,
  executions and journals that are written by different handlers. The totals
  must respect the pipeline; a journal must never record money that was not
  released; a key must run its operation once; a submitted payment must never
  become another payment.
* **RPC failover and cache.** Calls interleave at every `await`; a circuit is
  opened and closed by answers that arrive late. At most one producer per key,
  failures never cached, an endpoint that works is eventually used.
* **Quorum, readiness.** Reading the status changes the hysteresis; a probe
  mixes values of different moments and caches; an outage must leave no trace.
* **WebSocket and web.** Publishes overlap and subscriptions change during one;
  closures of an effect outlive their clean-up; a wallet switches while its
  portfolio loads. What is sent must have been asked for, connections and polls
  must stay single and end, and what is shown must come right again.
* **Release.** The steps of the gate talk through files that outlive a run; runs
  are killed, repeated and mixed with steps by hand, and the programs on chain
  change meanwhile. A PASS must rest on what this run saw.
* **Start.** Ports are taken and freed while the server searches one.

The list of hazards, each at its line, is in `PROJECT.json`.

## Modules

| Module | Models | Role |
|---|---|---|
| `Capital` | `domain/capital.ts` | operators: `CanApply`, `Apply`, `AssertAccounting` |
| `ReleasePolicy` | `domain/release-policy.ts` | operator `Eligible`; extends `Capital` |
| `Reconciliation` | `domain/reconciliation.ts`, `domain/ledger.ts` | operators on one execution, and its journal |
| `IdempotencyRegistry` | class `IdempotencyRegistry` | variables `entries`, `answers`; steps `Remember`, `Replay` |
| `ReliefCapital` | `services/relief-capital.ts`, `api/v1/capital.ts` | the state machine composed of the four above |
| `CapitalWaterfall` | abstract | what the service promises about money |
| `ReliefCapital_proofs` | | theorems and proofs |
| `MCReliefCapital` | | inputs and bounds of the TLC instances |
| `RpcFailover` | `rpcTransport`, `updateRpcEndpoint` in `services/solana-data.ts` | variables `health`, `active`, `telemetry`, `left`; steps of a call and of the clock |
| `SnapshotCache` | `cached` in `services/solana-data.ts` | variables `life`, `inflight`; steps of a key |
| `SolanaReads` | the cached and uncached reads built on both | the state machine composed of the two above, with `job` |
| `KeyedSnapshot` | abstract | what the cache promises about its keys |
| `SolanaReads_proofs` | | theorems and proofs |
| `MCSolanaReads` | | inputs of the TLC instances |
| `ProviderStatus` | telemetry and `getProviderStatus` in `services/solana-data.ts` | variables `setup`, `observed`, `quorum` |
| `SloWindow` | `runtime-metrics.ts` | variable `samples`; recording, pruning and verdict |
| `Readiness` | `/ready`, `/providers/status` and `onResponse` in `app.ts` | the state machine composed of the two above, with `probe`, `market`, `calm` |
| `DebouncedQuorum` | abstract | what the operator-facing quorum promises |
| `Readiness_proofs`, `MCReadiness` | | theorems; environments of the TLC instance |
| `SnapshotSocket` | the WebSocket handler in `app.ts` | connection, messages, publishes |
| `SolanaStream` | `hooks/use-solana-stream.ts` | runs of the effect, sockets, timers |
| `PollingResource` | `hooks/use-polling-resource.ts`, `PowerChainApiClient.get` | chains of polls over one shared request |
| `WalletProvider` | `providers/wallet-provider.tsx` | wallet, address, portfolio, loads |
| `Console` | | the four above side by side |
| `Console_proofs` | | theorems and proofs |
| `ReleaseGate` | the 13 scripts of the gate | files, evidence, seal, programs, the run under way |
| `ServerStart` | `server.ts`, `config/validate-runtime-config.ts` | check, listen, shutdown |
| `WalletPortfolio` | `services/wallet-data.ts`, `api/v1/wallet.ts`, the web proxy | one request |
| `Commission` | `domain/fees.ts`, `packages/fees` | both computations over a pool of fundings |
| `Support` | | the four above side by side |
| `Support_proofs`, `MCSupport` | | theorems; inputs of the TLC instance |
| `CapitalRecords_proofs` | | theorems about approvals, reviews, payments, journals, receipts and answers of `ReliefCapital` |

`Console` and `Support` hold parts that share no state. One specification each,
with a variable `focus` that says which part moves, keeps them in one run without
multiplying their states; a part that does not move rests in an initial state,
and every property speaks of one part.

### How state and actions correspond to the code

`store` is the set of identifiers in the Map `store`; `intent`, `evidence`,
`approvals`, `receipts`, `execution` and `journals` are the fields of the
aggregates. Executions are kept in one function over identifiers with the
identifier of their intent inside, which is what `findIndex` over
`item.executions` sees. `entries` is the Map of the registry; `answers` is a
history variable with every successful reply to a request whose key can come
back.

Each handler is synchronous, so one request is one action: `CreateIntent`,
`TransitionIntent`, `AddEvidence`, `AddApproval`, `PrepareRelease`,
`PrepareSettlement`, `SubmitSettlement`, `SetSettlementUnknown` and
`ReconcileSettlement`, each with its guard, its writes, its receipt and the
registry entry. `ReplayRequest` is a request under a key that has an entry. A
handler that throws leaves the state alone and is not an action, with one
exception: `reconcileSettlement` writes the execution before
`applyCapitalTransition` can throw, so `ReleaseThrows` is a disjunct of
`ReconcileSettlement`.

Left out as data: currency, clocks, text, the hashes of receipts (their number
per kind is kept), hash of evidence (`attested` stands for the verifier and the
time that a verified record needs). A request hash is the request itself:
canonical JSON covers every field, and requests of different routes have
different fields. A key that never comes back is `OnceKey`, whose entry is not
recorded, because no step reads it. Amounts are `bigint` in the code and
naturals here: the routes accept digits only.

For the reads of the chain, a step ends at an `await`. `Fetch` is a reader who
misses the cache: it starts the calls of the producer, which choose their
endpoints at that moment. `CallDirectly` is a call outside the cache (program
registry, wallet). An attempt ends in one of four ways: `CallAnswered`,
`CallRejected` (HTTP is fine, the body holds an error; the endpoint counts as
live), `CallFailsOver`, `CallThrows`; each writes the telemetry and, at the end
of a call, does what the producer does with the outcome. `Deliver` and `Break`
are the two sides of `Promise.all`. `Complete` ends a producer that also awaits
other providers. Readers who hit the cache or share a Promise change nothing
and are no action. `health[e].cooling` is what is left of `openUntil`,
`life[k]` what is left of `expiresAt`, `TimePasses` counts both down; nothing
bounds the time an attempt takes, so every timing of answers against cooldowns
is covered. The failure counter stops at the threshold.

**Readiness.** `Readiness` reads the code of one service: `ProviderAnswers` and
`ProviderFails` are the ends of requests of any route, `StatusIsRead` is
`GET /providers/status`, `RequestAnswered` is `onResponse`. A probe is a sequence
of steps between its awaits: `ProbeArrives`, `OverviewReturns` or
`OverviewThrows`, `ProgramsReturn` and, where the market is asked for,
`MarketIsCached` or `MarketIsFetched`; the last one decides, reads the status
(which advances the hysteresis) and answers. The environment `setup` says what is
asked for: `strict`; `warm`, a mint to warm, a missing one or
`READINESS_REQUIRE_MARKET=false`; `required`, the providers of
`REQUIRED_HEALTHY_PROVIDERS`; `slo`; and which providers are configured (a
provider without its credential or its feed is not). A dependency is kept as a grade: what forbids readiness,
what only degrades the status, and what is fine. Ages are ticks up to the first
one that is too old. `calm` divides a behaviour: while it is false everything may
fail, and once it is true nothing does; this states "after the outage" without
assuming when. With hysteresis counters at their thresholds the model stops
counting, which the code's comparisons cannot see.

**Console.** A publish of `SnapshotSocket` is what its closure holds between
awaits: what it waits for, the payload so far and, as history, the subscriptions
in force since it began. In `SolanaStream` every run of the effect is a closure
with its own `stopped`, socket and timer; `retry` is the ref they share. In
`PollingResource` a chain is a run of the effect, which waits for the request
under way or for its timer; `active` is the ref all share, so that a chain whose
effect was cleaned up while it waited goes on (React's strict mode does that on
every mount). `WalletProvider` keeps for each address how many loads are under
way: the code does not tell them apart either.

**Support.** A file of `ReleaseGate` is the launch that wrote it, its verdict and
the datum another step compares; since each carries its time, its digest stands
for all of it. A launch has an environment: the lockfile of its checkout, the
pinned programs, the deployment, and whether `RELEASE_REQUIRE_ATTESTATION` is
set, without which the final verification does not ask for the seal (and
`check-production.mjs` lets no predeploy pass). `StepPasses` and `StepFails` are every step
of the gate, its demands in `CanPass` and its report in `Report`, `Subject` and
`WritesFailure`; a step may fail for a reason of its own at any time. In
`ServerStart` the ports other processes hold change until the server listens.
`Commission` charges a pool one funding at a time by both computations.

## Runs

The capital runs use `MCReliefCapital`, `reads` and `duplicate_upstream` use
`MCSolanaReads`, `operations` uses `MCReadiness`, `client` uses `Console` and
`support` uses `MCSupport`. In the capital runs the receipts an intent may collect are bounded
per kind (`MaxReceipts`), which bounds every counter, since each handler
appends a receipt; the bound stops the instance, so deadlock is not checked:
the service itself never stops.

| Run | Question | Bounds and why they suffice |
|---|---|---|
| `settlement` | Do money, journals, labels and receipts stay consistent under every order of settlement requests, and does the service implement the waterfall? | 1 intent (handlers touch one), amounts 1, 2 and 3 (which the 2 in escrow never cover), 2 executions, 2 signatures, 2 destinations: wrong amount, wrong destination, shared signature, repeated final observation, competing executions and an exhausted escrow all occur; a direct transition may also carry 0 and is refused; 5 ordinary transitions (the four that fill the escrow and one more), 2 direct marks of readiness, 2 direct releases and 3 reconciliations allow one after a double release |
| `governance` | Do reviews, approvals and the pipeline keep their promises? | 1 intent, amounts 0 to 2, 7 ordinary transitions (RAISE, MAKE_AVAILABLE, ALLOCATE, ESCROW, MARK_SPENT, MARK_DELIVERED and VERIFY_IMPACT: a whole walk), beside them one review, one mark of readiness by hand and one RELEASE, 2 approvers, 2 roles, 1 piece of evidence, 2 approvals, reviews under the default policy and under one with a cap and all roles |
| `idempotency` | Does a key run its operation once, and are late replays harmless? | 2 intents and 1 key that can be sent again on any request of either at any time; 5 ordinary transitions and one receipt of every other kind |
| `direct_release` | Is capital released only by reconciliation? (documented, violated) | as `settlement`, with amounts 1 and 2 |
| `partial_reconcile` | Is an execution reconciled only with its journal? (documented, violated) | as `settlement`, with amounts 1 and 2 |
| `double_release` | Is one payment released once? (documented, violated) | as `settlement`, with amounts 1 and 2 |
| `unknown_retried` | Is no payment prepared while one is unknown? (documented, violated) | as `settlement`, with amounts 1 and 2 |
| `reads` | Do circuits, cache and calls stay consistent, does every flight end, and does a good endpoint heal the service? | 3 endpoints, 2 attempts (so that one endpoint is out of reach), threshold 2, cooldown and time to live of 1 tick, 2 calls at one time, a snapshot with one call and one with a vital call, an optional one and other providers; no bound but these: the state space is finite |
| `duplicate_upstream` | Are upstream calls for one key never duplicated? (documented, violated) | 1 endpoint, 3 calls |
| `operations` | What does a strict READY vouch for, how does the quorum follow, and do readiness and SLO recover from an outage? | 6 environments: lenient and strict with the RPC and 2 market providers, both for the quorum; strict with 1 and with Helius, which enriches the market snapshot, does not count for the quorum and is required; strict with the SLO gate; strict with the market waived; strict without a mint; freshness of 1 tick, both hysteresis thresholds 2 (so that an interrupted count exists), a window of the present tick and 2 samples of which 2 are needed: expiry, overflow and too few samples occur |
| `client` | Does the socket send only what was asked for, do connections and polls stay single and end, does what is shown come right? | 3 publishes (two overlap while a third starts), 3 messages answered before the close, 3 runs of each effect (a clean-up, its successor and one after that), data stale after 2 ticks, 2 wallets, 2 accounts, 2 loads of each |
| `support` | Is a PASS of the gate its own, is what is recorded approved, does the server listen only where it may, is a portfolio honest, do the commissions agree? | 3 launches over a first deployment and two candidates of its successor (enough for a stale PASS, a failure over it and the gate that meets both), 2 program versions, one candidate launched without the demand for attestation, and by hand six of the steps that write a file (the other four, SBOM, policy, artifacts and rollback target, differ from these only in their file); every mix of 10 configuration fields at ports 0, 2 and 4 of 4 with 3 attempts, so that the search runs past the last port; 2 assets; 4 fundings of 9 amounts around the roundings of 2, 3 and 5 per cent |

Symmetry: executions, signatures, destinations and, in `idempotency`, intents
are interchangeable; no fairness is assumed in those runs and every property
is a safety property that names none of them.

### Properties

* `AccountingChain`: the chain raised >= available >= ... >= verifiedImpact, and
  the checks of the switch alone are enough for it, so the assertion at the
  end of `applyCapitalTransition` is never what refuses a transition.
* `ReleasesAreAudited`: every journal and every direct `RELEASE` has used up a
  readiness of its own, set by a review that passed or by a direct
  `MARK_RELEASE_READY` with its receipt; and without such a receipt an intent is
  ready only while a review of it would pass, and has released only with the
  approvals and evidence of one. The code lets requests go around the review
  (finding 1), but none does so without a trace.
* `FirstReleaseFits`: the amount of a settlement is checked when it is prepared
  and released when it is reconciled; whatever happens in between, the first
  release of a ready intent is accepted. What finding 2 needs is an earlier
  release.
* `JournalsWithinReleased`, `JournalsBackedByExecutions`: journals credit no more
  than was released, and all of it unless a receipt shows a direct `RELEASE`; each
  can be traced to an execution that still carries its signature, amount and
  destination.
* `LabelsTellTheTruth`: the state label agrees with the totals.
* `ReceiptsAccountForState`: version, executions, signatures, journals,
  evidence and approvals are each counted by receipts, on the failing path of
  a reconciliation too.
* `NeverResubmitted`: an action property; a submitted payment keeps its
  identity and is never prepared or submitted again.
* `OneApprovalPerRole`, `PassedReviewsStayPassed`: approvals count once per
  approver and role, and no request invalidates a review that passed.
* `OneAnswerPerKey`, `AnswersArePast`: a key has one answer, and it is a past
  of its aggregate.
* `ImplementsWaterfall`: the refinement of `CapitalWaterfall` with
  `amounts` and `open` read off the intents.

* `OpenCircuitsAreEarned`: an endpoint is out of selection only with the
  threshold's failures in a row behind it, in every order of answers.
* `OneFlightPerKey`: awaited calls belong to the one flight of their key, which
  has no fresh entry; and a flight always has a call, or another provider, that
  will end it.
* `ImplementsSnapshots`, `FlightsEnd`: the safety and the liveness of
  `KeyedSnapshot`.
* `GoodEndpointHeals`: an endpoint among the first `MaxAttempts` that from some
  time on fails no attempt ends the failures of calls, whatever the others do.
  The restriction is needed: behind `MaxAttempts` endpoints that keep failing,
  whose circuits close again before the next call, an endpoint is never tried.

* `StrictReadyIsCurrent`: a strict 200 was decided on the raw quorum and the
  required providers of that moment and after an RPC endpoint answered since the
  probe came, although overview and market may come from caches and the debounced
  quorum lags.
* `QuorumIsDebounced`, `QuorumFollows`: the refinement of `DebouncedQuorum`, and
  that the effective quorum ends up equal to a raw one that stays.
* `WindowIsExact`, `SloForgives`: shifting from the front leaves exactly the
  samples inside the window; an outage is forgotten, and probes do not count.
* `StrictRecovers`: after the outage a strict service answers READY for good, if it
  asks for the market of a mint and requires providers it has.
* `SnapshotsAnswer`, `SubscriptionsSettle`: a snapshot answers in full some
  subscription in force since its publish began, and holds nothing that none of
  them asked for (after a switch it may hold both, as in the code); a client that leaves its subscription alone ends
  up with exactly that (an older publish may still be the last to end once).
* `OneConnection`, `StreamRecovers`: one socket or timer at most, owned by what is
  mounted; LIVE again when connections are no longer lost, whatever the back-off.
* `LossIsShown`, `PollingQuiets`: data whose requests all fail is marked stale;
  when the page is gone all chains end, those another run left behind included.
* `RefreshHeals`: loads that end out of order can show another address's
  portfolio; with a refresh now and then they do not do so for ever.
* `PassedGateIsFresh`, `FailedCandidateIsNotRecorded`, `UpgradesAreApproved`: what
  a postdeploy that passes rests on, what a failed predeploy prevents, and that
  the whole gate records unchanged or approved programs, though it checks the
  pins in one phase and the chain in the other.
* `ListeningIsAllowed`, `PortfolioIsHonest`, `CommissionsAgree`: the port and the
  configuration a server listens with; the status of a portfolio against its
  sources; the two commissions against one another and against one charge.

The three type invariants (`TypeOK` of `ReliefCapital`, `Readiness` and `Console`)
carry the bounds that are not there by shape: the window's limit, the counters'
thresholds and topics that are never empty.

### Observations

What the models show of the code and no document denies:

* A silent reconnect that ends late overrides a wallet chosen meanwhile, and a
  disconnect clears whichever wallet is current when it ends
  (`wallet-provider.tsx`: `Connected`, `Disconnected`).
* After a second run of the effect two chains of polls go on side by side, the
  first one for as long as the page is shown (`use-polling-resource.ts`).
* `PowerChainApiClient.get` rejects a 503, so the console keeps the last readiness
  it saw and only marks it stale.
* With `READINESS_REQUIRE_MARKET=false` a strict service still needs the quorum of
  fresh market providers, and its probe no longer asks any: unless other requests
  do, their telemetry grows stale and the service refuses for good
  (`app.ts:115`, `app.ts:147`). `StrictRecovers` fails in that environment; the
  production check (`check-production.mjs`) does not allow it.
* After a single step by hand (`pnpm check:live`, for one) a postdeploy may
  find programs the change control of its predeploy never saw: `UpgradesAreApproved`
  holds of the whole gate only. Evidence compares the lockfile of reports, not
  their commit or age.
* A hysteresis variable that is not a number makes every comparison with it false:
  the effective quorum then keeps its first value (`solana-data.ts:599`). The
  models take the variables in their documented range.
* `isValidSolanaAddress` drops the zero bytes it has just added for leading ones
  (`validation.ts:26`), so addresses that begin with a zero byte, the System
  program's among them, are refused.

### Findings

Five statements of the documentation do not hold of the code; `PROJECT.json`
quotes them. (1) The transitions route takes `RELEASE` and
`MARK_RELEASE_READY`, so review and reconciliation can be bypassed.
(2) A reconciliation whose release is refused leaves a RECONCILED execution
without journal. (3) A finalized observation repeated under a new key, or of a
signature given to two executions, releases a payment twice. (4) A payment can
be prepared while another is EXECUTION_UNKNOWN. (5) The calls of a producer
that has failed go on, and the next reader of the key sends them again beside
them. The proofs locate three of them: what (1) goes around leaves a receipt
(`AuditComplete`), (2) needs an earlier release (`FirstReleaseSafe`), and (5) is
due to orphaned calls alone (`DuplicatesHaveOrphans`).

## Fairness

None for the capital service: every step of its model is a request of a client
or an operator, nothing in the code makes them send one, and no liveness is
claimed.

`SolanaReads` assumes weak fairness of the end of each attempt (its abort timer
fires at the latest), of the other providers of a producer (`fetchJson` has the
same timer) and of the clock. Nobody is assumed to read, and no outcome is: an
endpoint may fail for ever.

`Readiness` assumes that the clock goes on and that somebody goes on reading the
status and probing, as the console's polls and an orchestrator do; it assumes
nothing of the steps of a probe beyond that (each await has an abort timer, but
`StrictRecovers` is true of a probe that hangs as well) and no outcome.

`Console` assumes weak fairness of timers (the interval of a socket, the poll and
reconnection timers, the clock), of the end of reads and requests, and of loads.
The reads have abort timers in the backend; `api-client` has none, so the end of
a request or load of the page rests on the 10 seconds after which the web proxy
gives up (`powerchain-api-proxy.ts`). Weak fairness is also assumed of the opening
of a connection: the network either answers or refuses. Nobody is assumed to
subscribe, reload, connect or refresh; where a property needs it (`RefreshHeals`)
it is its premise. `Support` has safety properties only.

## Proofs

`ReliefCapital_proofs` proves for every set of intents, executions, keys,
inputs and every bound, from the assumptions named in the modules (inputs are
of their types; `Null` is no signature, `OnceKey` no reusable key, `NoEntry`
no entry):

1. `TypeCorrect`: `[]TypeOK`, one lemma per handler.
2. `SwitchKeepsAccounting`: a pure lemma on `Capital`; with it
   `AccountingSafe`.
3. `StepOfMoney`: a step changes the intents and journals by one accepted
   transition or not at all, and writes a journal only with the release of an
   execution. `LabelsSafe` and `WaterfallImplemented` follow from it.
4. `StepOfExecution`: what a step may do to an execution. With the invariant
   `SignedWhenSubmitted` (an execution carries a signature exactly from its
   submission on), `SubmittedOnce` follows; with `StepOfMoney`,
   `JournalsTraceable`. The strengthening is needed: the action property speaks
   of signed executions, and only the states after PREPARED are known to be
   signed.
5. `StepOfRegistry` and the invariant `AnswersOfEntries` (every answer is the
   one its key's entry holds) give `OneAnswer`.

`SolanaReads_proofs` proves for every number of endpoints, calls and keys,
every threshold, limit, cooldown, time to live and number of calls of a
producer:

1. `ReadsTypeCorrect`. A call's endpoint is the least of those left to it;
   `LeastNatural` (from the well-foundedness of the naturals) and
   `AttemptsExist` show that there always is one.
2. `CircuitsSafe`: `StepOfHealth` lists what a step can do to one record, and
   `AnswersKeepEarned` shows that each of it keeps the invariant.
3. `FlightsSafe`: `OneFlightPerKey` is inductive as it stands, because it also
   says that awaited calls run: a new flight takes calls that do not run, so it
   takes none from another flight.
4. `SnapshotsImplemented`: with `OneFlightPerKey`, a step raises a flight only
   over a stale entry and refreshes an entry only from its flight
   (`StepOfKey`).
5. `DuplicatesHaveOrphans`: the calls of a key that belong to no failed producer
   are never more than one producer makes. The documented coalescing therefore
   fails (finding 5) exactly by orphans. Beside `OneFlightPerKey` it needs
   `JobsAreRunning`: what has a job is under way, for a key.
6. `EntriesAreWhole`: an entry becomes fresh by the last awaited call of its
   flight, or by its other providers after that; orphans store nothing.
7. `AttemptsAreBounded`: a call has at most `MaxAttempts` endpoints left, each
   attempt that fails takes its own away, so none is tried twice.
8. `HealingLasts`: the safety half of `GoodEndpointHeals`. `Healed(e)` (the
   circuit of `e` is closed and every call under way may still try it) is kept
   while `e` fails no attempt, and no call gives up then. That a new call has `e`
   among its first `MaxAttempts` candidates whatever else is in selection
   (`AvailableIsTried`) is where `e <= MaxAttempts` is used.

`CapitalRecords_proofs` continues the capital service:

1. `ApprovalsCountOnce`: `StepOfRecords` (records only get longer, and never by an
   approval that is there) makes `OneApprovalPerRole` inductive.
2. `ReviewsLast`: cardinalities of longer records (`MoreApprovals`,
   `MoreEvidence`) and escrow that only grows.
3. `AnswersStayPast`: `StepOfHistory` (nothing recorded is taken back) carries an
   answer forward; with the invariant `EntriesAnswered` (an entry is made
   together with its first answer) a replay adds no answer, and a new one shows
   the present.
4. `ReceiptsComplete`: the strengthening `ReceiptsOK` adds that an intent has
   finitely many executions and that an identifier not yet prepared belongs to
   none, so that each handler moves one cardinality by one.
5. `AuditComplete`: `ReleasesAreAudited` for whatever requests come, the direct
   transitions among them. `StepOfAudit` sorts the steps by what they do to the
   three receipts that count: a review or a mark by hand adds a permit and makes
   ready, a release uses one up, everything else leaves them and the readiness
   alone or takes the readiness away. That a review which passed goes on passing
   (`EligibilityLasts`, shared with `ReviewsLast`) and that its approvals and
   evidence stay (`BackingLasts`) carries the last two parts.
6. `FirstReleaseSafe`, from `PaymentsFit`: the amount of an execution is positive
   and was covered by escrow when it was prepared, and escrow never falls
   (`EscrowGrows`). With nothing released the switch therefore takes its release.
7. `JournalsSafe`: a running balance over the journals is extended by the amount of
   the one new journal (`OneMoreCredit`), which is what its release adds
   (`JournaledStep`); only a direct `RELEASE`, which leaves its receipt, makes the
   released total run ahead.

`Readiness_proofs`:

1. `QuorumImplemented`: with `QuorumOK` (a counter that is compared is below its
   threshold, and the other one is 0) every read of the status is a step of
   `DebouncedQuorum`. `FollowingLasts` is the safety half of `QuorumFollows`:
   while the raw quorum stays, each read brings the effective one a count nearer
   or makes it equal, and equal it stays.
2. `StrictReadyCorrect`, from `ProbeOK` (at the market step the programs are fit
   only if an RPC call answered since the probe came), for every environment.
3. `ReadinessTypeCorrect` rests on `RestOK` and on the lengths of pruned and cut
   windows, with the least index of a set of naturals from well-foundedness.
4. `WindowCorrect`: `RestOK` also says that the samples are in order of time.
   Then the first one inside the window has only such behind it, and shifting
   from the front removes just what a filter would: `WindowIsExact`. The
   invariant is stated by positions, so that it needs no induction over `SelectSeq`.
5. `RecoveryLasts`, `ForgivenessLasts`: the safety halves of `StrictRecovers` and
   `SloForgives`. `Recovered` and `Forgiven` describe the state without a trace of
   the outage and are shown to be closed under every step of a calm world, an
   expiring market snapshot and a cut window included.
6. `ProbesDoNotCount`: an answer to a probe leaves the pruned window as it was.

`Console_proofs`:

1. `SnapshotsCorrect`, from `SocketOK` (a publish waits for programs with the
   overview in its payload or having been started without it, and its history
   contains what is in force).
2. `OneConnectionCorrect`, from `StreamOK` (a closure that was cleaned up holds no
   timer and only a closing socket).
3. `ConsoleTypeCorrect` needs that subscriptions are never empty.
4. The safety halves of the liveness properties. `StreamGoesOnCorrect`: what is
   mounted has a connection or the timer of the next, and the label tells the
   truth, so `StreamRecovers` only waits for timers and the network.
   `PollingGoesOnCorrect`: an active hook waits or has a timer. `ChainsOnlyEnd`,
   `SettledSocketLasts`, `PortfolioSettledLasts`: the states `PollingQuiets`,
   `SubscriptionsSettle` and `RefreshHeals` lead to are never left.
5. `WalletAgreesCorrect`: wallet and address come and go together and the page
   loads only while a load is under way, in every order of callbacks.

`Support_proofs`: `CommissionOK` bounds each sum by the sums of its floors;
`ServerOK` ties the port to the attempt and the configuration; `PortfolioOK` follows
a request through its awaits. For the gate, `GateOK` (where in its sequence a run
is), `FilesOK` (a predeploy report that passes means the last predeploy did),
`MarksOK` (which files this run wrote, by the steps it has behind it) and
`ChangeOK` (what the change control of this run allowed) give the three action
properties, for any number of launches, deployments and program versions.

Only model-checked: every liveness property (`FlightsEnd`, `GoodEndpointHeals`,
`QuorumFollows`, `StrictRecovers`, `SloForgives`, `SubscriptionsSettle`,
`StreamRecovers`, `LossIsShown`, `PollingQuiets`, `RefreshHeals`), which is out of
the prover's reach. Of each, what a step can do to it is proved, as said above;
that the steps come is TLC's.

## Not modelled, and why

* Rendering, styles, charts, formatting, schemas, and the generators behind the
  SBOM and provenance (beyond the files they leave) have no state of their own.
* Rewards, bridge, policy, `domain/authority.ts` and the remaining fee quotes are
  pure conjunctions and single floors without a caller in the backend: a property
  could only restate them.
* Prices: priority and divergence are arithmetic on values of one moment; which
  providers answered, and what follows from it, is in `Readiness`.
* Base58 arithmetic works on 32 bytes, and an instance that TLC can enumerate
  would be another function.
* Restart of the API: nothing is persisted, so it is the initial state.
* Hash functions are taken as injective, signatures and schemas of evidence as
  right, and two gates at one time on one checkout are excluded; the last step
  of a postdeploy can then only confirm the one before it.
* The adapters in `providers/` are I/O; of `birdeye.ts`, `coingecko.ts` and
  `pyth.ts` only `providers/index.ts` knows, which nothing imports.
