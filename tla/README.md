# HexKit: TLA+ models, checks and proofs

HexKit is a browser toolkit for EVM developers: it simulates transactions, debugs
them step by step, decodes calldata and storage, and moves idle tokens into yield
vaults. This directory holds TLA+ models of the parts of it that are concurrent,
long-lived or handle funds, the TLC configurations that check them on small
instances, and TLAPS proofs of the properties that matter most for instances of
every size. Paths below are relative to the root of the repository.

- [The system](#the-system): components, state, hard behaviours
- [Modules](#modules): which module models what, and how
- [Runs](#runs): what is checked, with which bounds and fairness
- [Findings](#findings): where the code does not do what it says
- [Proofs](#proofs)
- [What is not modelled](#what-is-not-modelled)
- [Plan](#plan)

## The system

```
 browser page                                     local Node process            child processes
 +------------------------------------+  HTTP  +--------------------------+   +----------------+
 | simulation page  --- /simulate ----|------->| simulator-bridge.mjs     |   | edb-simulator  |
 | debug session    --- /debug/start -|------->|  semaphore (slots,queue) |-->|  --keep-alive  |
 | debug prepare    --- /debug/prepare|------->|  keep-alive sessions     |<--|  JSON on stdout|
 |                  <-- SSE + polls --|--------|  prepare jobs            |   |  then RPC      |
 | history, vault (IndexedDB)         |        +--------------------------+   +----------------+
 |                                    |
 | earn: deposit, withdraw, sweep  ---|--> LI.FI quotes, bridge status, intent orders
 |                                 ---|--> wallet and RPC provider --> source and destination chains
 +------------------------------------+
```

Everything in the bridge and in the page runs on a JavaScript event loop: code
between two `await`s is atomic, and what goes wrong goes wrong because something
else happened during an `await`. The models therefore have one action per piece of
code between two awaits (a handler, a continuation, a timer, an event callback),
and the awaits are where actions of other operations, of child processes, of chains
and of the user are interleaved.

### Components

| component | state it keeps | operations | what is hard | what makes it correct |
|---|---|---|---|---|
| Simulation semaphore (`scripts/bridge-config.mjs`) | slots in use, queue of callers with timers and abort listeners | acquire, release, queue timeout, abort, shutdown | a grant racing a timer or an abort; double release | slots conserved, FIFO, nobody waits beside a free slot |
| Keep-alive sessions (`scripts/keep-alive-manager.mjs`, `simulation-runner.mjs`) | map of sessions with their children and temporary files | run, stdout chunks, parse timers, timeout, close, RPC, end, sweep, evict | order of chunk, timer, exit and close; eviction during use | every child and file has an owner; calls settle |
| Bridge handlers and process life (`scripts/simulator-bridge.mjs`) | open requests, the semaphore, the sessions | `/simulate`, `/debug/*`, shutdown, crash, restart | a request is answered while its child hangs; children outlive a crash | slots cover runs; no stray children; answers |
| Debug preparation (`scripts/debug-sessions.mjs`, `useDebugPrep.ts`) | job map of the bridge; generation, stream and poll of the page | create, progress, end, prune; start, cancel, stream events, polls | two paths report the same outcome; late answers of abandoned jobs | connect once, to the right job; settle |
| Debug session (`useDebugSession.ts`, `useDebugNavigation.ts`, `useDebugWindow.ts`, `operationGeneration.ts`) | session, snapshot shown, snapshot cache, generations | connect, start, end, navigate, replace by a trace | opens and navigations overlap and are answered out of order | the last request wins, nothing leaks |
| Cross-chain composer deposit (`crossChainComposerDeposit.ts`, `DepositFlow.tsx`) | phase, bridge hash, delivered amount; transactions on two chains | bridge, poll, measure, deposit, retry | partial failure between two transactions; late receipts | own funds stay, bridge once, done is true |
| Execution queue and intent bridge step (`executionMachine.ts`, `ExecutionQueue.tsx`, `IntentBridgeStep.tsx`) | legs and current leg; per step the stage, order and amounts | quote, open, poll, refund, deposit, skip, next | a step is unmounted while its handler runs; order states lag | one order per leg, outcomes true, recovery stays reachable |
| Withdrawals (`WithdrawFlow.tsx`, `withdrawComposerRoute.ts`, `WithdrawIntentRouteStep.tsx`) | flow state, measured proceeds, route panel, intent step; wallet calls under way | redeem, measure, route by composer or intent, poll, refund, keep underlying, close | calls outlive the step and the flow they were made in; a route fails after its broadcast | the composer routes proceeds once, what is reported happened, the form is released |
| Simulation history, trace vault and store (`SimulationHistoryService.ts`, `TraceVaultService.ts`, `simulationStore.ts`) | two object stores, a directory per trace, a list in memory | save, prune, delete, clear, persist and load a decoded trace | saves fired without waiting for each other; no transaction spans two stores; a tab that closes | list and store agree, oldest go first, rich traces stay |
| Decoding on the results page (`useDecodedTrace.ts`, `SimulationContext.tsx`, `useSimulationPageState.ts`) | trace on display, decode cache, pending request, worker, fallback | show a result, decode, cancel, fail, keep the rows | the result changes while the worker decodes another one | decoding ends; the trace is the result's own (it is not) |
| Contract resolution (`ContractResolver.ts`, `ContractCache.ts`, `sourcifyCache.ts`, `sources/sourcify.ts`) | two cache layers, in-flight table, shared first call | resolve, join, race, abort, time out, save | aborts of one request reach calls that others share | waits end, "not found" is true |
| Same-chain execution and approvals | flow state | quote, approve, send | retry of what was sent | not modelled yet |
| Intent leg pipeline, recommendations | results per leg | fetch, rank | aborts and races of fetches | not modelled yet |
| Trace detail store (`scripts/trace-detail-store.mjs`) | entries with age, count and byte bounds | put, get, prune | eviction at the bounds | not modelled yet |
| Snapshot cache, breakpoints | 500 snapshots, least recently used | get, put | eviction | without eviction, in DebugSession |
| Trace decoding, storage layout, expression evaluation, signature database, viewers, Vara tools, API proxies | little or none | transformations | size of the data | not modelled; see below |

`PROJECT.json` lists every component with its sources, and under "hazards" the
places where the code is hard to test, with the properties that would notice.

## Modules

A module's header says what each variable stands for. Operators keep the names of
the functions they model, and `PROJECT.json` ("map") gives the source lines of each.
A definition commented "Mutant" is a plausible bug in the definition after it; it is
not part of the specification, and shows which property would find that bug.

**SimulationSemaphore**, **SlotPool**. `acquire()` is one action per outcome (aborted
already, free slot, queue full, enqueued), since it runs to its `return` without an
await. `release()` includes the loop of `_drain()`, which wakes the oldest entries in
the same step. The abort listener stays on the signal after a grant, as in the
code, so `Abort` may come after the promise has settled. `SlotPool` is what callers
may rely on: a set of holders, a set of waiters, and a slot that passes to a waiter
in the step in which it is given back. The refinement maps the callers whose promise
was granted and whose closure is unused to `holders`, those pending to `waiting`.

**KeepAliveSessions**. A run is a call of `runSimulationWithKeepAlive` and its child.
The child writes nothing, a part, or a complete result (with a debug session,
without one, or too long for a string) and may exit or hang at any time. Text and
JSON are abstracted to these cases. Parsing happens on a chunk, on the parse timer of
a large output, or after close; each is an action. The Map's order by
`lastAccessedAt` is the sequence `lru`.

**SimulatorBridge** EXTENDS KeepAliveSessions and INSTANCEs SimulationSemaphore: its
requests acquire a slot, start a run, and release in `finally`. `Crash` stops the
process between any two actions; children and files survive it, the map and queue
do not. `Restart` models `cleanupStaleKeepAliveProcesses`, which precedes `listen`.

**DebugPrep**. The bridge's job map (pruned by age and count: `createdAt` is the order
of creation, and `Pruned` relates the map to what expires and what is kept), the event
stream with messages under way, reconnection, and a chain of polls, seen by one page
that starts, replaces and cancels preparations. `prepGeneration` is the identity of the
current start.

**DebugSession**. Up to two overlapping operations, each a record of what its closure
captured. An `OperationGeneration` token is modelled by whether it is still current,
which is all `isCurrent` tells. The trace and the sources of a connect answer even for a
session that is gone (the service swallows the error), its snapshot batch does not.

**CrossChainDeposit**. One record per execution: the await it is at, the balance read
before bridging, the bridge hash and the amount. The page's state changes only by
`onStateChange`, and both buttons read it. Chains move on their own: transactions are
mined, reverted or late; the bridge delivers all, a part or nothing; the user may
spend and others may send meanwhile. Balances are read through a provider that answers
with the balance of now or of some time ago (`seen`, `CatchUp`). A receipt that comes
too late is a failure here and a mined transaction there.

**LegQueue**, **IntentBridgeStep**. LegQueue is the reducer `applyExecutionEvent`, the
NEXT action and what the queue shows, as operators on a leg. IntentBridgeStep EXTENDS
it with the step's handlers. They belong together because the step reports to the
reducer, and the reducer's status decides whether the step stays mounted
(`shouldRenderFlow`): `Show` applies this after every event. A handler that is
under way goes on when its step is gone; what it sets is lost and what it reports is
not (`Tell`).

**Withdraw**. One flow of the positions list with its composer panel and its intent
step. A wallet call, or a request for a quote, is a record of its own that outlives the
component that made it: `live` says what it can still write to. Closing, editing and
reopening the form, "Keep underlying" and the answers of calls left behind all
interleave; transactions are mined, reverted or late, and orders are filled, expire and
are refunded. Every phase of a route, and every poll of its settlement (`RoutePolls`),
sets panel and form again, whatever became of the form meanwhile (`ShowPhase`). A
transaction keeps the chain it leads to: a route to another chain has arrived when it is
delivered, not when it is mined. `outcome`, `measured` and `freed` are history variables:
what was reported last, of which redeem and by which route or order; the redeem after
which the amount was measured; and whether a refund whose step was gone has freed a form
that another call held (see the behaviours below).

**SimulationHistory**. A transaction of IndexedDB is one step, everything between two
of them is another, so `CountRecords`, `ListOldest` and `DropRecords` of two saves
interleave as they do in the browser. A run is stored under `IdOf` of it, because a
replay of a transaction reuses its hash. A decoded trace is abstracted to the counts
that `internalInfoCount`, `pickTraceRows` and `shouldKeepExistingTraceRows` compare: all
rows, the four kinds of `summarizeTraceRows`, and rows with any sign of internal calls
(internal info; a parent that is `null` counts here and not there). Stripped rows have no
internal info, and may be fewer or more than others. `Crash` closes the tab between any
two steps. `unpruned`, `rich` and `kept` are history variables: saves a crash cut short,
and the ids whose vault, and whose record too, took rows with internal info.

**TraceDecoder**. The effect of `useDecodedTrace` and the effect of the page that keeps
the rows. Effects run in a commit after the render that made them due, and in a commit
every effect sees the state of its render: `Commit` is one step, and answers of the
worker come before or after it.

**ContractResolver**. One contract, several requests. A fetch of a source is flying, or
riding on the shared first call of Sourcify, which is bound to the signal of the
request that made it. `SameKey` is the key of the in-flight table, with the signal
part. Sources answer, fail or hang; every fetch has its timer.

The modules named `..._proofs` hold the theorems about the module they extend
(SimulatorBridge_proofs those about KeepAliveSessions too), and those named `MC...` the
small instances.

## Runs

All runs use two workers; the longest (`history`, `intent_legs`,
`resolver`, `withdraw`) take three to four minutes. A run that passes was explored completely. Deadlock is not checked where
the system may come to rest: a bridge whose requests are all served, a page whose user
does nothing more, an order whose funds are in the vault. It is checked in `semaphore`,
whose callers never stop, and in `withdraw`, whose form can always be edited or closed.

| run | instance | distinct states | what it shows |
|---|---|---|---|
| `semaphore` | 5 callers (3 with a signal), 2 slots, 2 places | 22 716 | no slot leaks or is given twice, nobody waits beside a free slot, the queue is exact, grants in order of arrival, implements SlotPool, waiters are answered |
| `keep_alive` | 3 runs, 2 session places | 145 360 | map, children and files stay together; eviction takes the oldest and only when full; calls settle and children of ended sessions and timed-out calls exit |
| `bridge` | 1 `/simulate`, 1 prepare job, 1 slot, 1 queue place, 1 session place, 2 stops or crashes | 200 684 | slots cover runs, a bridge that is up owns every child, nobody waits forever |
| `prep` | 3 jobs (2 of the page), a map of 1, 1 message under way | 85 166 | connects once, to its own outcome; no stream outlives its job; a kept job settles by polls alone |
| `debug_session` | 2 operations, 2 bridge sessions, 1 trace, 2 snapshots | 822 319 | the last open and the last navigation win, no started session is forgotten |
| `cross_chain_deposit` | 3 executions, 2 held before, 2 bridged, 1 spent, 1 received | 125 420 | what was held before is not deposited, one bridge transaction, amounts stay retryable, done is true, a broadcast is answered |
| `intent_legs` | 2 legs, 2 orders, 1 held before, 1 delivered, 2 deposits, 1 route switch of each leg | 2 629 278 | one order per leg, deposits stay within what was delivered, outcomes are true, a delivered order keeps its step, an open one is answered |
| `withdraw` | 1 redeem towards another chain, 2 calls under way together, 3 transactions, 2 orders | 724 717 | screen and calls agree, a redeem is composed once, what is reported happened, a held form is released |
| `history` | 3 saves for 3 ids, or one of them a replay, or 2 saves and 2 persisted traces of one id; 1 record kept, 1 deletion, clear or crash | 3 387 588 | list and store agree, the history exceeds its limit only by saves that have not pruned, the oldest go, rich rows stay |
| `decoder` | 3 simulations (with snapshots, without a trace, rendered by the engine), a cache of 2, 3 requests | 660 581 | a page that decodes stops decoding |
| `trace_foreign` | the same | | the finding below |
| `resolver` | 3 requests, 2 of which agree on a key or not, 1 that can be cancelled; 2 sources, 1 clear | 441 066 | nobody waits for what is not under way, "not found" is true, requests are answered |

### Bounds and why they are enough

- *Semaphore*: with 2 slots and 2 places, 5 callers fill both and one is refused;
  two entries leave the queue in either order. The proofs lift every bound.
- *Keep-alive*: 3 runs on 2 places are the fewest with which an eviction chooses
  between two sessions. A run is used once; the code keeps nothing per run after it.
- *Bridge*: one slot for two requests makes one wait for the other; two stops allow a
  crash, a restart and another crash or a shutdown.
- *Prep*: one place for three jobs prunes twice, also jobs that run; the third job is
  another page's, the other two are an original and its replacement. Events of one
  stream are delivered in order, so more than one under way adds length only.
- *Debug session*: the guards compare an operation with the newest one, so two that
  overlap show every failure of a guard. One trace and two snapshots are needed for
  a cache that is wrong.
- *Deposit*: three executions are a first try and two retries. 2 held and 2 bridged
  let part of the prior funds be mixed in; `MaxSpent = 1` makes a shortage and
  `MaxReceived = 1` a delta that the bridge alone does not explain.
- *Intent legs*: two legs for the queue; a second order shows a leg that opens twice;
  two deposits are a deposit and its retry. Holding 1 before makes a deposit beyond
  the delivery possible. A route switch mounts a new step beside the handlers of the old
  one; one of each leg is enough for that. The theorems lift all of these bounds.
- *Withdraw*: two calls are a current one and one left behind by a closed flow; three
  transactions are redeem, order and refund, or redeem and two routes. The destination is
  another chain, the case with both routes and a settlement to wait for; `Dests` admits
  the others, which are left to the theorems. A refund that frees a held form is within
  these bounds, and so is the route that then goes on, shows its phases on a form that was
  edited, and fails; that it is broadcast as well takes a fourth transaction. The theorems
  lift all of them.
- *History*: with one record kept, two saves overlap in pruning and a third comes
  between; a replay renews the record that another save has listed for deletion. Two
  persisted traces of one id are a decode with internal info and a stripped one, which
  is longer, so that neither length nor order decides for the better one. The theorems
  lift all of this, the counts of the decodes included.
- *Decoder*: three simulations are one that is decoded, one that replaces it and one
  that comes back from the cache.
- *Resolver*: two requests that share a key and one that can be cancelled are an owner,
  one that joins and one that must not be joined. The theorems lift the number of
  requests and sources.

### Fairness

Fairness is put on what the event loop, timers and time do by themselves and on
nothing else: queued continuations run (`Refused`, `Begin`, `End`), timers fire
(`Timeout`, `PollTimer`), a signalled child exits (SIGKILL follows SIGTERM), waits with
a timeout end (`Settle`), polls of a mounted step are repeated (`Poll`) and orders pass
their expiry (`Expire`). A run's `release` is fair because it stands in a `finally`
after a call with its own timeout. Not assumed: that a child writes or exits by
itself, that the event stream works, that a solver fills, that a chain mines, that a
user clicks, that a queue timer fires (`WaitersAnswered` follows from order alone).
The commits of React and the answers of its worker are fair (`Commit`, `Answer`: a
worker that fails says so), and so are the receipt waits, route polls and local
continuations of a withdrawal (`CallStep`, `Prepared`) and the timers and
continuations of the resolver (`TimesOut`, `Finish`, `Save`); no source needs to answer.
All fairness is weak.

### Assumptions of the models

- *Semaphore*: a caller has one `acquire()` under way at a time.
- *Keep-alive*: pids are not reused within a run; reads, writes and removals of the
  temporary file do not fail.
- *Deposit*: LI.FI's status DONE without a substatus counts as COMPLETED. The reset to
  zero in `approveWithReset` is part of the approval step. The runs have
  `Impatient = FALSE`: the user waits for the first answer after a click. The theorems
  `PriorFundsAreKept` and `DoneIsDeposited` do not need that. A provider that lags does
  not go back to an older balance than it has shown.
- *Intent legs*: the user clicks nothing while a handler of the order at hand runs. The
  legs share one underlying token, and nobody else sends the user any of it meanwhile:
  what `EachDepositIsDelivered` keeps apart is what was held before, what the order of
  the leg delivers and what other legs do. The order service lags the chain, but does not take
  back a delivery or a refund. An account switch is not modelled.

- *Withdraw*: approvals and simulations hold the form and change nothing else; the
  underlying is not the native token; the account does not change.
- *History*: one tab, in a browser with an origin private file system; each transaction
  of IndexedDB succeeds or fails as a whole, and timestamps grow.
- *Decoder*: each simulation has an id of its own; the worker takes messages in order.
- *Resolver*: one contract; an entry of the cache that expires is one that is cleared.

Limits of what the properties say: `PriorFundsStay` and `EachDepositIsDelivered`
bound every single deposit, not the sum of a deposit and its retry. The delta of
`post - pre` does not tell the bridge from another sender: what others send while the
bridge is under way is deposited too, and `PriorFundsStay` counts it as arrived.
`PrepSettlesWhileKept` holds while the bridge keeps the job; a job pruned while it runs
is polled forever. `SettledStaysRetryable` is about failures the page is told of; an
allowance that cannot be read after the bridge throws without telling it.
`HistoryIsBounded` bounds the history from above; overlapping saves may prune it below
its limit. `RichRowsStay` speaks of rows that the vault took when no stripped call had its
read behind it, and until a stripped call cannot read the vault. `EachRedeemIsComposedOnce` and the
last parts of `WithdrawInv` and `OutcomesAreReal` hold until a refund left behind frees a
form that is held (`freed`, see the last part of the next section); the other parts
always. `EachRedeemIsComposedOnce` counts composer routes: an order whose opening was
broadcast and timed out can be followed by Try Composer, and both may be mined.
`RequestsAnswered` leaves out a request that its
caller cancelled.

## Findings

`trace_foreign` is a run in which TLC finds a counterexample to what the code says of
itself: "Cancel any pending worker request to prevent overwrite"
(`useDecodedTrace.ts:218`) and "to prevent it from overwriting the good trace"
(`309-310`). Only two of the four paths that replace the result cancel the request. A
simulation without a trace that finishes while another one's is being decoded is shown,
and stored, with the other one's rows.

### Behaviours the models reach

These follow from the code as well; the models include them, and the properties are
stated so that they say what holds besides.

- A child that exits between the last chunk of a large output and its parse gets a
  session (`FinalParse` after `Close`), against "keeps the RPC server alive"
  (`keep-alive-manager.mjs:272`). It goes by eviction, sweep or `/debug/end`.
- The temporary file of a child that could not be started may come back: it is removed
  in the error event, and the write stream may open only then (`SpawnFails`,
  `keep-alive-manager.mjs:468`).
- A simulator that dies without output resolves its call with the empty object
  (`FinalParse`, `simulation-runner.mjs:57`).
- A navigation asked for while an open is pending carries the open's session token, and
  its answer enters the cache of the session the open then installs, against
  `useDebugSession.ts:103-105`.
- A deposit whose receipt came too late and which is mined after all is retried with
  what the user held before, against "We must NEVER deposit the live balance directly"
  (`crossChainComposerDeposit.ts:607-609`).
- What others send to the user while a bridge is under way is deposited along with what
  the bridge brought (`PostRead`, `crossChainComposerDeposit.ts:589-598`).
- Before the first answer to a click is displayed nothing disables the main button
  (`DepositFlow.tsx:1830`): `Impatient` admits the second click.
- NEXT ignores a refunded leg, for which the Next Step button is enabled
  (`executionMachine.ts:87-89`, `359`); the legs behind it are not reached.
- A refund that is rejected or reverts sets the stage to failed, in which the button is
  not rendered, against "refund button must stay reachable" (`executionMachine.ts:166`).
- A decode of stripped data that read the vault before one with internal info was stored,
  or could not read it, overwrites that one in the vault, and in the record unless it is
  shorter and no count of it is higher (`ReadFails`, `Stale`, `simulationStore.ts:129-151`).
- A save of a decoded trace that comes after the deletion of its simulation leaves a
  trace without a record in the vault (`simulationStore.ts:141`).
- A redeem whose receipt comes too late is offered again (`WithdrawFlow.tsx:723`).
- A refund whose step was unmounted still calls `onRefunded`, which is
  `setFlowState("redeemed")` without a look at who holds the form
  (`WithdrawIntentRouteStep.tsx:344`, `WithdrawFlow.tsx:1362`). The step goes away under
  it when a second click on Open order, under way together with the refund, fails: the
  stage says failed, and Try Composer or an edit of the amount unmounts the step. If a
  redeem or a route has been started by the time the refund is mined, the form is free
  while that call runs: it can be edited, which clears `redeemTxHash`, and a second
  redeem can be started beside the first. A route that goes on shows each phase and each
  poll of its settlement all the same: panel and form become busy again after the edit,
  with no amount to route (`ShowPhase`, `WithdrawFlow.tsx:795`).
- The statistics of a cache entry, written after the entry was cleared, bring it back
  (`ContractCache.ts:321`).

## Proofs

TLAPS (1.4.5, with Z3, Zenon and LS4) proves all 11522 obligations of the eight modules
below. Each first proves an inductive invariant and derives from it what the runs check.

**SimulationSemaphore_proofs**, for every finite set of callers, every
`MaxConcurrent > 0` and every `MaxQueueSize`:

- `Inductive`: `Spec => []IInv`, with
  `IInv == TypeOK /\ SlotsConserved /\ NoIdleSlot /\ QueueIsExact /\ FreshRelease`.
  No conjunct is inductive alone. That the count is exact after `release()` needs to
  know that the woken caller was no holder, which needs the exact queue and the fresh
  closure; how many entries are woken follows from `NoIdleSlot`; and that holds
  because callers queue only when all slots are taken. The queue lemmas
  (`WithoutEntryRemoves`, `AppendAdds`, `TailDrops`) say what the sequence operations
  do to the set of queued callers.
- `SlotsAreConserved`, `NoSlotIdles`, `QueueStaysExact`, `TypeCorrect` follow.
- `GrantsFollowArrival`: the action property `GrantsInOrder`, step by step from `IInv`.
- `SemaphoreImplementsSlotPool`: `Spec => Pool!Spec`. Every step maps to a step of the
  pool or a stutter; that the pool's waiters number at most `MaxQueueSize` is the
  cardinality of the exact queue (`QueueCountsWaiting`).

**CrossChainDeposit_proofs**, for every number of executions, all amounts and both
values of `Impatient` unless stated:

- `DepositInductive`: `CDSpec => []CDInv`. `FundsAreSound` says that an amount in hand
  is at most what has arrived, belongs to a bridge that delivered, and that since an
  execution read the balance only arrivals have added to what the chain has and to what
  the provider shows (`dst` and `seen` are at most `pre + Arrivals`), which is why the
  delta measures no prior funds. That a balance read late is not far off
  (`dst <= seen + Arrivals`) makes this true also when the balance of before is stale. For a patient user `OneBridgeAtWork` adds that
  one execution is pending and is before its bridge only while no bridge exists.
- `PriorFundsAreKept`, `DoneIsDeposited`: no deposit exceeds what has arrived; the page
  says done only after a deposit of delivered funds.
- `BridgedOnce`: for a patient user one bridge transaction exists, ever.
- `SettledCanBeRetried`: a failure the page is told of keeps hash and amount. Its own
  invariant `Settled` is about the executions of one bridge, its sender and those that
  resume it: they agree on whether the delivered amount is known (`AmountsAgree`), and so
  does a page that shows a failure of theirs (`PageIsTold`), because whoever resumes got
  the amount from that page when the sender was over (`SendersAreOver`).

**SimulatorBridge_proofs**, first part, about KeepAliveSessions, for every finite set of
runs and every `MaxSessions > 0`:

- `SessionsInductive`: `KASpec => []KInv`, with `KInv == KAInv /\ ResourcesOwned`. Neither
  half is inductive alone: that an evicted session takes its child and file along needs
  the map to hold it once, and that a run resolved now is not in the map yet needs the
  map to hold only runs whose caller was told. The lemmas `WithoutRemoves`,
  `AppendAdds` and `FirstEvicted` say what deleting, inserting and evicting do to the
  order, and each step is one of those or leaves the map alone. That a timeout signals
  its child also when the output is too large for a string rests on the file of a
  pending call, which nothing else removes (`PendingFilesStay`). The steps are proved for
  `Pieces`, the invariant without `FilesOwned`, and each loses track of no file
  (`FilesStay`), so that the bridge can cite them.
- `SessionMapIsSound`, `NothingIsLost` follow.
- `EvictionIsFair`: the action property `EvictsOldestWhenFull`; only `Resolve` makes a
  session (`SessionsAreMadeByResolve`), and it evicts `Surplus` from the front.

**SimulatorBridge_proofs**, second part, for every finite set of requests, every number
of slots, queue places, session places and stops:

- `BridgeInductive`: the invariants of the two parts (`Pieces`, and `IInv` of the
  semaphore) hold inside the bridge, and `Placed` ties them together: the place of a
  request in its handler says what it has of both, nothing before `acquire()` and after
  the `finally` block, a promise while it waits, a slot and a run in between. What the
  steps of the parts preserve is cited from their proofs; a restart, which is a step of
  neither, begins with a new semaphore and an empty map and keeps the children. The
  files are not in the invariant, because a new bridge does not know those of its
  predecessor.
- `SlotsStayWithRuns` (`BridgeInv`) and `NoChildStrays` (`NoStrays`) follow.

**Debug_proofs**, for every number of operations, sessions, traces and snapshots of a
page, and for every number of jobs and every size of the job map:

- `SessionInvariant`: `DSSpec => []SInv`. An open that has not been superseded is the only
  one, and it is for the session asked for last (`OpensInOrder`); a session the bridge
  made is in the hands of the start that waits for it or of the call that ends it
  (`Handed`); and the newest navigation fetches what was asked for last (`AskedFor`).
  That operations wait only where one of their kind can (`Shaped`) and that the loop of
  searches runs once (`OneLoop`) is what makes these inductive.
- `LatestOpenWinsAlways`, `NoSessionForgotten`, `LastNavigationShows` follow.
- `PrepInvariant`: `PrepSpec => []PInv`. What is under way to the page about a job is what
  became of that job (`NewsIsTrue`), and the job it watches is that of its current start,
  connected only if `readyHandledForPrepareRef` says so (`WatchedJob`).
- `ConnectsOnceAlways`, `OutcomesAreOwn`, and the action property
  `AbandonedJobsStayAlone` follow.

**SimulationHistory_proofs**, for every set of saves, persisted traces and ids and every
limit:

- `HistoryInductive`: `Spec => []HInv`: types, each record under the id of its run and
  older than the clock, and a list in memory that is empty or that of the store.
- `RichRowsAreKept`: `RichRowsStay`, from `RichInv`: the vault of an id of `rich` has rows
  with internal info and no stripped call for it is past its read, so the guard of
  `persistDecodedTrace` stops the next one; the record of an id of `kept` has such rows,
  because none of the calls that may still update it is stripped. For the update that
  makes an id one of `kept`, `KeepingIsSafe` compares the counts of
  `summarizeTraceRows`. `ListIsTheStore` follows from both invariants.
- `PruningTakesTheOldest`: the action property `PrunesOldest`, from `PruneInv`, which
  says of each deletion in progress that what it lists is older than what it does not,
  unless that was saved or renewed since.
- `HistoryStaysBounded`: `HistoryIsBounded`, for every overlap of saves, deletions, clears
  and crashes. A save counts the records and takes the surplus on itself, so the count
  alone does not say that the next deletion suffices. `SurplusInv` adds for each save
  past its count a set of saves that came after it and are not over: what this save
  leaves behind is at most the limit and theirs, and those sets are nested (`Covers`).
  The last of them to prune thus leaves the limit.

**ContractResolver_proofs**, for every set of requests, priorities, sources and offers:

- `ResolverInductive`: `Spec => [](Typed /\ Waits /\ Honest)`. `Waits` adds to
  `ResolverInv` that whom a request joined is still running and that the shared call's
  request has begun; `Honest` adds to `NotFoundIsHonest` that a running request without
  a result still asks each source it has not lost.
- `ResolverWaitsForSomething`, `NotFoundIsTrue` follow.

**Withdraw_proofs**, for every number of wallet calls, transactions, orders and shares:

- `WithdrawInductive`: `Spec => []IInv`. What holds always is where a call of each kind
  can be and that the transaction it waits for is its own (`CallShape`, `TxShape`), what
  is mounted and recorded (`Mounted`), that a redeem or a route shown to be under way is
  (`Watched`), that what was reported has happened (`Reported`: a route has arrived on
  the chain its transaction leads to, which `CallShape` ties to the chain the call waits
  for), and that a mined refund emptied an escrow (`RefundsPaid`). The rest holds
  until a refund left behind frees the form: a live redeem or route holds it alone, and
  the panel and the form show its phase (`Held`), so that a poll changes nothing; the
  amount to route was measured after the mined redeem on screen (`Paid`); a report is of
  the redeem it names (`Owned`); a redeem is
  spent by at most one route, sent or to be sent, and a route of the redeem on screen
  is either the one under way or the one that made the panel stuck (`Composed`); every
  call and transaction that carries an order spends the same redeem (`Ordered`).
  `EachRedeemIsComposedOnce` needs all of them: that a route is not started twice
  follows from the panel, that the panel is of this redeem from who holds the form, and
  that no late answer of another flow touches either from `live`.
- `ScreenAgrees`, `RedeemComposedOnce` and `ReportedIsReal` follow.

**IntentBridgeStep_proofs**, for every number of legs and orders, all amounts and any
number of route switches and deposit attempts:

- `LegsAgree`: `StepSpec => []LegInv`. The invariant ties three places together: what the
  step of a leg shows, where the handler of its order is, and what the chain has of that
  order. A step is about an order of its leg, in a stage its handler can have set
  (`Shapes`); what was polled or reported of an order has happened (`Known`). The queue
  only goes forward, and a leg whose user never left the intent route has one order; once
  the step of that order is gone from the current leg, nothing of it is under way but a
  refund (`Placed`). Since a balance was read before opening only deliveries have added
  to it (`Paid`), so the delta measures no prior funds. `Placed` is what excludes a second
  order: a new quote needs a step without an order, and a step comes back only with a
  route switch.
- The proof has one frame lemma, `OneLegMoves`: a step of one leg and its orders leaves
  the conjuncts of every other leg alone. The handlers, the page, the queue and the
  chains then each owe the conjuncts of the leg they touch.
- `StepsAgree` (`StepInv`) and `LegOpensOneOrder` (`OneOrderPerLeg`) follow.
- `DeliveryIsNotLost`: the action property `DeliveredKeepsStep`. What takes a step away
  is a leg that is over or a failure that cannot be recovered from. `FilledStays`: a
  filled order stays filled, with its leg. `FinalFailure`: such a failure is reported only
  by the handler of an order that was not opened, or that failed before it was filled.
  A delivered order is neither, and its leg has no other.

Assumptions used: `SemaphoreAssumption`, `BridgeAssumption`, `DepositAssumption`,
`SessionAssumption` (two modules have one), `PrepAssumption`, `DecodesAssumption`,
`BoundsAssumption`, `QueueAssumption`, `StepAssumption`, `ResolverAssumption` and
`WithdrawAssumption`. They state the types of
the constants, that the sets counted are finite, and, for the history, that what is
counted of the rows is at most the rows (`DecodesAssumption`). TLC evaluates all of them.

Model-checked only: TraceDecoder, whose properties are one of liveness and one that does
not hold (see the findings); every other invariant and action property the runs check is
a theorem. Liveness (`WaitersAnswered`, `CallsAnswered`, `EndedChildrenExit`,
`NobodyWaitsForever`, `PrepSettlesWhileKept`, `BroadcastIsAnswered`, `OpenIsAnswered`,
`DecodingEnds`, `BusyEnds`, `RequestsAnswered`) is out of reach of the installed provers
and stays with TLC.

## What is not modelled

- *Pure transformations of large data* (trace decoding, jump analysis, storage layouts,
  EVM expression evaluation, ABI and signature decoding, trace compaction): no state
  is kept between calls, and small instances would not tell right from wrong. Slot
  packing and the deadline plan of intents are small enough and planned.
- *Views, forms, configuration*: presentation of what the modelled parts hold.
- *Stateless proxies and access control*: one request, no state.
- *The EDB engine, the Vara runtime, LI.FI, wallets and chains*: other programs,
  present as nondeterministic environment.
- Inside modelled components: the bridge's branch without keep-alive, CORS and health;
  `isLoading`, breakpoints and the contents of snapshots; the composer's single-chain
  flow; queue rebuilding, and the reducer's composer phases; export, import and the
  migration of the history; tabs, filters and deep links of the results page; sizes and
  lifetimes of the resolver's caches, and the resolver's callers. The notes in
  `PROJECT.json` say so component by component.

## Plan

Done, in this order: the semaphore (everything else in the bridge depends on it) with
its refinement; the sessions; the bridge that composes both; preparation and session of
the debugger; the cross-chain deposit; the queue with the intent step; history and trace
stores; decoding on the results page; withdrawals; the contract resolver. All but the
decoder have proofs. Next:

1. *Same-chain deposits* (`lifiEarnExecution.ts`, the one- and two-step flows of
   `DepositFlow.tsx`): the debounced quote against the amount on display, approvals that
   reset first, a retry after a late receipt.
2. *Composer flows in the queue*: LegQueue with bridge phases and SET_ERROR, composed
   with CrossChainDeposit; queue rebuilding in `IdleSweepPanel.tsx`.
3. *Trace detail store* of the bridge: count, byte and age bounds.
4. *Pure algorithms* against a definition: the deadline plan (fill deadline within the
   quote's validity, below expiry) and Solidity slot packing.
5. *Abstract specifications*: a session as a resource that is used by one page at a time
   (DebugSession with KeepAliveSessions); an order as escrow that ends in one of
   delivery and refund (IntentBridgeStep, Withdraw).
