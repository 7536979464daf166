# A TLA+ model of the trading bot

This directory specifies the trading bot's logic: the state that decides whether trading is
allowed, who may change it, who leads, in which order the events of an order act, how an
order and its fill travel between router, broker, ledger, bus and portfolio, how incidents
escalate and when the broker is given up, what the end-of-day scan does while everything
around it changes, and the libraries that decide, size, slice, simulate and judge. Each
specification is translated from the Python sources, model-checked with TLC and, where that
says more, proved with TLAPS for every value of its constants.

`PROJECT.json` holds the index: components, runs, the lines each definition stands for,
hazards, theorems, and for every property a mutation of the code that the property catches.
Run a configuration with `tlc -config <run>.cfg <module>` and check proofs with
`tlapm <module>Proofs.tla`.

## 1. The system

The bot is one asyncio process per node (`src/main.py`) with Redis, a SQL database and a
broker around it. Its parts, the state each keeps, and what makes each correct:

| part | source (under `src/`) | state | operations | correct when |
|---|---|---|---|---|
| Trading state store | `src/runtime_state.py` | one Redis key: active, paused, close_only, halted | `get_state`, `transition` (WATCH/MULTI/EXEC), `force_transition_internal` | it acts as one atomic register; only an operator resumes trading; an unreadable key is a halt |
| Control API | `control/api.py`, `src/security/audit_trail.py` | none of its own; an audit record per command | `/state /halt /pause /resume /close_only` | a success that is reported happened, over the state reported as the old one; every request ends |
| Leader election | `src/control_plane/leader_election.py` | Redis lease and generation; `_is_leader`, `_generation` | the election loop, `start`, `stop`, callbacks | at most one leader, with the newest generation; a vacancy is filled |
| Order state machine | `src/execution/order_state_machine.py` | a record and a buffer per order | `register`, `transition`, `transition_ordered`, `clear_terminal` | events act in the order of their numbers, once each, whatever the order of arrival |
| Replay harness | `src/backtesting/deterministic_replay.py` | a run of numbered events | `run`, `validate` | the same events give the same orders |
| Incident controller | `src/risk/incident_controller.py` | incidents, active severity, size multiplier, cascade window | `report`, `resolve` | severity and size follow from the open incidents; cascades escalate |
| Broker health | `src/execution/broker_health.py` | mode, failure count; mode in Redis | `run`, `stop` | failover after a streak of bad checks; opens during it only after an operator, a refusal or a lost write of Redis |
| Order router | `src/execution/router.py` | none of its own | `execute`, `cancel_open_order` | ledger, state machine and broker agree about an order although any step may fail |
| OMS ledger | `src/data/oms_ledger.py`, `models.py` | rows (order, event type), unique | `record_event`, queries | an event is recorded once |
| Event handlers | `src/events/handlers.py` | none of their own | fill, reject, cancel | an event delivered twice counts once |
| Event bus | `src/events/bus.py` | queues, or a Redis stream with a consumer group | publish, consume, retry, dead letter | at-least-once delivery; one failing handler harms no other |
| Portfolio | `src/portfolio/manager.py` | positions in memory and Redis, PDT counter | load, record, import, remove, update | memory and Redis agree; limits are respected |
| Reconciliation | `src/execution/reconcile.py` | none of its own | `run` | differences from the broker are repaired and no newer fill is undone |
| Fencing tokens | `src/security/fencing_tokens.py`, `fencing.py` | none (signed values) | create, verify, renew | an authority that is not renewed ends, for good |
| EOD scan | `main.py` | symbols ordered in this scan | `_eod_scan` | one order per symbol unless an error came between; none begins when trading is not active |
| TCA and alerts | `src/monitoring/tca.py`, `alerts.py` | window of fills and throttle in Redis, cooldowns | record, evaluate, send, reset | a breach of the costs leads to a pause |
| Shutdown, watchdog | `src/shutdown.py`, `watchdog/` | last heartbeat | pause, drain and flush; force halt | a frozen loop is halted; a shutdown ends, trading paused |
| Rate limiter, order manager | `src/execution/rate_limiter.py`, `order_manager.py` | tokens; live orders | acquire; submit, cancel, cancel_stale | no stretch of time sees more requests than a full bucket and its refill (not the 200 in any minute of the docstrings); an order is doubled by a lost reply alone; every submission ends |
| Slicers, partial fills | `src/execution/algos/`, `partial_fill_handler.py` | the plan, what is unfilled | build_plan, carry, decide | no share more than planned; what is dropped or never planned is accounted for |
| Gates and sizing | `src/risk/gates/`, `pre_trade_gateway.py`, `src/portfolio/risk.py`, `position_sizing_pipeline.py` | exposure | check, size, admit | limits hold up to orders sized while the positions show less than was taken on |
| Market regime | `src/analysis/market_regime.py` | last regime, days in it | detect | no flapping within the minimum stay, except into a crisis |
| Backtest engine, validation | `backtesting/engine.py`, `costs.py`, `fill_simulator.py`, `cpcv.py`, `walk_forward.py` | cash, positions, equity; folds, windows | run; split, build_windows | the books balance; what is tested was not trained on |
| Universe, market data checks | `src/data/universe.py`, `corporate_actions.py`, `data_quality.py`, `backtesting/universe_history.py` | snapshot of the quarter; halts, quarantine, memberships | build, filter, detect, check | what is flagged on a morning is not traded, and nothing else is kept out; a split is not taken for a crash |
| Canary probe and gate | `src/monitoring/canary_probe.py`, `scripts/canary_gate.py` | last price, result and failures in Redis; records | run; evaluate | a jump is told once, unless the probe dies after storing the price; a stage opens only on the conditions of the script |
| Error budgets, performance, drift | `src/monitoring/slo_budget.py`, `drift.py`, `src/portfolio/performance.py` | queues of events, fills and returns | record, evaluate, resume | alerts tell what happened; profit is matched once; losers stay paused |
| Signals, data sources, statistics, database, configuration, dashboard | the rest | none shared | numeric computations and I/O | out of scope (section 8) |

How they interact. Everything that may open a position asks the **trading state store**
first; the store is shared through Redis by all processes and has five kinds of writers: the
operators' API, the watchdog, the graceful shutdown, TCA and the broker failover. The API
goes through `transition` with a fencing token and the state it has just read; `/halt` and the automated
writers go through `force_transition_internal`. The **leader** is the node that scans and
places orders. An order goes from the **scan** through gates and sizing and the **router** to the broker, the ledger,
the **state machine** and the **event bus**, whose handlers update ledger, **portfolio** and the cost monitor;
**reconciliation** compares all of it with the broker. The **incident controller**, the
**broker health monitor**, **TCA** and the **watchdog** watch and restrict. The order manager
with its rate limiter, the slicers, the regime, the backtests and the monitors of section 2's
`decisions` are libraries: tests call them, and apart from what `main.py` uses of gates and
regime no module of the repository connects them.

What is hard: nothing holds a lock across an `await`, so every method interleaves with every
other at each call of Redis, the broker, the bus or an alert; several processes share Redis;
replies and whole processes are lost; Redis itself reloads snapshots up to a minute old; timers race answers;
and many steps are wrapped in handlers that swallow an error and go on.

## 2. The modules

| module | models | main abstraction |
|---|---|---|
| `RuntimeState` | `RuntimeStateStore`, one action per Redis command of a call | a client is one coroutine; tokens are valid or not |
| `AtomicTradingState` | what the store promises: each call takes effect at one instant | |
| `ControlApi` | the endpoints as clients of `RuntimeState` (EXTENDS), with Redis restarts | requests are authenticated |
| `LeaderElection` | `LeaderElector` on each node, the lease, crashes, errors, `stop()` | time in ticks |
| `OrderStateMachine` | every method of the state machine | targets and numbers, no timestamps; a record may be overwritten |
| `OrderFeed` | numbered delivery of a script of events (EXTENDS `OrderStateMachine`) | each number has one event |
| `InOrderDelivery` | what numbered delivery promises: the order walks along its script | |
| `OrderFlow` | router, ledger, in-process bus, handlers, portfolio and reconciliation around a broker (EXTENDS `OrderStateMachine`) | one symbol, orders of one share |
| `EventStream` | the bus on Redis Streams: workers, retries, dead letters, stops and crashes | messages are numbers |
| `IncidentController` | `report` cut at its awaits, `resolve`, the cascade | an incident is its report |
| `BrokerFailover` | the monitor's loop cut at its awaits, failover, return | the trading state allows opens or not; Redis may go back to a snapshot |
| `TradingSwitch` | the trading state as its users see it | a register, by `RuntimeState`'s refinement |
| `EodScan`, `TcaBreaker`, `ProcessGuards` | the scan; the cost monitor; the shutdown and the watchdog, each on `TradingSwitch` | prices, sizes and verdicts are open |
| `TradingDay` | the three composed in one event loop, with operators and restarts | one process |
| `RateLimiter`, `OrderManager` | the token bucket and its sleepers; `submit` with retries, events, cancels (EXTENDS `RateLimiter`) | a tick refills one token |
| `PreTrade`, `Regime`, `Slices`, `FencingTokens`, `Backtest`, `Validation`, `Universe`, `MarketData`, `CanaryProbe`, `CanaryGate`, `SloBudget`, `Performance`, `Drift` | one library each | numbers become integers of a stated unit, rounded where the code's threshold cannot tell |
| `*Proofs` | the theorems of section 6 | |
| `MC*` | definitions for constants that a `.cfg` cannot write, and the choice of a library in `MCDecisions` | |

An operator whose comment calls it a variant with a bug, or a mutant, is no part of a specification: it is
what a plausible mistake would make of the definition next to it, and `PROJECT.json` says
which property then fails.

### State and actions against the code

**RuntimeState.** `key` is `algotrader:trading_state`, including absent and unrecognised
values; `watched` is what Redis knows of WATCHes; `pc` names the command a client awaits;
`call` and `result` are arguments and return value. `CallGet`, `CallTransition`, `CallForce`
run to the first Redis command (with the checks of token, legal edge and protective target
the methods make first); `GetKey`, `InitKey`, `Watch`, `ReadWatched`, `Exec` are the
commands. `transition` reads under its WATCH and compares; `force_transition_internal` reads
the state before the WATCH, for its log only. A lost reply (`Exec` with a result in `Lost`),
a connection lost before the command (`LoseConnection`), snapshots and restarts of Redis
(`SaveSnapshot`, `RestartRedis`, from `redis-server --save 60 1`) are actions. `Spec` has all
of them, and `ControlApi` runs with all; `SteadySpec`, in which the refinement holds, leaves
out `InitKey` and the restarts.

**ControlApi.** `command` is the endpoint being served, `current` what the handler read,
`answer` its response, which the audit record repeats. `Receive`, `RequestChange`, `Answer`
are the handler up to its next await. `replaced` is a history variable: the state the
handler's EXEC overwrote.

**LeaderElection.** `owner`/`ttl` are the lock key and its expiry, `generation` the counter;
`loop` is where `_election_loop` stands: waiting out the interval, in one of the commands, or
in a callback. Each command or callback ends within `MaxLag` ticks, and `Tick` cannot pass a
node that is due. `won` and `elected` separate SET NX from INCR and INCR from its reply,
since the lease may run out in between. `stop` and `drained` follow `stop()`: event, release,
wait, cancel.

**OrderStateMachine, OrderFeed.** `state`, `last_seq`, `pending` are the record's fields and the
buffer. One call is one action (the class awaits nothing), `_flush_pending` included: it pops
and applies successors and drops the first illegal one. `Register` overwrites a record that exists
and keeps its buffer, as the code does; `OrderFeed` registers an order once, as the router's ids are new. In `OrderFeed` an order has a
`script`, and `Deliver` brings any event of it, any number of times.

**OrderFlow.** `router` says where `execute()` is with each order: `Route` runs to the NEW row,
`Submit` is the broker's command, `Confirm` the SENT row and the transition, `Reject` the
`except` branch. `ledger` is the set of event types an order has rows for, which is all that
`record_event`'s insert-or-ignore lets one tell; a failed write may have been committed.
`Cancel` and `RecordCancel` are `cancel_open_order` before and after the broker's reply. The
broker (`broker`, `broker_qty`) opens, fills, cancels and expires orders in its own time, and
what its stream reports is put on the `queue` once, twice or not at all (`Announce`). `Handle` gives the first
event to its handler up to the write in Redis, `PersistFill` is that write; the consumer
handles one event at a time. `position` is the portfolio in memory, `saved` in Redis; a buy
adds a share, a sale removes the position, as `record_fill` does. Reconciliation
fetches (`FetchPositions`), compares with the memory of that later moment (`Compare`), writes
(`PersistReconciled`) and goes through the orders. `Restart` loses all that is in memory and
reads `saved` back. Every failure costs one of `MaxFaults`. The records make only plain
transitions here, so numbers and buffers stay at their initial values.

**IncidentController.** `report()` runs to its alert (`Report`), to its event (`EndAlert`) and to its
return (`Finish`, `FinishCritical`, or `Cascade` and `FinishCascade` when it raises the
emergency itself); `Resolve` is atomic in the code too. `cascade_timestamps` are the times
appended after the alert.

**BrokerFailover.** `loop` walks through the turn of `run()`; `failures`, `mode` are its fields,
`redis_mode` the key, `trading_state` the store as the register `RuntimeState` is shown to
implement, except that Redis may restart: `SaveSnapshot` and `RestartRedis` take the monitor's key and
the trading state back together to what was saved. `streak`, `resumed`, `refused`, `reverted` are history variables. The failure count is capped
at the threshold, beyond which the code does not distinguish it.

**EventStream.** `published`, `delivered`, `pending` are the stream, the group's last delivered
entry and its pending list. `at` is what a worker awaits, `batch` the messages it read with
the one in its hands first, `handler` and `failed` the loop variables of `_process_message`.
`Read`, `ReadNothing` and `ReadFails` are the outcomes of XREADGROUP, `Handled` and
`HandlerRaises` those of a handler's call, `Bury` the dead-letter write and `Ack` XACK, the last two with
the errors that the code logs and passes over. `Cancel` and `ExitLoop` are what `stop()` does
to a worker at work and to one that reads; `Restart` is a new process, whose consumers have
new names and read only what is new. `dropped` and `unwritten` are history variables.

**EodScan.** `step` is where `_eod_scan` stands between two awaits: trading state, regime,
universe, each strategy's signals, each signal's checks, gates and size, submission, NEW row,
announcement. `submitted` is `_submitted_symbols`; `placed`, `recorded`, `interrupted` and
`announced` count, for the properties, what happened in this scan.

**TcaBreaker.** `fills` is the window in Redis, `throttle` its step key, `tca` the await of
`_evaluate`. After a step of the throttle the alert follows: `AlertDispatcher.send` raises on every call, and the
evaluation ends there. `RecordFails` and `EvaluationFails` are calls of Redis that raise (the window's
RPUSH and LTRIM; GET, LRANGE and the SET of the step, which may have been done), `TcaCrash` the end of
the process at any point. `unanswered` counts the evaluations that met a breach and did not pause,
`cuts` those among them that were cut short so.

**ProcessGuards.** `shutdown` is the progress of `_graceful_shutdown`, `watchdog` that of the
thread; `frozen` is an event loop that does not run, in which only the watchdog acts.

**TradingDay.** Every action of scan, cost monitor and shutdown needs the loop; `HandleFill`
is the fill handler, portfolio first and cost monitor after it. `outside` is a history variable.

**RateLimiter, OrderManager.** `tokens` and `age` are the bucket and the time since its last
refill, `wait` what is left of each caller's sleep: the lock is free during the sleep, and a
caller that wakes looks again. `excess` is the largest number of requests beyond one per tick in any
stretch that ends now. In `OrderManager` `pc`, `attempt` and `reply` are a `submit()`, `open` is
`open_orders`, `sweep` and `cancelling` a pass of `cancel_stale`; `broker`, `lost`, `early`, `refused` and
`events` belong to the broker's side. `Cancel` has all answers the interface allows: True for what was cancelled,
False or an exception for what was not, live or closed, and a lost reply; `CancelReturns` drops the order from
`open` after either answer, as `cancel()` does.

**The libraries.** `PreTrade` takes signals of a scan one by one through limits, size and gates while
accepted orders fill at any later moment, as a whole. `booked` is what `record_fill` keeps of a fill: its price, and the
stop that its event names, 0 if none; open risk is taken from it, what the orders were sized for from `order`. The
stop of a signal that names none is the setting `StopFloor`, half a percent at least (`HardFloor`); the default
pipeline knows only the latter. `Regime` has one action per day. `Slices` plans,
fills and carries. `FencingTokens` keeps the tokens handed out, the loaded key and the clock; an issue names an incident, old or
new, and begins a chain, which is a history variable of the tokens.
`Backtest` is the engine day by day: exits, entries, equity, the close at the end, and the
costs its two classes compute. `Validation` has the folds of CPCV and the walk-forward
windows as set expressions. `Universe` builds the snapshot, runs the daily filters on it in place, and lets bars close of which the halts
are read; `MarketData` goes through readings and records of membership, overlapping ones too.
`CanaryProbe` has one action per write, each of which may be the last; `CanaryGate`, `SloBudget`, `Performance` and `Drift`
keep the records, queues and matches their methods keep.

## 3. The runs

| run | instance | shows |
|---|---|---|
| `runtime_state` | `SteadySpec`: 2 clients, every call and argument, any key present | `StoreIsAtomic` (refines `AtomicTradingState`), `ResumesOnlyByOperator` (nobody resumes from a corrupt key) |
| `control_api` | an operator and an automated caller, any key or none, Redis restarts | `WatchIsSound`; `SuccessIsReal`: a reported success was written, over the state reported as the old one |
| `leader_election` | 2 nodes, lease 9, interval 3, lag 1, two faults, stops | `LeaderHoldsLock`, `TermsFence`, `VacancyIsFilled` |
| `order_feed` | 1 order, every script of 4 events, any arrival | `ActsInOrder` (refines `InOrderDelivery`), `DeliveredIsApplied` |
| `order_flow` | a buy and a sale of one symbol, two faults of any kind | `LedgerIsTrue` (rows ahead of the broker, true rows, real submissions), `PositionsConverge` |
| `order_flow_rejected` | one buy, one fault | **violated**: `RejectedIsNotLive` |
| `event_stream` | 2 workers, 2 handlers, 3 messages of which one is undecodable, two faults | `NothingHalfDone`, `HandledOnce`, `EveryMessageSettles` |
| `monitors` | incidents: 3 reports of any severity, cascade of 2 in a window of 2, delays of 1 | `ThrottleMatchesOpen`, `SeverityIsNotUnderstated`, `CascadesAreDetected` |
| | failover: streak of 3, two faults of any kind, restarts of Redis among them | `FailoverBlocksOpens`, `FailoverNeedsAStreak`, `FailoverHappens` |
| `trading_day` | 1 symbol, 2 strategies, 2 scans, one fault, one change by an operator | `OnlyErrorsRepeatOrders`, `BreachIsPaused`, `OneScanOutlivesAHalt`, `GuardsDoTheirWork` |
| `execution` | 2 orders of 2 attempts, a bucket of 2, two faults | `BudgetIsKept`, `CopiesOnlyOfLostReplies`, `SubmissionsSettle` |
| `decisions` | each library alone, amounts around every limit | one property per library, listed below |
| `token_chain` | tokens alone, a longest life of four, a renewal of two | **violated**: `ChainsEndAtTheCap` |

A property that belongs to a module states its type invariant too (as a conjunct of its
first property) unless the type invariant is proved. The properties of `decisions`:
`LimitsAreKept` (sizes and gates), `RegimeIsSound` (no flapping), `SlicingIsSound` (shares are
conserved or dropped where the code says so), `AuthorityEnds` (tokens), `BooksAreHonest`
(cash, positions and equity of a backtest), `NothingLeaks` (folds and windows),
`FlaggedIsNotTraded` (universe), `DataIsJudgedRight` (corporate actions, frames,
memberships), `ProbesTellTheTruth`, `GateIsStrict`, `AlertsTellOutages` (error budget),
`LosersStayPaused` (matched profit and drawdowns), `AlertsAreNews` (drift). The libraries are
not connected in the repository, so `MCDecisions` chooses one at the start of a behaviour and
leaves the others alone: the run is the sum of their state spaces, not the product. `MCMonitors`
does the same with the incidents and the failover, which share nothing.

### Bounds

- Two clients of the store: every race of `WATCH`, `GET`, `EXEC` and a write in between
  needs one writer and one victim; the proofs hold for any number. The API run adds the
  absent and the corrupt key and Redis restarts at any moment, without limit.
- Two leaders-to-be, a lease of nine ticks, an interval of three and delays of up to one are
  the proportions of the defaults (30 s lease, 10 s interval). `MaxFaults` = 2 lets a crash
  follow an error; `MaxGeneration` = 6 is never reached.
- In the state machine orders do not share state, so one suffices for delivery. Four
  numbers allow a gap, events behind it, a repetition and an illegal event in the middle;
  `MaxSeq` bounds the numbers only.
- Orders of one symbol meet only in its position: a buy and a sale bring it up, down, and to
  zero too early. Two faults let a repeated or lost event meet a restart or a failed write.
  A pass of reconciliation starts at any moment and any number of times. The bus holds 512
  events in the code and never more than a handful here: its limit is not reached.
- On the stream a batch of two leaves one message to the other worker, two handlers make
  "one fails for good, the other returns" possible in both orders, and two faults let a stop
  or crash follow a lost reply or a failed dead-letter write. The proofs hold for any numbers.
- `MaxCuts` = 2 evaluations of the cost monitor cut short are counted one by one; there is one fault.
- Three reports: two make a cascade and the third is resolved, or reported, in between.
  `MaxTime` and `MaxDelay` leave room for a window to expire.
- The monitor's default streak of three; two faults cover an error in one failover and a
  restart or stop before the next.
- A symbol is ordered twice in a scan through a second strategy, so two strategies and one symbol
  suffice; two scans tell the scan that outlives a halt from the next one. A window of two
  fills, both needed to act, with one throttle step shows the step, the breach and the reset.
- Two orders contend for a bucket of two requests, and a copy of each comes from a second attempt.
- In `decisions` amounts are chosen at each limit and one step past it; where a library
  has a window or queue it overflows in the instance (`Capacity`, `LiveWindow`, `MaxEvents`).
  The drift detector's queue of 11 is judged at ten returns and when it is full, as the default of
  50 is from ten on, and a batch may be shorter. `StopFloor` is the three percent of the settings. Four days hold a halt of three bars and its morning.

### Fairness

`FairSpec`s assume only that the event loop keeps running what is ready and that awaited
commands end with an answer or an error (weak fairness of a client's, node's or worker's own steps,
and of time). `EventStream` adds that the process is started again after it ended
(`restart: unless-stopped` in the compose file), `ProcessGuards` that the watchdog's thread runs although the loop is
frozen. `FlowFairSpec` assumes in addition that reconciliation runs again and again, which is
what its docstring says ("periodically every 15 minutes"); `main.py` does not schedule it, so
`PositionsConverge` is a statement about the service as documented, not about `main.py`. No
fairness is assumed of operators, the router, faults, recoveries, fills or the broker.
Deadlock checking is on except in `decisions` and `token_chain`, where a library ends when its order, plan or run does.

## 4. The disagreements kept as runs

`order_flow_rejected`: `models.py` says REJECTED means that the broker rejected the order;
`execute()` writes it after any error, a lost reply to an accepted submission or a failed SENT row
included, and the order stays open at the broker and may fill.

`token_chain`: `fencing_tokens.py:286` calls the longest life an "absolute cap for any token chain";
`renew_token()` counts it from the `issued_at` of the token it is given, which the renewal before
has refreshed (`:370`), so a chain that is renewed in time lasts as long as its holder wants.

## 5. Observations without a run

Met while modelling and visible in the code as translated; they are described here rather
than checked.

The control plane and the orders:

- The docstring of `force_transition_internal` says nothing leaves HALTED automatically; the method does not
  look at the current state, and a pause or close-only by shutdown, TCA or failover replaces a halt.
- `get_state` initialises a missing key by a plain SET: a halt set between its GET and its SET
  becomes ACTIVE, without a token. `StoreIsAtomic` therefore assumes that the key exists.
- `stop()` of the elector never clears `_is_leader`: the stopped node's `is_leader()` stays true
  beside the next leader's. `LeaderHoldsLock` speaks of nodes that run.
- Tokens are verified with HMAC by the state store (`fencing.py`) and signed with RSA by broker health and election
  (`fencing_tokens.py`): the two kinds do not mix.
- A critical incident calls `pause()`, an emergency `emergency_stop()`, of the state store;
  neither method exists and the `AttributeError` is swallowed, so incidents never touch the
  trading state (`incident_controller.py:254`). The model therefore has no trading state.
- The active severity is raised after the awaits of a report (`incident_controller.py:163`), also when
  the incident was resolved meanwhile, and then stays raised with nothing open, although
  `get_active_severity` says "highest severity among open incidents".
- A failed submission asks for NEW to REJECTED, which is in the diagram of
  `order_state_machine.py:17` and not in its table: the record stays NEW (`router.py:187`).
- Reconciliation looks for filled orders among `list_open_orders`, whose contract is "open
  (non-terminal)" (`broker.py:144`): with a broker that keeps it, a fill whose event was lost
  never gets its FILLED row, and step 5a's "update portfolio" is not done at all (`reconcile.py:128`). The position is
  still repaired by the comparison of quantities. A closed order is left to the broker's choice
  in `ReconcileOrders`.
- Only memory is compared with the broker: a failed write leaves an old position in
  Redis that is seen at the next restart only, which is why `PositionsConverge` speaks of `position`.
- A sale removes the whole position whatever quantity was filled (`manager.py:239`).
- `EventBus.subscribe` logs `handler.__name__` (`bus.py:73`), which the handler objects of
  `register_handlers` do not have; the model takes them as subscribed.
- `EventBus.publish` says that it raises `QueueFull`; it waits (`bus.py:80`).
- Alpaca cancels asynchronously; the interface's "True if successfully cancelled" (`broker.py:136`) is what
  the router's `Cancel` models. The order manager's `cancel()` does not look at the answer and forgets
  the order, also when it was False and the order is live (`order_manager.py:98`): `OpenOrdersAreKnown`
  excepts these.
- Cascade times are taken after the alert (`incident_controller.py:274`): the window that is
  guaranteed is the nominal one less the delay of alert and event, which is how
  `CascadesAreDetected` states it.
- The Redis write at the head of `_handle_result` is outside any `try` (`broker_health.py:180`): one
  error ends the monitor for good, which is why `FailoverHappens` speaks of a task that lives.
- A check slower than ten seconds counts as one failure of the streak; module and class docstrings
  (`broker_health.py:5`, `:67`) and the runbook's sections 1 and 2 say that a single one suffices for a failover.
  `FailoverNeedsAStreak` states what the code does. The runbook's manual key
  `algotrader:broker:mode` is not the monitor's.
- "In failover mode: blocks new opens" holds until Redis restarts from a snapshot of before
  (`docker-compose.yml:42`): the state is ACTIVE again, nobody asked for it, and the monitor, in failover, forces nothing
  again. `FailoverBlocksOpens` excepts an operator's resume, a refused CLOSE_ONLY and such a restart.
- The same restart may bring back an election lock that was released, or an older generation. The model of the election
  has a Redis that forgets nothing but what expires: `TermsFence` says nothing of a Redis that goes back in time.
- `_complete_return_to_primary` changes the mode before a Redis write that may fail, while
  the log then says the monitor stays in failover (`broker_health.py:331`).
- `register()` overwrites the record of an order that exists and keeps its buffer
  (`order_state_machine.py:109`): an event may then wait whose turn has come. `OnlyRegisteringStrandsEvents` says
  that nothing else leaves one waiting.
- A buffered event older than `last_seq` is never replayed nor removed until the order ends
  (`order_state_machine.py:242`).
- `is_leader()` looks at no clock: without the margin of section 6 a delayed leader and its
  successor overlap. A `stop()` between SET NX and the reply to INCR leaves the lock to expire.
- The pipeline's WatchError also covers a lost reply: `transition` may report a concurrent
  modification although the change was made (`runtime_state.py:245`).

The process:

- `register_handlers` subscribes objects without `__name__` to a bus that logs it
  (`bus.py:73`, again at `bus.py:350`), which raises; the models take the handlers as subscribed.
- The scheduler runs its jobs in threads, where `asyncio.create_task` finds no running loop
  (`main.py:548`, `577`): scan and canary do not start as written. The signal handlers of
  `register_shutdown_handlers` are replaced a few lines later (`main.py:602`, `616`), and the watchdog is
  started by nobody. The models are of scan, shutdown and watchdog once they run.
- A rejection by the gates reads `gate_result.gate_name`, which `GateResult` lacks (`main.py:348`):
  the error ends the scan (`Raise`).
- Only positions count against `max_positions` and the risk budget, and fills come later:
  one scan may order beyond both. `LimitsAreKept` states the limits up to orders under way.
- `AlertDispatcher.send` says that it never raises and always does (`logger.log` with a string for a level), so a
  breach that takes a throttle step is paused one evaluation later at the earliest (`BreachIsPaused`).
- An evaluation of the costs that a failing call of Redis cuts short (`tca.py:259` and the reads before it) leaves its
  breach neither throttled nor paused, and one whose pause is refused or raises is not tried again:
  the fill handler logs it, and only the next fill looks again. The property counts these one by one.
- The bus's docstring promises durability across restarts (`bus.py:155`); what a dead process left
  pending is never read again, which is why `EveryMessageSettles` lets messages be dropped.
- The rate limiter's docstrings define the budget as 200 requests in a rolling window of 60 s
  (`rate_limiter.py:1`, `:44`). A full bucket and its refill let up to twice that through in one window; `BudgetIsKept` states the
  bound of the bucket, not the documented one. The limiter is not injected into the Alpaca adapter.
- A fill that comes before the reply to its order leaves the order in `open_orders` for good.

The libraries:

- Backtest: spread and impact are charged twice; an exit that finds no fill books a trade of no
  shares and is charged again every day; average volumes are of the whole series; a stop is
  filled at its price; a symbol without a bar is worth nothing that day, and a position
  without a last close vanishes from the final capital.
- CPCV purges and embargoes the whole range from the first to the last test bar, also between
  test groups that are apart.
- TWAP says "no abandonment of unfilled qty" (`twap_slicer.py:12`) and both slicers that the last market order is "to guarantee
  completion" (`:119`, `vwap_slicer.py:10`); what the last slice leaves over is dropped, and caps and rounding leave
  shares out of the plan. `SlicingIsSound` accounts for these shares, it does not say that there are none.
  A VWAP plan may exceed the order or be all zero.
- The default pipeline's floor of the stop is half a percent, that of `calculate_position_size` the setting of
  three percent (`config.py:54`): a signal without a stop is sized apart by the two, which are
  compared for signals with one only. A fill's event need not name a stop, and 0 is then kept (`handlers.py:70`): such a
  position counts as riskless in the open risk.
- More than 2 % of missing bars was to be FAIL (`data_quality.py:91`); the check warns up to 5 %.
  That open and close lie between low and high is announced (`data_quality.py:10`) and not checked.
- Records of membership are not checked (`universe_history.py:105`): they may overlap, and a removal
  entered as a new record does not end an older one without an end.
- The daily filters write into the snapshot of the quarter (`universe.py:245`), which the docstrings keep apart as Tier 1
  and Tier 2: a symbol taken out for one morning stays out until the next build.
- An empty dictionary of fundamentals admits every symbol; an earnings date in the past excludes one
  for good; a frame of fewer than five bars only warns; a dividend of more than 15% is reported as a split.
- Providers of sector and correlation are stubs, so their limits are met by default.
- The canary stores the price before the result (`canary_probe.py:145`, `:174`): if the process dies, or a write fails, in
  between, a jump of the price is never told. `DeathsAloneLoseAJump` says that nothing else loses one.
- `docs/operational_protocol.md:104` wants a Sharpe ratio of 0.5, a drawdown of at most 10 %, fill rate, latency and no critical
  incident before Canary 1, the same before Canary 2, and has them verified with `canary_gate.py`; the
  script grants Canary 1 on ten days without mismatches, asks for the Sharpe ratio (above 0.5) at Canary 2 and for the
  others, with other limits, at the last stage, and for incidents nowhere. `GateIsStrict` is about the script.
  One mismatch on record blocks all its stages.
- The docstrings of the error budget call a rate above 14.4 in an hour a fast burn (`slo_budget.py:124`, `:16`); the
  alert asks for 28.8. An objective of 95 % can reach 20 at most: its fast burn, from 14.4 on, is told only as far as the slow alert of six hours
  shows it.
- The drawdown tracker's best values and pauses are in memory only (`performance.py:302`): a restart of the process forgets
  them, and a strategy that was paused trades again. `LosersStayPaused` is about one run of the process.
- The drawdown tracker counts from the first profit it is told, so a loss at the start is no
  drawdown; a strategy that is resumed is paused again by the next update below its high.
- Drift: a window of fewer than ten never alerts; with one window of history the deviation is zero and
  any change is critical; the docs say 2 sigma (`drift.py:115`), the defaults are 2.5 and 3.5, and
  that detection is inactive under 30 baseline returns (`drift.py:119`), which the code only warns of;
  `analyse` "does NOT update internal state" (`drift.py:249`) and replaces the baseline.

## 6. What is proved

TLAPS checks these for all values of the constants that satisfy the modules' assumptions.

**ControlProofs** (store, API, election). `StoreTypeCorrect` and `OptimisticLockIsSound` (`Spec => []WatchIsSound`), any
number of clients, missing keys and Redis restarts included. The inductive invariant
adds that a client in the middle of a call holds a well-formed one; soundness of the WATCH is
inductive with it because every write empties `watched`. `SteadyStoreIsAtomic` and
`SteadyResumesOnlyByOperator` are about `SteadySpec` from an existing key: Redis does not restart. Both are
false otherwise: `get_state`'s SET on a missing key is the exception (section 5). The refinement maps the key as readers decode it, the
call and the result; every command is a step of the register or a stutter.

`SuccessesAreReal` (`SuccessIsReal`) is about the API with any clients beside it, lost replies
and restarts. Its invariant `ApiInv` adds to the store's what each handler is serving: while it awaits
its change, the store's call of this client is the change the command asks for, compared with the state
it read, and an `Exec` that reported success overwrote just that state (`replaced`). A step of the API
is a step of the store by one client, so the store's lemmas carry over.

`ElectionTypeCorrect`; `GenerationsFence`: generations are never shared, whatever the
delays; strengthened by the uniqueness of the numbers INCR handed out and the counter being
an upper bound of them. `LeadersHoldTheLock` assumes `Margin`, RenewTicks + 4 MaxLag <
LeaseTicks: from the renewal that set the lease to the next one lie the election's INCR, its
callback, an interval and the renewal itself. The invariant `LeaseIsFresh` says for each
phase how much of the lease must be left given the time spent in it.
`MarginGivesSingleWriter` follows. `TermsFenceOldLeaders` (`TermsFence`) needs more: an
election under way holds a fresh lease too, on a node that is stopping as well
(`ElectionIsFresh`), so INCR is called by the holder of the lock alone, and what it returned
last is the running leader's (`LastTicketLeads`). A theorem with an assumption is not about a system that breaks it: without
the margin a delayed leader and its successor overlap.

**OrderProofs** (state machine, delivery, order flow). `TypeCorrect`; `NoReadyEventWaits`: whatever the mix of calls, only
registering an order over its record leaves an event waiting whose turn has come (every other call that brings the turn
close empties the buffer as far), and no buffer is kept for an order that is gone; `FeedActsInOrder`, the
refinement of `InOrderDelivery`; `ClosingGapsReplays`, that a legal prefix that has arrived is
applied. The invariant says that what is buffered comes from the script, and
that a delivered event is applied, still buffered, or behind one that was refused.

`FlowTypeCorrect` and `LedgerTellsTheTruth` (`LedgerIsTrue`), for any
orders, any bound on the faults and any number of restarts. Its three parts are not inductive
alone. The invariant keeps them for each order (`Accounted`) and adds that an order not submitted yet is not
at the broker, while what the router or a cancel is about to record has happened there
(`OnItsWay`), and that every event on the bus tells the truth (`EventsAreTrue`), so that the
handler of a late or repeated one writes nothing false. A broker's order never leaves a closed state,
which is what makes an event true for as long as it is under way.

**EventStreamProofs.** `StreamTypeCorrect`; `StreamIsComplete` (`NothingHalfDone`) and `NoSecondCall` (`HandledOnce`), for any
workers, handlers, batches, attempts and any number of stops, crashes and lost replies. What
makes them inductive is who knows what: no message is in two hands, or in one twice, or in a
hand and dropped (`OneHandEach`); what lies behind a worker's first message, and what is not
delivered yet, is untouched (`TailOK`, `Fresh`); and of the message in its hand a worker's
`handler` and `failed` tell exactly which handlers are through with it (`AtWork`). One lemma shows
that a step on one message leaves all others and the other workers alone
(`OthersAreKept`), one what follows a handler (`ProceedIsSound`), one that giving up whole batches is
harmless (`DroppingKeeps`); the steps are instances of these.

**MonitorProofs** (incidents, failover). `ThrottleFollows` and `SeverityIsSafe`: multiplier and
severity are safe functions of the open incidents after any interleaving; the latter needs that a cascade is open
only once its report got there. `CascadesHappen` (`CascadesAreDetected`), for any reports, window,
delays and size of a cascade: as long as no cascade was set off, a critical incident whose report has returned is
among the recorded times unless the window has passed (`CriticalsAreRecorded`), so a report that finds too few of them
shows that there were too few; a report takes as long as its two awaits at most
(`ReportsAreTimely`), which is the part of the window that is lost. The times of a window are a finite
set, whose size grows with every new time.

`FailoverBlocks` (`FailoverBlocksOpens`) and `FailoversAreEarned` (`FailoverNeedsAStreak`), across
errors, stops, restarts and what operators do meanwhile: the failures counted are those of the
current streak at most (`FailuresAreCounted`), and a monitor that is in failover, or on its way
there, has gone to the trading state first (`OpensAreBlocked`). Redis may go back to a snapshot at any time; a return to
ACTIVE by that is excepted by name (`reverted`), as an operator's is.

**TradingDayProofs** (scan, cost monitor, shutdown and operators in one loop), for any symbols, strategies, limits and kinds of fills.
`ErrorsAloneRepeatOrders` (`OnlyErrorsRepeatOrders`) keeps books of each symbol: orders placed are those recorded,
interrupted or about to be recorded, rows those announced or about to be, and what is announced is `submitted`, once (`Books`,
`InHand`). `BreachesAreAnswered` (`BreachIsPaused`): the evaluations in a row that met a breach and did not pause are no more than the steps
of the throttle, as each took one or has it on its way, and those that a failing call or the end of the process
cut short (`TcaInv`).
`OneScanOrdersAfterAHalt` (`OneScanOutlivesAHalt`): while trading is not active at most one scan has
ordered, the one that is under way while it is under way (`OutsideInv`).

**OrderManagerProofs** (rate limiter, order manager). `ManagerTypeCorrect`; `TheBudgetIsKept`, whoever acquires or reads the bucket: what was let
through beyond one request per tick and what the bucket holds never exceed its capacity
together (`BucketInv`). `CopiesComeOfLostReplies` (`CopiesOnlyOfLostReplies`):
every copy at the broker whose reply was not lost is the one of the latest attempt, and
`submit()` holds its answer or has returned it, so no attempt follows (`CopyInv`). `OpenOrdersStayKnown`: the
manager's open orders and the broker's differ by calls and events under way, lost replies, early events and
cancels the broker answered with False alone.

**DecisionProofs** (the libraries that judge). `LapsedAuthorityIsOver` (`AuthorityEnds`), for any validities, caps,
tokens, incidents named by callers and restarts: chains are numbered in order, so a new one meets no old one, an old one is extended only by a
token of it that is still valid (`LapsedStaysDead`), and what reaches further than a renewal was issued so (`ValidityHasASource`).
How long a chain may be renewed is not part of it (section 4). `GatesAreStrict` (`GateIsStrict`): the reasons of a
decision are kept with it and explain every stage that is not ready, and a question asked with a mismatch on record opens none. `FlaggedStaysOut`
(`FlaggedIsNotTraded`), for any calendars and bars: what the filters write day after day into the one snapshot adds up to the symbols that were eligible and
never flagged, since a further bar changes no flag of a day that has come (`TheNextBarChangesNoFlag`). `NothingEverLeaks` (`NothingLeaks`), for any number of groups,
embargo and length of labels and any windows: training sets and tests are apart, and the windows' tests tile
the days they cover. `ProbesAreTrue` (`ProbesTellTheTruth`), with crashes between any two writes: a
result tells the jump from the price stored before its own and no other, no more jumps go untold than probes died, and the
failures on record are the row of failures that were counted.
`OutagesAlert` (`AlertsTellOutages`): a further bad event in a full or filling queue takes no alert away; the queue's
counts are those of what was chosen from it, one element more or less at a time.
`FramesAndMembersAreJudgedRight` and `ActionsAreToldRight` (`DataIsJudgedRight`): a quotient is monotone, so a frame that
is worse in every respect is judged no milder; a symbol joins and leaves the index as its records say, overlapping or not; and a split and a dividend are told
apart, by the linear bounds that both roundings leave (`KindsOfADay`), for `OrdinaryDays`: splits of a fifth or
more, dividends of three thousandths to an eighth, and less than a tenth of movement.

**PortfolioProofs** (the libraries that put money at risk). Sums are folds over finite sets, which take an
element by `CHOOSE`, or over sequences. What a sum is for every set goes by a least counterexample (`LeastNatural`, `LeastSubset`):
whichever element is taken first the sum is the same, so one more element adds its number. `EveryLimitIsKept`
(`LimitsAreKept`), for any portfolio, settings, readings and order of the gates: every order passed the gates by the
positions of its moment, and the risk and the sector shares taken on stay within the budget and the limit but for the orders sized
while the positions showed less than was taken on: other orders under way, or fills that told no stop or a lower price (`PreInv`). `BacktestsAreHonest` (`BooksAreHonest`), for any bars, signals, costs and fills: cash is the initial
capital and what the trades earned, less what the open positions cost (`CashBalances`); it is short by no more than
twice the costs booked (`CreditIsCovered`); each stock is looked at once a day and phase (`TodoIsInTurn`,
`DaysAreCountedOnce`); and closing at the end earns the last equity less its costs (`ClosingEarnsTheEquity`).
`SlicesAddUp` (`SlicingIsSound`): what is filled, still planned and dropped is what was planned at first, nothing
is dropped before the end (`SlicesInv`), and the decision to give up the rest is taken back only by a fill that leaves half at most. `RegimesAreSound` (`RegimeIsSound`)
assumes `HysteresisBuffer < 100` (the code's is 50 thousandths; at 100, half the width of the sideways band, the way from bear to bull may be exactly twice the buffer): the regime is the one the score of its last
change asks for, beyond the buffer of the one it left (`RegimeInv`), so the way back takes more than twice the buffer; the composite score is a
quotient of sums that grows with each of its parts.
`LosersArePausedForGood` (`LosersStayPaused`), for any names, strategies, prices and amounts: matching a sale closes the
purchases in turn, so what is left of them is the newest part of what was bought (`SellingKeepsTheNewest`), and the profit over all
strategies is the money of the sales less the cost of what they sold; drawdown marks never come down, so a
strategy that was to be paused stays so (`PerformanceInv`). `DriftIsNews` (`AlertsAreNews`): the square of a sum is no
more than the number of terms times the sum of their squares, hence each of n numbers is within (n - 1) / sqrt(n)
of their deviations (`statistics.stdev`, which divides by n - 1) of their mean (`EachIsNearTheMean`). With eight windows that is 2.47,
less than the 2.5 that alert: no reading between those of the windows alarms, and what does is new (`DriftInv`), for a queue that is not full yet as well.

### Assumptions

They are the `ASSUME`s of the modules, which TLC evaluates on every run, and the hypotheses stated with four
kinds of theorems: `Margin` for the lease, the buffer of `RegimesAreSound`, `OrdinaryDays`, outside of which `detect()` does take one for the other,
and `AlertZ >= 5` halves of a deviation for `DriftIsNews` (the code's default is 2.5; with less, one of eight windows may alarm by itself). The
modules' assumptions say that numbers are numbers and sets of stocks, symbols, strategies and names are finite, and where they say more
the code does too: in `EodScan` a universe is not empty; in `PreTrade` the gates are all of the gateway's, in any order and
each reading is of the kind its gate compares; in `Backtest` prices are positive, a low is
no higher than its close, and the average volume is at least 200 dollars, the step in which the impact
counts its share of it; in `Drift` the queue holds two returns at least, a return doubles or halves the equity
(`DriftAssumption`), and powers of two are numbers (`PowersAreNumbers`, which the prover is not told of `2^k`). `SteadySpec` is the store without the restarts of Redis.

### Only model-checked

Liveness (`VacancyIsFilled`, `FailoverHappens`, `PositionsConverge`, `EveryMessageSettles`,
`SubmissionsSettle`, `GuardsDoTheirWork`) and ENABLED are beyond the prover. So is the library's induction, whose theorems take an
operator as parameter; the proofs about sums, choices and the chain of gates use recursive functions and a
least counterexample in its place, and no module has a RECURSIVE operator. Every
safety property of a passing run, invariant or action property, is the subject of a theorem of section 6.

## 7. The plan

Done of the plan this project started with: store, API, election, orders and their ledger, incidents and failover;
then the bus on Redis Streams, tokens, the scan with cost monitor, shutdown and watchdog, the rate
limiter with the order manager, gates, slicers and the other libraries of decisions; and the proofs of all safety
properties. What is left:

1. The in-process queue at its limit of 512, where `publish` waits; the PDT counter and the
   account's equity in the portfolio.
2. Reconciliation over several symbols, with fills between two of them.

## 8. What is not modelled

- Signals, features, indicators, statistics of reports and half-Kelly weights: floating-point
  computations with no state that other parts share; gates, sizes and regime take what they yield as readings.
- Data sources, lineage, database and latency or capacity reports of the backtests: input,
  output and storage without control of their own.
- Encoding and cryptography of tokens, authentication and the API's per-address rate limit: a
  request or a token is valid or it is not.
- Formatting, logging, metrics, dashboards, scripts, configuration.
- Start-up and wiring in `main.py` (section 5 tells what was found there), the
  trimming of the stream, and the parts named in the notes of the components that are `partly` modelled.
