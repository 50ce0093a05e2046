# Verification of the signal copier

TLA+ models of `src/src/signal_copier`, the program that reads trading signals
from a Telegram channel and bets on them: once at the signal's trigger time, and
again with a larger amount (gale1, gale2) after each loss. TLC checks the models
on small instances, and TLAPS proves the most important safety properties for
every value of the constants.

Paths in this file are relative to `src/`; a bare file name such as `trigger.py` is
the one in `src/src/signal_copier`.

## 1. The system

| Component | State | Operations | Talks to |
|---|---|---|---|
| Parser (`domain/signal.py`), clock (`infra/clock.py`) | none: pure functions | parse a text, derive a signal's id, turn a time of day into an instant, check the window | called by the listener |
| Listener (`telegram/listener.py`), channel resolver (`telegram/channel_resolver.py`) | none of its own; one coroutine per Telegram event, which makes two handler calls | filter, parse, date, window check, upsert, enqueue | state store, queue, notifier |
| Signals queue (`__main__.py:118`) | at most 1000 signals (`_SIGNALS_QUEUE_MAXSIZE`), in memory | put (blocks), get | listener to scheduler |
| Scheduler (`scheduler/trigger.py` 76-281) | its set of tasks | `run`, `adopt`, `record_timeout` | queue, supervisors, store |
| Signal supervisor (`scheduler/trigger.py` 284-765) | one asyncio task per signal, with the local `SignalState` | limit check, idempotency check, arm, fire, place, wait, finalise | store, broker, notifier |
| State machine (`domain/state.py`, `domain/gale.py`) | none: a pure function | `transition(state, event, config)` | called by supervisor and scheduler |
| State store (`infra/state_store.py`, `migrations/001_initial.sql`) | tables `signals`, `stages`, `daily_summary` | eight operations, each one transaction | PostgreSQL |
| Recovery (`recovery.py`) | none | one pass over the active rows at boot | store, scheduler |
| Brokers (`broker/mt5.py`, `broker/dry_run.py`) | connection, symbol cache, last profits; jobs in the default thread pool | place, wait_result, close_position, close | MT5 terminal |
| Connection to MT5 (`broker/reconnect.py`) | the attempt's number | `with_retry` with its two DMs | MT5 terminal, notifier |
| Telegram client (`telegram/client.py`) | connection, reconnect counter | connect, `start` with its reconnects, close | Telegram |
| Notifier (`notify/telegram_dm.py`) | none | a DM per event; never raises | Telegram client |
| Process (`__main__.py`) | the two tasks and what is open | boot, recovery, run, clean-up, exit code | all of them |
| Configuration, database pool, log, login, replay injector, soak tools | - | I/O and validation | - |

Everything but the MT5 calls runs in one asyncio event loop. A coroutine is interrupted
only where it awaits, so a step of the model is the completion of one awaited call and
the code from there to the next await. The MT5 functions block, so all but one of them
run in threads of the loop's default pool. What survives the process is the database,
the orders at the broker and the DMs that were sent.

The behaviours that are hard to get right:

* a signal's messages are delivered several times (`add_message_handler` registers
  each handler for new messages and for edits, so each event is handled twice, and the
  channel edits and re-posts), also while recovery is running and across midnight;
* the process dies between any two awaits: between the status update and the order,
  between the order and the stage row, between the three writes of a result;
* SIGINT arrives at any await of the boot, of the service and of the clean-up, and
  supervisors are cancelled at any await of theirs;
* cancelling a broker call does not stop the thread that is making it, and a thread
  that hangs is lost to all other cascades;
* overlapping cascades of one day read limits and add to one summary;
* the result timeout, the broker's answer and the next stage's window race;
* a database or broker call raises, and the supervisor's `run` only logs it;
* a full queue holds a handler whose row is already inserted.

What makes each part correct:

* *parser, listener*: one row per bet whatever the time of reception, rows from genuine
  signals and from all of them, a signal queued once, nothing dropped for a row of this
  process that nobody brings to the scheduler;
* *state machine*: a final state is final; a gale follows a loss of the stage before;
* *store*: a row never leaves a final status; the summary is what the stage rows add up to;
* *supervisor and scheduler*: at most one supervisor drives a signal, no stage is bet
  on twice or early, the database knows of a stage before the broker does, the last DM
  says what the database says, every cascade ends;
* *recovery*: no row is left at a stage whose window has closed, and recovery never
  starts a bet;
* *limits*: they stop every signal that is received after they were reached;
* *brokers*: one order per call, an id only for an executed order, a refusal only for
  one that was not, a call that returns;
* *process*: no supervisor that may bet outlives a connection, the clean-up closes what
  was opened, SIGINT ends the program, a failure makes the platform restart it, up to
  ten times (`railway.toml` 11-12).

## 2. The modules

| Module | Models | Extends |
|---|---|---|
| `Cascade` | `domain/state.py`, `domain/gale.py`: the state machine as operators of (state, event, clock reading) | `Integers` |
| `StateStore` | the tables and the operations of `infra/state_store.py` | `Cascade` |
| `Supervisor` | `SignalSupervisor`, one action per await, and its cancellation | `StateStore` |
| `Copier` | listener from the window on, queue, scheduler, recovery, the end of the process, clock; `Init`, `Next`, `Spec` and the safety properties that are proved | `Supervisor` |
| `CopierProperties` | liveness, and the statements of the repository about cascades that the code does not meet | `Copier` |
| `Intake` | parser, signal ids, dates, filter and handler of the listener | `Integers` |
| `Brokers` | `Mt5Broker` with the thread pool, `DryRunBroker` | `Naturals` |
| `Lifecycle` | boot, tasks, clean-up, exit codes of `__main__.py`; `with_retry`; `TelegramClient.start` | `Naturals` |
| `Martingale` | abstract: what the PRD promises about money | `Naturals` |
| `BrokerContract` | abstract: what `broker/base.py` promises the supervisors | `Naturals` |
| `Process` | abstract: when supervisors may come, and that none outlives the process | `Naturals` |
| `CopierInvariant` | the inductive invariant `Safe`; `Recorded` and `Ledger` about the stage rows, `Tallied` and `Totals` about the money, `Abandoned` and `AwaitsLeft` about the end of a cascade | `Copier` |
| `CopierProofs` | `Safe` and the invariants it contains | `CopierInvariant` |
| `CopierStepProofs` | `FinalIsFinal`, `TradeLimitHolds`, what a crash ends, the end of cascades; `Copier` implements `Martingale` and `Process` | `CopierProofs` |
| `CopierRecordProofs` | `NoGaleWithoutLoss`, `DailyNeverOver`, the rows against the orders | `CopierProofs` |
| `CopierRunProofs` | `NoEarlyTrade`, lives without a crash, recovery | `CopierProofs` |
| `CopierAccountProofs` | sums over finite sets, `ToldTheTruth`, the totals and costs of a cascade, `DailyExact` | the three above |
| `LifecycleProofs`, `BrokersProofs`, `IntakeProofs` | the theorems of these three modules | each its own |
| `MCCopier`, `MCBrokers`, `MCIntake` | values of the constants for TLC (`Lifecycle` needs none) | each its own |

How the parts are composed. A model of the whole program at the grain of each part would
be far too large, so parts meet in specifications that both sides are held against:

* `Copier` has the supervisors in full and `Lifecycle` has them as two numbers. Both
  implement `Process` (`Copier!ImplementsLife`, `Lifecycle!ImplementsLife`): recovery and
  the scheduler start supervisors only in their phases, none starts while the program is
  stopping, none outlives it. `Copier` therefore assumes no more of `__main__.py` than
  it does.
* `Copier` has `broker.place` and `wait_result` as two awaits with any outcome. `Brokers`
  implements `BrokerContract`, which says the outcomes a caller may see, and these are
  those of `Supervisor!Place` and `BrokerAnswers`: an id for an executed order, a
  refusal of the pair without one, an exception with or without one.
* `Copier` starts at a message of a given signal in its window, up to `MaxDeliveries` of
  them. `Intake` shows that this is what the events amount to: one id per bet, one queue
  entry per id.

### How state and actions correspond to the code

**`Copier`.** `signals`, `reason`, `stages`, `daily` are the columns and tables that decide
something. A stage row is identified by (signal, stage, placed_at), because its
primary key is a hash of these; two inserts with the same three raise, as in the code.
`signals_count` and `limit_hit` are left out: no caller passes anything but 0 and
`None` for them. The duplicate columns (pair, direction, amounts) are functions
of the signal and the stage.

`pc[t]` names the await at which the supervisor task `t` stands:

| pc | await | lines of `trigger.py` |
|---|---|---|
| `limit` | `get_daily_summary` in `_check_daily_limit` | 700 |
| `rejectWrite`, `rejectTell` | `_handle_limit_rejection` | 725, 731-751 |
| `idem` | `get_signal` | 339 |
| `receivedTell` | `on_signal_received` | 350 |
| `armed` | the future that `call_at` completes | 392 |
| `fireWrite` | `update_signal_state` after the FireEvent | 417 |
| `expiredTell` | `on_signal_expired` | 426 |
| `place` | `broker.place` | 447 |
| `pairTell`, `errorWrite` | `on_pair_unavailable`, `_apply_error_transition` | 461, 625 |
| `stageWrite`, `placedTell` | `record_stage_placed`, `on_trade_placed` | 476, 486 |
| `waiting` | `wait_for(broker.wait_result)` | 656 |
| `resultWrite`, `stateWrite`, `dailyWrite` | the three writes of a result | 540, 546, 552 |
| `resultTell`, `completeTell` | `on_win` / `on_loss`, `on_cascade_complete` | 565/574, 586 |

A task is a pair of a signal and a slot, so that several supervisors of one signal
*can* exist; that they do not is proved. A handler is counted in `checked[s]` while it
awaits `upsert_signal` and in `inserted[s]` while it awaits `queue.put`. `snapshot`,
`recNow` and `timeout` are the local variables of recovery and of the
`record_timeout` call that it awaits. `trades[s][g]` counts the orders that the broker
executed, and `told[s]` holds the DMs that were sent: both are what an outsider sees,
not something the program reads. The awaits of a database operation may also raise
(`DbMayFail`); `broker.place` may execute, refuse the pair, or raise before or after
the order was executed (`PlaceOutcomes`); the broker may answer any result, or never.
`Stop` is the beginning of the clean-up, from which on supervisors are cancelled one
by one (a cancelled `place` may leave an order behind), and `Crash` is the end.
`now` is one clock for the wall time, `call_at` and the timeouts. `Tick` is always
enabled up to `MaxNow`, so any await may take any time.

**`Intake`.** `at[e]` is the await of the handler call that event `e` is in, `call[e]`
which of its two calls that is. A text is a record of what the regular expressions find
in it: the kind of its header, the number of signal lines, and the fields of the first.
`SignalId` is the tuple that `derive_signal_id` hashes. `received[e]` is the one reading
of the clock from which date, trigger and window follow. A behaviour is one life of the process:
`Earlier` are the rows that the lives before it left pending, with no queue entry.

**`Brokers`.** `call[b]` is where the supervisor of bet `b` is with the broker, and `job[j]`
is one blocking call in the pool: queued, running in one of the `Workers` threads, or
ended with an answer that the event loop has not taken yet. The lookup of a pair that
`connect` did not cache is made in the event loop's own thread and stops everything else
(`LoopFree`). `TimesOut` is the supervisor's `wait_for`, `Abandon` its cancellation; both
take a queued job out of the pool and leave a running one behind. `profit` is how the
server closed the position, `known` what `_last_known_profit` says.

**`Lifecycle`.** `at` is the await of the main task, `opened` what is open, `why` and `code` how
it ended. `Finally` gives the statement of the `finally` block at which each failure
enters it. `tele` is the telegram task with its counter `drops`, `sched` the scheduler
task. `Interrupt` is the first SIGINT, which raises at the main task's await;
`InterruptAgain` a later one: `asyncio.run` then cancels every task again, which a main task
that awaits another task survives, and which cuts the clean-up short anywhere else.
`PlatformRestart` is the restart after a failure, at most `MaxRestarts` times, `Deploy`
the user's. The DMs about the broker's connection and about the start and the end of the
program are awaits; what they say is not in the model.

### The abstract specifications

`Martingale` knows nothing of tasks, crashes, messages or rows. A status moves only
along `none, pending, placed_initial, placed_gale1, placed_gale2` or from one of these
to a final status (lost only from gale2), and an order for a stage is sent at most
once, while the status says so, after the order of the stage before. `Copier!Implements`
is its specification with `status <- signals` and `bets <- trades`.

`BrokerContract` has one call of `place` and one of `wait_result` per bet, and says what
each answer means about the order. `Process` has a phase and a number of supervisors.

## 3. The runs

In the runs of `MCCopier` time is scaled: a unit stands for about a minute and a
half, and the order of the code's constants is kept: tolerance (2 s) < grace (30 s) <
expiration (300 s), stage window (330 s) = expiration + grace. `MCCrash` departs from it with
a tolerance of 2 against a grace of 1, which the configuration allows: only then may a
timeout at boot advance a cascade and adopt it. Deadlock is checked in
`MCLifecycle` and `VReconnect`, where an exited program may always be started again. The
other models may stop: an idle copier whose clock is at `MaxNow`, brokers whose bets are over,
events that have all been handled.

| Run | Checks | Bounds | States |
|---|---|---|---|
| `MCCrash` | `TypeOK`, `NoDuplicateTrade`, `WriteAhead`, `NoGaleWithoutLoss`, `OneSupervisor`, `DailyNeverOver`, `ToldTheTruth`, `FinalIsFinal`, `Implements`, `ClosedStagesTimedOut`, `NoEarlyTrade`, `ImplementsLife`, `Safe` | 1 signal, 2 slots, 2 deliveries, 2 ends of the process, orderly or not, all faults, tolerance 2 > grace, clock to 9 | 3.2M |
| `MCDay` | `DailyExact`, `PendingHeld`, `NoOpenRowAfterEnd`, `TradeLimitHolds` | 2 signals of one day, trade limit 1, queue with room for one, clock to 4 | 270k |
| `MCLive` | `EverySignalEnds`, `EverySignalToldEnd` | 2 signals with one trigger, a queue with room for one, trade limit 1, fair, clock to 4 | 1.1M |
| `MCBroker` | `TypeOK`, `QueuedSendsAwaited`, `ImplementsContract`, `CallsReturn` | 2 bets, one of a pair that is not cached; 2 threads, one of which a poll may take for ever | 92k |
| `MCLifecycle` | `TypeOK`, `DriversConnected`, `ExitsClean`, `ImplementsLife`, `InterruptEnds`, `FailureRestarts` | 3 attempts at MT5, 2 reconnects, 2 restarts by the platform, 2 supervisors of either kind | 14k |
| `MCIntake` | `TypeOK`, `OneRowPerBet`, `OnlyGenuine`, `GenuineKept`, `QueuedOnce`, `ToldWhy`, `DuplicateQueued` | 2 events of any origin and text, each handled twice, 1 row of an earlier life; a day of 8 units, local time 2 behind UTC, clock from 6 to 11 | 1.0M |

Why the bounds are enough:

* *Cascades.* A signal's cascade is independent of another's but for the queue and the
  daily summary, so everything about one signal is checked with one, with
  room for two supervisors (a third adds nothing that a second does not already violate),
  two deliveries (the second of which is every later one) and two ends (one inside
  normal operation, one inside the recovery from it). In `MCCrash` the trigger is at 1,
  gale2's at 5, its result deadline at 10 and the end of its recovery window at 8, so the
  clock reaches every window but the last result timeout, which differs from the earlier
  ones only in its outcome. The runs with two signals cover the queue and the summary. In
  `MCLive` both have the same trigger, so that the second handler waits for the queue while the
  first signal's row is checked, and the clock reaches the end of every stage.
  The slots are symmetric; the symmetry is only used in runs without liveness.
* *Brokers.* Bets meet only in the thread pool, and two of them with two threads, one of
  which may hang, are enough for one to wait for the other. The pool is tight: with one
  thread `CallsReturn` fails, which is what the property says of a pool whose threads
  are all lost.
* *Life cycle.* Three attempts have a first, a middle and a last; the counter of two
  reconnects can be below, at and past its limit; one supervisor more is one more of
  the same; two restarts are one that is not the last and the last. `MaxSupervisors` bounds only how many are alive at the same time.
* *Intake.* The clock passes a midnight in UTC (8) and one in local time (10), the zone is
  behind UTC so that the two differ in the direction that a negative remainder would
  get wrong, the row of an earlier life is one that a message may still repeat in its window, and two events are enough for any two messages of a bet, or of two bets
  that look alike, to overlap.

### Fairness

*Cascades.* `FairSpec` of `CopierProperties` is weak fairness of every step of
the event loop, of the database operations, of `broker.place` and the DMs, of the
`wait_for` timeout and of the clock. The event loop is fair by construction, the database
has a command timeout of 30 s, and `wait_for` is bounded by its argument. `broker.place`
and the DMs have no timeout in the code; that `place` returns is the subject of
`CallsReturn`, that a DM does is an assumption. Nothing is assumed of Telegram (messages may never come)
nor of the broker's results (`Answer` is not fair: the timeout does the work). Ends of the
process, database errors and broker exceptions are excluded from these runs, because
the code does not promise an end after them (see `VResume` and section 5).

*Brokers.* The terminal answers every call but the polls in `Hung`. The executor's queue is
first in, first out, so an order does not wait for ever while threads become free: strong
fairness of `StartJob` of a send. A timed-out or abandoned caller is left by `wait_for`.

*Life cycle.* The awaits of the boot and of the clean-up end, one way or the other, as do
supervisors that were cancelled. Nothing is assumed of the time the program serves, of
SIGINT or of drops. The platform restarts every exit code but 0, ten times in all
(`restartPolicyType` and `restartPolicyMaxRetries`, `railway.toml` 11-12; `MaxRestarts`), and
also a bad configuration, which no restart helps. After that the bot stays down until the
user deploys it again, for which there is no fairness; `FailureRestarts` therefore speaks of
failures while restarts are left. Whether the platform's count starts anew after a while is
not known from the repository; the model never starts it anew. What the model does not have is the interpreter's own exit, which
joins the threads of the pool: a hung MT5 call would hold it.

*Intake.* A handler call proceeds: statements have a command timeout, and `_send` swallows
what Telegram raises. Events need not come, and errors need not stop.

## 4. What is proved

The eight proof modules prove, for any set of signals and days, any number of slots,
deliveries, ends of the process, bets, threads, attempts, reconnects, supervisors, events, any length of a
day, any fixed offset of the zone, and any values of the times, amounts and limits that
satisfy the named assumptions (`AmountAssumption`, `TimeAssumption`, `SignalAssumption`,
`SupervisorAssumption`, `CopierAssumption`, `BrokersAssumption`, `LifecycleAssumption`,
`IntakeAssumption`: types, and positive durations and sizes; `EarlierAssumption`: the rows of
earlier lives are of the form that the handler gives them):

| Theorem | States | Under, or by |
|---|---|---|
| `SafeInvariant`, `TypeCorrect` | `[]Safe`, `[]TypeOK` of `Copier` | `Safe` |
| `NoStageIsBetTwice` | `[]NoDuplicateTrade` | `Safe` |
| `RowsAreAheadOfOrders` | `[]WriteAhead` | `Safe` |
| `SupervisorsAreUnique` | `[]OneSupervisor` | `Safe` |
| `FinalStatusStays` | `FinalIsFinal` | `Safe`, by action |
| `LimitStopsLateSignals` | `TradeLimitHolds` | `TradeLimit > 0`; `Late` |
| `GalesFollowRecordedLosses` | `[]NoGaleWithoutLoss` | `Recorded` |
| `SummaryNeverOver` | `[]DailyNeverOver` | `Books` |
| `SummaryIsExact` | `[]DailyExact` | `Undisturbed`; `Balanced` |
| `CompletionIsTrue` | `[]ToldTheTruth` | `Tallied` |
| `RowsStandForOrders`, `StageRowsAreNew` | `[]RowsAreOrders`, `[]InsertsAreNew` (*) | `Ledger` |
| `OnlyTheLastStageWins` | `[]LossesBeforeLast` (*) | `Ledger`, `Recorded` |
| `TotalsAreOfAMartingale` | `[]TotalsAreMartingales` (*) | `Totals` |
| `LossIsBounded` | `[]CostsAtMostItsStakes` (*) | `Ledger`, `Books` |
| `CrashEndsBetting` | `NoBetAfterCrash` (*) | `Abandoned`, by action |
| `CascadesRunOut` | `[]AwaitsAreBounded`, `AwaitsRunOut` (*) | `Safe`, by action |
| `NoOrderIsEarly` | `NoEarlyTrade` | `Punctual` |
| `NoSignalForgotten` | `[]PendingHeld` | `Undisturbed`; `Calm` |
| `NoBetForgotten` | `[]NoOpenRowAfterEnd` | `Undisturbed`; `Calm` |
| `RecoveryLeavesNoClosedStage` | `ClosedStagesTimedOut` | `Slack`; `Judged` |
| `CopierImplementsMartingale` | `Implements` | `Safe`, by action |
| `CopierImplementsLife` | `ImplementsLife` of `Copier` | `Countable` |
| `LifecycleTyped` | `[]TypeOK` of `Lifecycle` | `Orderly` |
| `SupervisorsServed` | `[]DriversConnected` | `Orderly` |
| `NothingLeftOpen` | `[]ExitsClean` | `Orderly` |
| `LifeImplemented` | `ImplementsLife` of `Lifecycle` | `Orderly`, by action |
| `BrokersTyped` | `[]TypeOK` of `Brokers` | `Served` |
| `QueuedOrdersAwaited` | `[]QueuedSendsAwaited` | `Served` |
| `ContractKept` | `ImplementsContract` | `Served`, by action |
| `IntakeTyped` | `[]TypeOK` of `Intake` | `IntakeInv` |
| `RowsAreBets` | `[]OneRowPerBet` | `IntakeInv`, `OneDate` |
| `RowsAreGenuine`, `GenuineAreRows` | `[]OnlyGenuine`, `[]GenuineKept` | `IntakeInv` |
| `IdsQueuedOnce` | `[]QueuedOnce` | `IntakeInv` |
| `ReasonsAreTrue` | `[]ToldWhy` | `IntakeInv` |

Every safety property of a passing run is stated by one of these theorems. Those marked (*)
go beyond the runs; TLC has found what they state to hold with the constants of `MCCrash`
but a tolerance of 0 (648,701 states), for `NoBetAfterCrash` in the form that every received signal is
`Abandoned` while the process is down and remains so, without a bet, in every step.

### The cascades

Few of these properties are inductive. `NoDuplicateTrade` holds because a supervisor about
to place an order for a stage is the only one of its signal and its stage has no order
yet, and *that* holds because of an ownership argument, which is what `Safe` says:

* `Exclusive`: a signal is held by at most one of a handler that has inserted its row, a
  queue entry, and a task; the row of a signal in the first two is `pending`, and a row
  that recovery still has to deal with is held by none;
* `Phases`: recovery works before any signal is dequeued, and its listed rows do not
  change under it except by its own write;
* `Agreement`: at each await of a driving supervisor, the row's status is what its
  local state says, up to the write it is about to make, and the orders of its stage
  are 0 before `place` and 1 after;
* `Ordered`, `WriteAhead`, `NoDuplicateTrade`: a gale's order follows its predecessor's.

The key steps are that only `UpsertSignal` makes a row `pending`, once, and hands it to
exactly one handler; and that `MayDrive` turns every supervisor that finds another
status away. The proof has one lemma per action (`...Safe`), the lemmas about the state
machine's operators come first, and `NextSafe` puts them together. The others build on
`Safe`:

* `FinalIsFinal`: `Agreement` says of every await before a status write that the row is
  not final yet, and `Exclusive` says it of the rows that recovery has listed.
* `NoGaleWithoutLoss` needs `Recorded`: the row of a bet exists until
  its result is written, the result is on record until the next stage is armed, and an
  armed or placed gale has the loss before it on record. The one step that could destroy
  evidence is `ResultWrite`, which changes a row: `OneSupervisor` keeps the rows of other
  supervisors out of its reach, and by `WriteAhead` no order of the next stage is out
  while the status is still that of the bet.
* `DailyNeverOver` needs `Books`: a task between `record_stage_result` and
  `update_daily_summary` has a closed row of its own that is not in the summary. The
  summary is at most the number of closed rows without these, so that the update adds at
  most what it takes off the uncounted ones. That no two tasks share a row is
  `OneSupervisor` again.
* `TradeLimitHolds`: `Late(s)` says that the day is full and that no task of `s` is past
  its limit check as an accepted signal. The count never falls, so it is stable; with a limit
  of 0 the code checks nothing, hence the assumption.
* `RowsAreOrders` and `InsertsAreNew` need each other (`Ledger`): the stage whose row is
  inserted has an order, its first, and so no row yet. `LossesBeforeLast` then follows from
  `NoGaleWithoutLoss`: a row at a later stage stands for an order, which had a recorded
  loss before it, and a stage has only one row.
* `ToldTheTruth` needs `Tallied`: from the start of a cascade to its last DM the local
  running total is the sum of the signal's rows, plus the result in flight at
  `resultWrite`. It holds at the start because a row that is still `pending` has no stage
  rows, and it stays true after the last DM because no task of a signal that is over
  writes rows. Only `resultWrite` changes the sum, by the result of the row it closes.
* `TotalsAreMartingales` needs `Totals`, the same statement of the totals of the supervisors that
  are still on their way, status by status. `CostsAtMostItsStakes` speaks of rows, not of locals,
  and so also of cascades that were interrupted: a stage has one row and a row costs one stake.
* `DailyExact` needs `Balanced`: for each day and each result, the summary's count and the tasks
  between `record_stage_result` and `update_daily_summary` are together the closed rows, and so
  for the money. `ResultWrite` moves a row and its task in at the same time, `DailyWrite` takes
  the task out and counts it. A crash or an error in between loses a result, hence `Undisturbed`.
* Sums are `SumFunction` of the community modules, a fold over a set. That a sum
  does not depend on the order in which the fold takes the elements, so that any element may be
  taken out of it or added to it, is proved here by a minimal counterexample
  (`SmallestSubset`), since an induction principle cannot be cited.
* `NoBetAfterCrash`: `Abandoned(s)` says that `s` has been received, that no handler and no queue
  entry holds it, and that its supervisors, if any, have not come past the idempotency check.
  It holds of every received signal when the process is down (`NothingRuns`) and is stable: only
  `UpsertSignal` gives a signal to a handler, and it does so once; what recovery adopts is
  `placed_*`, and is turned away.
* `AwaitsRunOut`: `AwaitsLeft(t)` counts the awaits on the longest way from where a supervisor
  stands, nine for a stage. It uses of `Safe` that a result moves the local stage on or ends
  the cascade. This is the part of `EverySignalEnds` that has no fairness in it.
* `NoEarlyTrade`: `Punctual` says that a supervisor past its timer is past its trigger.
* `Calm` is about a life without crash and database error (`Undisturbed`: `MaxCrashes = 0`,
  `DbMayFail` false), and is false in others: after a crash a pending row has no holder.
* `ClosedStagesTimedOut`: `Judged` says that each row that recovery has dealt with is at a
  stage whose window was open at its one reading of the clock. A timeout that advances
  a row writes the next stage, which is still open under `Slack`, `GaleStep +
  Tolerance <= Expiration + StageWindow`; the default configuration has 302 <= 630.
* `Implements`: `Safe` tells what the status and the orders are before each write and
  each order, so that every action is one step of `Martingale` (`...Plays`) or leaves
  `signals` and `trades` alone. `ImplementsLife` counts the tasks that are alive,
  which are finitely many at any time (`Countable`).

### The other modules

`Orderly` says for each await of the main task what is open, whether and how the program is
ending, and which tasks are alive. Its key is that the scheduler task, which takes its
supervisors along, adopted ones too, is awaited before anything is closed. Only when the boot
ends between recovery and the scheduler's start is there no such task: `DriversConnected` names
that case, in which the connections are closed under supervisors that recovery adopted. They
never bet (they return at the idempotency check).

`Served` ties a send in the pool to its caller: a queued one is awaited, an ended one is
still awaited and its answer tells whether the order exists. Nothing is said of polls,
which no order depends on.

`IntakeInv` says that what stands at an await is what was read at the call's beginning
(`CallsRead`), that a row's trigger follows from its id and that the rows of earlier lives
stay (`RowsRead`), and that the ids at `queue.put` are distinct from each other, from those in
the queue and from those of earlier lives (`PutsApart`). `OneDate`, the arithmetic
of `RowsAreBets`, says that an instant has one date and one time of the day for any length of the
day, which is why two receptions on either side of a midnight cannot give two ids to
one instant.

## 5. Where the code and its documents disagree

Each of these runs checks one statement of the repository, which TLC refutes.

| Run | Statement | What happens |
|---|---|---|
| `VResume` | an adopted cascade continues (`recovery.py:6-7`) | the adopted supervisor returns at the idempotency check, since the row is `placed_*` |
| `VTimeout` | a result timeout lets the gale proceed (`docs/PRD.md:583`) | at expiration + grace the next window is already closed |
| `VProfit` | `wait_result` answers from the last known profit (M13-2 design, line 18) | only `close_position`, which nothing calls, ever stores one: every bet that closes at the server is a tie |
| `VReconnect` | ten attempts per outage, then give up (M5 design, line 67) | the counter is never reset, so the eleventh drop in the life of the program ends it |
| `VLimit` | the daily limit stops *new* signals (`docs/PRD.md:219`) | a signal that has bet, and was adopted after a crash, is checked first of all against the limit and becomes `limit_rejected` |
| `VRepost` | a re-post revives a row that a crash left pending (`recovery.py:10-12`) | the handler finds the row and drops the message as a duplicate; nobody queues the signal |

`VResume` and `NoDuplicateTrade` are two sides of one line: the check at
`trigger.py:340` that keeps adopted rows from being bet on again is also what keeps
their cascades from continuing.

The following were met while modelling. They are plain from the code, or follow from a
model here, and have no run of their own:

* *Cascades.* An exception of `place` other than `UnsupportedPairError` leaves the row
  `placed_*`, where `base.py:29` speaks of `error`. An order may go out later than the
  tolerance (PRD FR-3.5, `soak_assertions.py:106`), because the database and the broker
  delay it after the check, and gales are not checked at all. Recovery leaves the stage
  row of a timed-out trade open (`PRD.md:581`). An unsupported
  pair is recorded as `broker_unavailable` (`trigger.py:466`, against `base.py:14-15` and
  `PRD.md:590`).
* *Limits.* A win of a cascade in flight lifts a loss limit that was reached, since
  `limit_hit` is never written (`trigger.py:552-562`, against PRD FR-6.1).
* *Intake.* A signal for the first minutes of a day that is posted before midnight gets the
  instant of the day that is ending and is dropped as nearly a day late (PRD FR-2.3;
  `infra/clock.py:26`, `listener.py:94`). A parse failure is told twice per event. An
  edit of a message about 24 hours later is a new bet, and an edit that changes the
  direction or the time leads to both.
* *Life cycle.* A database error of a supervisor does not end the program for the platform to
  restart it (`trigger.py:293-295`): `run` only logs it (324). A connection that Telegram ends without an exception makes the program
  return 0, after which a platform that restarts on failure does not (`client.py:143`).
  `on_bot_stopping` always says that no cascade is open (`PRD.md:255`), because it asks after the
  scheduler has ended. `on_broker_reconnected` always says one attempt and no downtime
  (`mt5.py:154`), also after retries, where `protocol.py:150-151` has 1 mean success on the first
  try. A pool whose
  migration fails is closed by nobody. The dry-run broker keeps a trade
  for ever if its supervisor ends between `place` and `wait_result`, where
  `dry_run.py:42-43` bounds what it keeps by the trades in flight.

## 6. Only model-checked, and not modelled

Model-checked only: the liveness properties, because the prover has no rules for fairness
and `ENABLED` (`EverySignalEnds`, `EverySignalToldEnd`, `CallsReturn`, `InterruptEnds`,
`FailureRestarts`, `DuplicateQueued`).

Not modelled:

* a database operation that commits and then raises;
* time zones with daylight saving (the zone has a fixed offset), and `format_local_hhmm`;
* the delays of the backoff, in `with_retry` and in the reconnect loop: an await of any
  length stands for each;
* the pool's size and its command timeout, which are assumptions;
* the wording and layout of DMs, what the DMs about connections and about the program's start
  and end say, and the four DMs that nothing calls;
* two folds of awaits: `RejectTell` has the two DMs of a rejection as one step, and
  `TimeoutAdopt` leaves out `adopt`'s own look at the row that it is given, which nobody can have
  changed;
* validation of the configuration; log and login; reading and timing the replay injector's
  fixtures (its events are in `Intake`); the soak tools.

An `expiration_seconds` other than 300 makes the gale triggers of `state.py` (which adds
5 * 60) differ from the expiry of the bet before; `Expiration` and `GaleStep` are separate constants, the
proofs hold for any values of both, and the runs use the equal values of the default
configuration.

## 7. Plan

1. (done) Core: `Cascade`, `StateStore`, `Supervisor`, `Copier`, `Martingale`; the
   inductive invariant and the refinement.
2. (done) `Brokers` and its contract, `Lifecycle` and the life of the process, `Intake`;
   cancellation of supervisors; their theorems.
3. (done) Proofs about limits, summary, recovery, timers and lives without a crash.
4. (done) Proofs about the money (`Tallied`, `Totals`, `Balanced`), the rows against the
   orders, what a crash ends, and a bound on the awaits of a cascade.
5. The part without fairness of `InterruptEnds` and `DuplicateQueued`: bounds on the awaits
   that a clean-up and a handler call have before them, as `AwaitsLeft` for a supervisor.
6. A commit whose answer is lost, in `StateStore` and `Intake`: a handler then takes its
   own row for a duplicate, and `PendingHeld` and `DuplicateQueued` would have to be
   weakened to what remains true.
7. A zone with one change of its offset in `Intake`, where an instant may have two local
   times and a local time none.
