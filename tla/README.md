# sniper-paper: a TLA+ verification project

`sniper-paper` watches public Bybit futures streams, detects price levels,
decides on setups and trades them **on paper**: a queue model fills simulated
post-only entries from public trades, a SQLite journal keeps everything across
restarts. This directory holds TLA+ models of that program, TLC configurations
that check them on small instances, and TLAPS proofs of what matters most for
every value of the constants. `PROJECT.json` maps every definition to the source
lines it translates, lists the runs, the mutants that show each property can
fail, the hazards and the findings.

Paths below are relative to `src/src/sniper_paper/` unless they start with `src/`.

## 1. The system

One process, one asyncio loop. `PaperApp.run_forever` runs one session per UTC
day; a session picks a universe, warms the feed up over REST, then hands every
websocket message to the synchronous `PaperApp.handle_message` until the day ends
or the session fails. A service manager restarts the process
(`src/compose.yaml:6`).

| component | state it keeps | operations | what makes it correct |
|---|---|---|---|
| paper executor (`paper.py`) | one pending entry, one open position, equity | `submit`, `on_quote`, `on_trade`, `cancel_pending`, `restore` | one slot for the whole portfolio; fills only behind the displayed queue; every entry settles; exits inside the recorded excursion |
| journal (`storage.py`) | `signals`, `paper_orders`, `positions`, `signal_path_events`, `levels`, bars, attempts | one transaction per call; start-up queries | the tables agree after any crash; start-up closes what was left open and nothing else |
| signal paths (`signal_path.py`, `app.py:1252-1385`) | a tracker per admitted signal | start, observe, timeout, mark unknown, reconcile | a recorded verdict is what the market did first; one end per path |
| application (`app.py`) | sessions, per-symbol maps, caches of orders and levels | `handle_message` and everything it calls | order of calls within a message; what survives a session |
| stream (`stream.py`) | a websocket | connect, deliver, break, reconnect, deadline | every break is announced before anything else is heard |
| book, bars, clock (`market.py`) | book with sequence numbers, forming bars, clock offset | `Book.apply`, `BarBuilder`, `FeedClock` | no decision on a book with a gap; each bar emitted once |
| footprint and DOM (`orderflow.py`) | forming footprints, candidate walls and their evidence | `Footprint.process`, `DomTracker.process` | no judgement on unseen intervals; a wall stood as long as it is said to; recovery after a reconnect |
| levels (`levels.py`, `shadow_levels.py`, `storage.py:672-783`) | level rows | detect, cluster, merge, break | a broken level never comes back, its break is the earliest one known |
| strategy v2 (`strategy_v2.py`) | episodes, consumed levels, attempts, cooldowns | `observe_price`, `evaluate`, `reset_level_episodes`, `restore_attempts` | one signal per episode; no second one while price lingers; no evidence bridges an interruption |
| profit protection (`profit_protection.py`) | a guard per position, `profit_shadow_events` | `on_quote`, `on_footprint`, `on_baseline_close` | an exit gives back what it may and no less; one exit per mode; the guard survives a restart |
| shadow research (`shadow_orderflow.py`, `shadow_setups.py`) | the application's `density_walls` | `density_bounce_v1` and others | only evidence from after readiness, only the first approach |
| telegram (`telegram.py`) | a bounded queue and a thread | enqueue, drain, dedup | a full queue or a failed post never stops trading |
| dashboard (`dashboard*.py`, `web.py`) | none of its own | read-only views | none beyond not writing |
| universe, metrics, v1 strategy, protocol, CLI | tables and arithmetic | pure | numerical; see section 8 |

**How they interact.** `handle_message` is the only writer of trading state and
runs to completion, so no two handlers interleave; what interleaves is the
*order of messages* (quotes, trades, breaks of several symbols), the clock, and
the points where the process may die. Each journal call opens its own connection
and commits by itself (`storage.py:24-34`): a handler that writes three rows can be
killed between any two of them, or stop there on an SQLite error, which ends the
session while the process and its memory live on (`app.py:171-181`), ahead of the rows
by as much as the handler had changed.

**Which behaviours are hard.** Kills between the commits of one handler; what a
restart rebuilds from the tables; entries that may be expired by a quote, a trade or
a break; gaps in the stream that someone announces (a broken socket) and gaps nobody
does (the end of the UTC day, a session that failed); failed writes that are tried
again by the next message; events of one millisecond; a footprint that is judged
later than it closed, after the trades of the message that completed it; two copies of
one thing that the same messages change (a wall and the book, a guard and the
excursion). `PROJECT.json` lists each at its line under "hazards", with the properties
that would catch it.

## 2. The modules

| module | stands for | composed with |
|---|---|---|
| `Journal` | row types and queries of `signals`, `paper_orders`, `positions` | used by `PaperExecutor` |
| `PaperExecutor` | the executor, its journal rows and the application's calls into it | |
| `TradeLifecycle` | abstract specification: what a signal may go through, one at a time | refined by `PaperExecutor` |
| `PathTracker` | `IncrementalSignalPath` as pure operators | used by `SignalPath` |
| `SignalPath` | trackers, event table, stream and sessions | |
| `LevelStore` | detection, merging, breaks and the levels table of one symbol, timeframe and side | |
| `ReactionEpisodes` | level episodes and the executable lanes of strategy v2, with the footprints, bars and messages that drive them | |
| `DepthWalls` | one price of the order book, the DOM tracker with its clock, the application's copy of a wall and the density lane | |
| `ProfitProtection` | the guard of one position, its rows, restarts and days | |
| `MCPaperExecutor`, `MCSignalPath`, `MCLevelStore`, `MCReactionEpisodes`, `MCDepthWalls`, `MCProfitProtection` | instances for TLC | |
| `PaperExecutorProofs` | type correctness, one slot, memory is durable | |
| `PaperLifecycleProofs` | the refinement of `TradeLifecycle`, agreement of the tables | extends the former |
| `PaperAccountProofs` | fills behind the queue, books, excursions, the daily limit | extends `PaperExecutorProofs` |
| `SignalPathProofs` | verdicts and ends of signal paths, what start-up gives up | |
| `LevelStoreProofs` | broken levels stay broken, nothing else ends a level, what a restart finds | |
| `ProfitProtectionProofs` | what shadow exits promise | |
| `DepthWallsProofs` | tracker, copy, book and lane agree | |
| `ReactionEpisodesProofs` | one signal per episode, cooldown, evidence | |

### PaperExecutor

Memory is `pending`, `position` and `equity`; the journal is `signals`, `orders` and
`positions`, kept by every crash. One action is one handler with every commit it
makes: `Decide` is `_record_decision` with the submission inside it, `OnQuote` is
`on_quote` (expiry, arrival, requeueing, marking, stop, target, cancellation of the
remainder, close), `OnTrade` is `on_trade` with `_fill`, `StreamBreak` is the
`cancel_pending` of a disconnect or a book error, `Restart` is the constructor of
`PaperApp` (reconcile, then restore), `Tick` the clock, which picks the day's universe
(`listed`) anew at each midnight. An exit is journalled after slippage (`Slipped`,
`paper.py:442`), the excursion from the raw quote.

`Crash` kills between handlers. Inside one, the Torn actions stop it at each of its writes:
`TornDecide` and `TornSubmit` (the signal's row, the entry's row), `TornCancel` (the signal
of a cancelled entry), `TornAdvance` and `TornQuote` (the writes of `on_quote`),
`TornClose` (between the position's row and its signal's), `TornConsume` and `TornFill` (the
writes of `on_trade`). Each stop is one of two (`Interrupted`): a kill, which takes the memory
with it (`Killed`), or a refused write (`Survives`), after which memory stays as far as the
handler had changed it and `failed` remembers the signal. `run_forever` then sleeps fifteen
seconds, longer than the latency and life of an entry together
(`src/src/paper_strategy_v2.json:115-116`), so the next message finds that entry expired
(`Receives`). What later messages make of a memory without its row is in the handlers
themselves: `QuoteRaises` (an entry without a row can be neither advanced nor cancelled) and
`RowOpen` (a position whose row is closed raises at every exit). The constant `Torn` says which
handlers an instance lets stop. `tape` is a history variable: what a correct queue simulation
must have seen before an entry's lots fill.

Abstractions: prices and quantities are integers (ticks and lots); fees are one cost per lot
and slippage a constant number of ticks, where the code takes a fraction of the price; sizing is
an arbitrary number of lots within `MaxLots`; strategy features are dropped, a decision is any
signal with any admissible quote. One stop is left out: an SQLite error inside the cancellation that
a disconnect asks for is suppressed (`stream.py:87`), and the stream comes back after one second
instead of fifteen.

### SignalPath

`paths` is the dictionary `PaperApp.signal_paths`, `events` the table
`signal_path_events`. `Start`, `Trade`, `Disconnect` and `Restart` are the four
methods of `app.py:1252-1385`. The iteration order of the dictionary is left open,
so a handler stopped halfway dealt with an arbitrary part of its paths. It can be
stopped in three ways: the process is killed (`TornTrade`, `TornDisconnect`), SQLite
fails (`StartFails`, `TradeFails`, `DisconnectFails`; memory keeps what the loop had
already done), or the tracker raises ValueError (`TradeRaises`, which `stream.py:86-93`
turns into a disconnect). The stream is "live", "silent" (the socket is dead but the
ping timeout has not fired) or "closed"; `Rollover` is the end of a session, which
announces nothing to the paths. Two history variables make the verdicts
checkable: `market` (what the market touched first within the horizon, heard or not)
and `unheard` (paths carried across an unannounced gap).

Abstractions: excursions and the offline `evaluate` are left out; a millisecond is a
tick; the clock never steps back.

### LevelStore

`levels` is `SymbolState.levels`, `table` the journal's `levels` rows, both as functions
from identities to "no such level", active, or the time of the break. An identity is a
pivot's or that of a set of pivots (`shadow_levels.py:407` and `:491` hash just that).
`Refreshed` is `_refresh_digash_levels` followed by `_refresh_level_lifecycle`: mark what
the bars break (`Breaking`, `Marked`), detect (`Detected`: tombstones `Consumed`,
single pivots that broke, groups of the others), upsert, keep, look for breaks again.
`Bar` is the trade that completes a bar, `MissedBar` a bar that the session does not
get (no trade, a feed that was down, a bucket the builder suppresses after
`quarantine_first_bucket`), `Bootstrap` a session's start with levels from the table and
bars from the exchange, `TornBar` and `TornBootstrap` a stop between the commits of a
refresh, `Stop` the end of a session. `closes` is the market itself.

Abstractions: a bar is its close and an extremum is given by its price and bar, so what
makes a bar an extremum (`shadow_levels.py:193-208`) and touch counts are left out;
prices are ticks and tolerance is absolute; a bar built from trades and the exchange's own
bar of the same minute agree; the timeframe is the fastest one (1m), whose levels
break by their own bars alone; lows mirror highs, except that grouping starts at
the lowest price for both.

### ReactionEpisodes

`approach`, `consumed`, `attempted`, `restored` and `cooldownUntil` are the dictionaries of
`StrategyV2`; `Observed` is `observe_price` on one episode, `Evaluate` is `evaluate`
with `_resolve_candidate` and `_trigger` in it, `Refreshed` is `_refresh_level_approaches`.
Around them is the part of `handle_message` that decides *when* a footprint is
evaluated: `Delta` and `Snapshot` are book messages (the midpoint is observed first),
`TradeMessage`, `NextTrade`, `EvaluateDeferred` and `EndMessage` are one message of public
trades: the footprint takes all of it, each trade goes through bars, levels and
episodes, then the footprint that waited for its minute is evaluated, then the one
that this message completed. Nothing else comes between these steps (`phase`).
`Complete` is `_complete_footprint`: an incomplete footprint ends the episodes, one that
closes a minute waits in `boundary` until `BarBuilder` has made that minute's bar.
`NewSession` makes evaluators anew, after the end of a day or a restart, with the attempts that
were read when the process began. `excused` and `evidenceFrom` are history: levels that
departed or lost continuity since they signalled, and the time since when what happened may be
evidence for a signal: the last interruption of data, as a rule.

Abstractions: highs only (lanes of one side share a cooldown, the other side has its own);
whether orderflow, risk, book age and obstacles let a reaction pass is arbitrary at each
evaluation; the catalog changes arbitrarily at the end of a minute (what it really does is
`LevelStore`); a footprint is its highest and last price and whether it is complete. In the code a
message of a foreign symbol may also complete this symbol's footprint, whose clock is
shared; here only the symbol's own messages do, a book message or a trade of any price
standing for the foreign one.

### DepthWalls

`book` is `Book` at one price, `dom` the tracker's `_SymbolState` and `clock` its own
`FeedClock`, `wall` the application's `density_walls` entry, `touched` the bars that
`first_approach` looks at. `Snapshot`, `Delta` and `Trade` are messages of the symbol with
everything they do: book, footprint, tracker, the copy of the wall, the evaluation of a
completed footprint. `Observing` is `FeedClock.observe`, `Updated` and `Announces` are
`_event` and `_persistent_events`, `Followed` and `Placed` are `_update_density_walls`,
`Judge` is `_evaluate_shadow` with `density_bounce_v1` in it. `waiting` is the footprint that waits for
its minute's bar. `stood` is history: since when every message has shown a wall.

Abstractions: the rest of the book appears as the threshold a wall has to reach and as
whether a price is inside the visible range, both inputs of a message; a bar is away from
the wall, touches it, or touches and reclaims it; gates of readiness other than connection,
snapshot and warm-up may let an evaluation pass or not. The tracker also drops a price that is pushed out of its best fifty
(`orderflow.py:674`), which the book does not; here a price that is followed stays, as it does for
a feed of fifty levels that removes what leaves them. A foreign symbol's message, which may complete
this symbol's footprint before its own next message would, is left out.

### ProfitProtection

`guard` is the object, `mfe` the excursion of the positions table, `events` the rows of
`profit_shadow_events`. `Quote` is a book message: the guard, the executor's excursion or close,
the rows a close writes, in this order; `QuoteKilled` is the same, killed after any of its commits;
`Footprint` is a completed footprint; `NewDay` may leave the symbol out of the universe.
`Met` is the guard a quote finds: the one at hand or one made from the excursion and the latest
rows, where `Latest` cuts them at the limit of `profit_shadow_history`. `best` and `cut` are
history.

Abstractions: results are per unit and after costs; whether a footprint is adverse is an input.
A kill in the message that opens the position, before the guard's first row, is left out, and so
is an SQLite error that the process survives: what is shown here is about kills.

## 3. The runs

| run | what it asks | result |
|---|---|---|
| `paper_executor` | two signals, all handlers, kills and refused writes in the decision, the cancellation and the quote, universes that change: types, tables agree, no trigger left hanging, every entry settles | holds |
| `paper_executor_torn` | the same with `_close` and `on_trade` stopped halfway as well: one slot, memory is what a restart would rebuild, queue respected, books exact, exits inside excursions, no trade past the daily limit, the lifecycle | holds |
| `missed_are_non_trades` | may a signal with an open position be recorded MISSED? | **yes**: finding 1 |
| `signal_path` | two paths, every fault: verdicts heard are true, one end, start-up closes only open paths, every path ends | holds |
| `signal_path_rollover` | is every verdict on record what the market did first? | **no**: finding 2 |
| `level_store` | two pivots alone, merged, and leaving the history; missed bars, ended sessions, torn refreshes: breaks stand, happened, and are not undone by regrouping; only breaks and the history limit end a level | holds |
| `level_store_restart` | does a restart over the same bars find the levels in use? | **no**: finding 3 |
| `reaction_episodes` | one level, every order of trades, books, snapshots, gaps, catalog changes, a disconnect or a session: one signal per episode, no second one while price lingers, no evidence across an interruption | holds |
| `episodes_ttl` | is an executable signal given within the entry's time to live? | **no**: finding 4 |
| `depth_walls` | one price, every order of book messages and trades, silences, two breaks: announced walls stood, the copy is what the book holds, no wall from before readiness, one bounce | holds |
| `dom_reconnect` | does the tracker follow a usable book? | **no**: finding 5 |
| `profit_protection` | a position under quotes, footprints, kills inside and between messages, days: peak is excursion, exits give back, once, every mode settles | holds |

**Bounds and why they are enough.** Two signals are needed for the slot to be
contended and for a handler over several paths to stop between them; more add only
permutations, because signals interact through the slot and through the symbol
alone. The executor runs use a long on one symbol and a short on another (both
sign conventions, and a trade of a foreign symbol), two lots (a partial and a
full fill), a queue of at most two lots ahead with one displayed at a time, four
prices (stop, entry, target, beyond), latency 1 and a life of 1 after arrival (before arrival,
working, expired), a horizon of three ticks, slippage and cost of one and a
loss limit of two (a stop-out reaches it; one lot that leaves at its target loses one after costs
and does not), one kill or refused write. Days have two ticks in `paper_executor` (the universe changes
under an entry in flight) and three in `paper_executor_torn` (two trades may close on one day, and a
position still crosses midnight). Of all the stops, only the one inside the cancellation of an
unfilled entry by an exit (`RemainderStops`) takes a second stop, because only a fill that stopped
before leaves a position beside an unfilled entry; the theorems cover it, and TLC finds
no invariant violated with two stops when days are as long, the queue holds one and only `on_quote`
and `on_trade` are stopped (527 672 states, too slow to keep as a run). The path run has a horizon of one tick and four ticks (a path
can begin, be carried over a rollover, time out and be reported again after a failed
write), two faults (a failed write followed by a kill), and prices at a boundary of
both sides at once. Its violation run needs a longer horizon so that a path
survives the gap. The level run has two pivots within tolerance (alone, merged, one
gone), windows of three bars and a history of five (a level can break while its
pivots are in sight and after), two confirming closes (a run can be interrupted
by a missing bar; the protocol asks for one on a level's own timeframe and two on the
fast one), three closes (inside, between the two levels, beyond both) and seven bars.

The episode run has one level (levels meet only in the choice of a lane's best
reaction, which is arbitrary), a price in the zone, one beyond the level and one beyond the
departure threshold, bars of one tick and minutes of two (a footprint waits and does
not), a warm-up of one, a cooldown of two and a clock of four (the first
executable signal comes at three), one disconnect or new session. That clock holds no second
signal of a lane after a cooldown, so `LiveSignalsAreCooled` is not asked of the run: it would hold
for want of time. It is proved for every clock instead. TLC also finds no violation with two
prices, a clock of six and no fault, where a snapshot completes a footprint that waits and arms an
episode later; the theorems cover every clock. The wall run has sizes of none, half and whole,
thresholds either of them reaches, one tick each of persistence, book age, feed gap and
warm-up, a wall's life of two in a clock of three, two breaks (a reconnect during the warm-up
of another). The guard run has results at the stop, at a loss, at the activation, above it and
at the target, one footprint of baseline, a history of two rows (so that the limit
bites), seven messages, two kills and two breaks.

Deadlock checking is on in every run but `profit_protection`, whose messages, kills and breaks are
all bounded and which really stops when the position is closed; in the others the clock is
bounded, but reconnects, kills, messages or rollovers always remain.

**Fairness and why.** `PaperExecutor`: the clock runs, a killed process is restarted
(`src/compose.yaml:6`), and a symbol that stays listed keeps being quoted, weak fairness
each. The handler of a symbol's quotes is disabled on a day that does not list it, so nothing is
assumed of the symbols a later universe lacks (`app.py:189-216`), and `EntrySettles` says only that
an entry settles or its symbol is unlisted; an entry whose symbol left stays in the slot
until a disconnect or a book error of any symbol cancels it (a hazard in `PROJECT.json`).
`SignalPath`: the clock, the reconnect loop (`stream.py:56`), the ping timeout that notices a dead socket, the restart, weak fairness each; strong fairness of the
trades of a listed symbol, because the stream may break again and again between two
trades but a liquid symbol keeps trading whenever it is heard. Nothing is assumed
about kills, failures or rollovers. The other modules state safety only: that a level
signals or a wall is announced in the end depends on the market, and that a footprint's warm-up
ends on how often the feed has gaps.

**Mutants.** Each property of a passing run has a mutant: a plausible bug in one
mapped definition (written beside it as "A mutant") under which TLC finds the
property violated.

## 4. What is proved

By TLAPS, for every value of the constants that satisfies the named assumptions
(`JournalAssumption`, `ExecutorAssumption`, `TrackerAssumption`, `SignalPathAssumption`, `LevelAssumption`, `ProtectionAssumption`, `DepthAssumption`, `EpisodesAssumption`: prices and quantities are
naturals, a stop lies on the losing side of its target, `None` is no record):

- `PaperExecutorProofs`: `TypeCorrect`, `OneSlot` (`SingleSlot`), `MemoryIsDurable`
  (`DurableMemory`), for every set of torn handlers. The inductive invariant is
  `IInv == Sound /\ (Mirrored \/ Astray)`. `Mirrored` says that memory is the rows, column for
  column, except for the last display. It is needed because the guard of a submission reads memory
  only: that no second live row can appear follows from memory being the image of the rows, not from
  a look at them. A refused write breaks it, for the signal it was about (`Astray`); `Sound` is what
  still holds then, however far memory is ahead: a live row is always that of the
  entry or position in memory (`SlotMemory`), the slot is single, and the three rows of a
  signal say no more against each other than a stopped handler can make them (`RowsFollowSignals`).
- `PaperLifecycleProofs`: `Implements`, every step, torn handlers included, maps to a
  step or a stutter of `TradeLifecycle`; the mapping reads the journal alone, which is
  why neither a kill nor a memory that is ahead matters. Every handler, whole or stopped, is an
  instance of one of a few steps (`Settling`, `Closing`, `Announces`, a fill), and
  `RowedOnceActive` says that an entry that arrived has a row. `TablesInAgreement`
  (`TablesAgree`, if neither `on_trade` nor `_close` is stopped halfway), `NoTriggerOrphaned`
  (`NoOrphanedTrigger`) and `NonTradesWithoutTornFill` (`MissedAreNonTrades`), both if `on_trade` is
  not. `TablesInv` tells of each signal, also while the process is down, what its three rows may say
  together (`Told`). The hypotheses are about the constant `Torn`: kills and refused writes in the
  decision, in the cancellation and in a quote, and kills between handlers, are covered;
  `missed_are_non_trades` tears `_fill` and refutes the third statement, so the torn `_fill` is all there is to
  finding 1.
- `PaperAccountProofs`, for every set of torn handlers: `QueueRespected` (`FillsBehindQueue`), from `IInv`
  and an account that relates the tape, the queue ahead and the lots filled, in memory and in the row;
  `EquityBooked` (`EquityIsBooked`), `ExcursionsCover` (`ExitWithinExcursion`) and `DailyLimitHolds`
  (`NoTradePastDailyLimit`), from `AccountInv`: equity is booked unless memory holds a position whose row
  is closed (`Stranded`), and while the slot is taken the day's losses are short of the limit, because that
  is when it was taken and nothing closes in between. The books and the limit sum over sets of rows: that a
  sum over any finite set gains exactly the row that joins it is proved by a smallest
  counterexample (`WFMin` takes a set, where an induction rule takes an operator).
- `SignalPathProofs`: `PathsTyped`, `HeardVerdicts` (`HeardVerdictsAreTrue`), `EndsOnce`
  (`OneEnd`), `OpenPathsGivenUp` (`RestartEndsOpenPaths`). `PathInv` says that memory agrees with the record (`Agree`), that both
  agree with the market unless the path crossed an unannounced gap (`SoundPaths`,
  `SoundEvents`), and that an open path nobody warned about is heard and untouched
  (`Listening`). Every reporting handler, complete, failed or torn, is an instance of
  one step, `Reports(after, done)`: it made `after` of its paths and reported `done`.
  `RestartInv` dates the record: a beginning is written at its tick and no end before it, so
  the start-up query, which takes the latest event, can be wrong about a path of one
  tick only; and a path once given up is followed by nobody.
- `LevelStoreProofs`: `LevelsTyped`, `BrokenStayOut` (`NoRevival`), `BreaksAbsorb`
  (`BreaksStand`), `BreaksAreReal` (`BreaksHappened`), `ActiveUnbroken`
  (`ActiveAreUnbroken`), `LevelsEndForAReason` (`NothingElseEndsALevel`): every property of
  the level run. `LevelInv` adds that memory and table know the same breaks while a
  session runs. The heart is `Refreshing`, about one refresh: its second look for breaks
  finds none, since a level breaks no earlier than its lowest pivot would, and pivots that
  break are set aside before levels are made; so memory is what was detected, and the
  upsert moves no break. The last property also depends on how pivots are grouped:
  `GroupsMerge` shows that the equation of the grouping has a solution and
  `GroupsCover` that its groups cover the pivots they are made of, by smallest
  counterexamples again, and `SeenInv` says that the window of a usable level was seen
  and that bars never get fewer during a session. `RestartFindsUnlessStale` is the
  complement of finding 3: detecting from what was detected changes nothing
  (`DetectedAgain`), so a restart over the same bars finds exactly the levels in use
  unless the table has an active row that those bars break.

- `ProfitProtectionProofs`: `ProtectionTyped`, `GuardIsExcursion` (`GuardMatchesExcursion`),
  `GivesBack` (`ExitsGiveBack`), `ModesSettle` (`EveryModeSettles`), `ExitsOnce`
  (`ExitsOnceInHistory`): every property of the run, for every history limit. The
  invariants are `ProtectionInv`, where `Sound` says of a guard that its peak is the excursion, its
  floor no higher than the best quote allows and each mode it holds for decided has an
  exit among the rows, and `RepeatInv`, where `Remembers` says that an exit a guard does not hold for
  decided has as many later rows as the history returns. They are needed because a guard made
  after a restart has seen no quote: what it may do follows from the two tables alone.
  `QuoteFacts` and `MetRemembers` say that it makes no difference which guard a quote meets.

- `DepthWallsProofs`: `WallsTyped`, `WallsStood` (`AnnouncedStood`), `CopyMirrorsBook` (`WallMirrorsBook`),
  `SeedsAreReady` (`NoSeedBeforeReady`), `BouncesOnce` (`OneBouncePerWall`): every property of
  the run. `WallInv` says that on its connection a valid tracker is in step with a usable book, in size and
  in time, and its candidate began no earlier than the wall stood (`InStep`), and that the
  application has a copy only while such a tracker is past its reconnect warm-up (`Copied`). The
  latter is needed because a tracker that is emptied gives no more events while the book goes on
  changing: no copy may exist then. `ApproachInv` says that a bounce has left a touch that closed before every
  footprint still to be judged, waiting ones included. `TrackerKeepsUp` and `TrackerFollows` are the
  complement of finding 5: past the reconnect warm-up a snapshot restores the tracker and nothing but
  a break takes the book from it again; on a first connection, or with no warm-up, it always
  follows a usable book.

- `ReactionEpisodesProofs`: `EpisodesTyped`, `SignalsOnce` (`OneSignalPerEpisode`), `SpentStays`
  (`SpentUntilExcused`), `EvidenceContinues` (`EvidenceIsContinuous`, if `Warmup > 0`), `SignalsCool`
  (`LiveSignalsAreCooled`, if `Cooldown <= Warmup + 1`): every property of the run, and the cooldown, for which
  the run's clock is too short. The protocol has a
  warm-up of five minutes and a cooldown of one (`paper_strategy_v2.json:118`, `:130`); the code itself checks
  neither, so the two conditions are hypotheses. `Queued` says that bars wait in the order of
  their closes, behind every signal; with it `Held` says that an episode began after every signal of
  its level. Both are needed because the attempts that would stop a second signal are forgotten by a new
  session. `Judged` says once what an evaluation, a wait or a reset leaves, and every message is an
  instance of it. `EvidenceInv` extends the claim from episodes to the bars that may still arm one, and
  `Cooling` says that a forgotten cooldown is one whose signal a later warm-up outlasts.

**Only model-checked.** The liveness properties `EntrySettles` and `EveryPathEnds`: they rest
on fairness, which the prover cannot reason about. Every invariant and action property
of the passing runs, and the refinement, is a theorem. What the violation runs ask is refuted;
for three of the five a theorem says when the statement does hold
(`NonTradesWithoutTornFill`, `RestartFindsUnlessStale`, `TrackerKeepsUp`), and `HeardVerdicts` is
what `signal_path_rollover` asks with the paths carried across an unheard gap left out. The prover
accepts no induction rule with an operator in it; where a recursive definition or a
fold had to be reasoned about, a smallest counterexample takes its place.

## 5. Findings

1. `_fill` commits the position before the entry (`paper.py:387`); a stop in between, by a kill or by
   a refused write, and the expiry of the entry that still looks unfilled turn the signal of an open position into MISSED, which
   `src/README.md:92` calls a non-trade.
2. The end of a session announces no gap (`app.py:345`); a signal path is carried across
   it and may be given a verdict with full coverage that the market contradicts.
3. Levels that were regrouped stay active in the table (`app.py:291`, `:418-426`). A restart
   loads them, finds breaks that broke no level in use, and their tombstones take
   pivots away from levels that are unbroken.
4. A footprint that waits for its minute's bar is evaluated when the next trade completes that
   bar, however late (`app.py:534`); the comment at `app.py:617` and
   `src/docs/STRATEGY_V2.md:126` promise that the time to live is enforced, and for the executable
   lanes nothing enforces it.
5. While the feed clock gives "reconnect_warmup" as its reason, each message empties the tracker
   again (`orderflow.py:602`): the snapshot of a new connection is lost with its
   first delta, and the tracker stays invalid beside a usable book until another snapshot.

## 6. Known divergences

Noticed while modelling and described in the models' comments or properties, without a run of their own:

- A message's trades are observed before the bar they complete is evaluated
  (`app.py:506-540`), so a level that is first pierced *after* the bar closed counts as crossed for it
  and the reclaim lane may signal (`strategy_v2.py:764`); `src/docs/STRATEGY_V2.md:162` has the
  price pierce the level and the bar close back across it.
- The last displayed size is in no column: a restored entry compares the next display with
  its queue (`paper.py:168`) and may queue behind less than the running one would have. `FillsBehindQueue`
  holds with the queue it found.
- Start-up orders events of one millisecond by the text of their identity
  (`app.py:1363-1366`) and may give a path stopped in the millisecond it began a second end, UNKNOWN.
  `RestartEndsOpenPaths` states this exception.
- A snapshot ends all episodes and drops the bar that waits (`app.py:478-482`), and may in the same message
  complete a clean footprint that then waits for its minute. When that is evaluated, after the warm-up, it arms
  an episode at its close (`strategy_v2.py:706-716`), before the snapshot. `src/docs/STRATEGY_V2.md:9` has an episode end on a
  data-continuity reset. It takes a symbol without a trade through the whole warm-up. `evidenceFrom` states this exception.
- `src/docs/STRATEGY_V2.md:170-171` has a consumed episode rearm only after price moves beyond the 60 bp
  departure. The code also forgets what was consumed at every interruption of data
  (`strategy_v2.py:471`) and when the level leaves the catalog, even to return
  (`strategy_v2.py:653`), and a new session's evaluators start with nothing consumed
  (`app.py:297-316`): a level may then signal again without a departure. `SpentUntilExcused` excuses exactly
  these and says so.
- Attempts made since the process began are not known to the next session's evaluators (`app.py:126`, `:315`);
  the cooldown holds across sessions all the same, because a new session needs a warm-up
  and new episodes (`LiveSignalsAreCooled`, proved and not model-checked; `OneSignalPerEpisode`).
- A stop-out's recorded exit is slipped (`paper.py:442`) while `mae_bp` comes from the raw quote
  (`paper.py:271-274`): the exit lies outside the recorded excursion by the slippage.
  `ExitWithinExcursion` takes the slippage off again.
- `submit` sets the entry before its row (`paper.py:215-216`). If SQLite refuses the row, every later quote of
  that symbol raises in `update_paper_order` (`storage.py:424`), and so does the cancellation that answers it
  (`QuoteRaises`): until the process is restarted each connection breaks at its first quote of the symbol,
  and the slot stays taken. If SQLite refuses the signal's row in `_close` (`paper.py:457`), the position stays in memory
  beside a closed row and each quote beyond an exit raises (`storage.py:450`, `RowOpen`). `DurableMemory` and `EquityIsBooked`
  name the state, `Astray`, and hold outside it.
- An empty selection is no universe: `_run_daily_session` raises (`app.py:216`) and is tried again (`Universes`).
- `DomTracker._event` ends a candidate without forgetting that it was announced: a wall that dips
  below the threshold by an event and returns is not announced again until a reset (`Updated`).
- `profit_shadow_history` returns 100 rows (`storage.py:483`); an exit older than those is
  forgotten by a restart and recorded twice. `ExitsOnceInHistory` states the exact condition.
- A process killed between a close and the rows of the variants it ends never writes them
  (`EveryModeSettles`, `cut`).
- The density lane counts a touch at any time of a bar, also before the wall was seen in it
  (`FirstApproach` compares bars).

## 7. The plan

In order; each item with its runs, mutants and, where marked (P), proofs.

1. (P) Abstract specifications of the signal path (begun, then one end) and of the guard of
   a position (armed, then one exit per mode), and that `SignalPath` and `ProfitProtection`
   implement them, as `TradeLifecycle` is implemented by the executor.
2. (P) The complement of finding 4: when a signal of `ReactionEpisodes` is in time.
3. `Session`: what becomes of a position whose symbol leaves the universe (`listed` already
   changes under the executor), composed with the guard that rides on it.
4. `Notifier`: limits of the queue.

## 8. What is not modelled, and why

What makes a bar an extremum, imbalance and refill evidence, universe ranking, metrics and the arithmetic of
features and shadow research are functions over floating-point series; their unit tests are the
right tool, and no step of the modelled state machines reads more of them than an
arbitrary choice already allows. The observational lanes of strategy v2 keep set-ups of
their own, the retest and cascade lanes of shadow research are evaluated anew at each bar; none of
them reaches the executor. The REST client, the web server, the dashboard, the
command line and the notifier are input and output. Wall clocks that step back are not modelled
(hazard at `signal_path.py:226`).
