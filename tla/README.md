# Formal model of the trading alert system

TLA+ modules for the worker of the alert system (package `worker/`), the API's
writes with their authentication and rate limit, and the startup of the
containers; the TLC configurations that check them on small instances, and TLAPS
proofs of the main safety properties for every instance. Paths below are relative to `src/`.

    tlc -workers 2 -config DeliveryConcurrent.cfg MCDelivery.tla    # one run
    tlapm Delivery_proofs.tla                                       # one proof module

## 1. The system

One or more *worker* processes read 15-minute candles from Hyperliquid, store
them in Postgres, evaluate alert rules on them, and post alerts to Discord or to
a generic webhook. A FastAPI process manages the rules and shows alerts and
candles. Redis counts requests. Postgres is the only state that survives.

```
 exchange --ws/REST--> HyperliquidClient --candle--> main_loop --> save_candle, update_cursor
                       (_last_candle_ts)                 |
                                                         v
 API --writes--> rules                          RuleEvaluator --insert--> alerts (pending)
        |                                                |                    ^  |
        |                                                v                    |  v
        +------ delete cascades ------> AlertDispatcher --update--> alerts, alert_delivery_attempts
                                                                              ^
                                        retry_scheduler --poll, update--------+
```

A worker is one process with two asyncio tasks, `main_loop` and
`retry_scheduler`, each on a database session of its own. They interleave at
every `await`; workers interleave everywhere.

| Part | Code | State | Operations | What makes it correct |
|---|---|---|---|---|
| Ingestion | `worker/ingest/hyperliquid.py` | `_last_candle_ts`, the socket | `seed_last_seen`, `_stream_ws`, `_stream_poll`, `backfill`, `fetch_candles`, `fetch_latest_candle` | candles in order, once, closed, without gaps; reconnects in the end |
| Cursor | `worker/ingest/cursor.py` | table `worker_cursors` | `get_all_cursors`, `update_cursor` | never ahead of what was processed |
| Main loop | `worker/main.py` | rules read at startup, its session | `save_candle`, `load_active_rules`, `main_loop` | stores before it evaluates; an error costs one rule, not the worker |
| Rule engine | `worker/evaluate/engine.py` | table `alerts` | `evaluate`, `_is_in_cooldown`, `_create_alert` | one alert per rule and window; cooldown |
| Indicators, rules | `worker/evaluate/indicators.py`, `rules/*.py` | none (read table `candles`) | EMA, MACD, RSI, Bollinger; six rule classes | agree with their definitions; fire when they can |
| Dispatcher | `worker/dispatch/dispatcher.py` | `alerts`, `alert_delivery_attempts` | `dispatch` | truthful verdict and audit trail |
| Retry scheduler | `worker/dispatch/retry.py` | the same | `process_pending_alerts`, `retry_scheduler` | nothing lost, nothing given up early, at most the maximum of attempts |
| Senders | `worker/dispatch/discord.py`, `webhook.py` | none | one POST each | success only after a 2xx |
| Rules API | `api/routes/rules.py`, `api/models/rule.py` | table `rules` | create, update, delete, list, get | a deletion takes alerts and audit rows along |
| Read API | `api/routes/alerts.py`, `candles.py`, `health.py` | none | queries | - |
| Access | `api/middleware/auth.py`, `api/dependencies.py`, `db/models/api_key.py`, `scripts/create_api_key.py` | table `api_keys` | authenticate a write | the documented keys work, and no other |
| Rate limiter | `api/ratelimit.py` | Redis counters | `check_rate_limit` | at most the limit per window; open when Redis is down |
| Schema, startup | `db/`, `entrypoint_*.sh`, `wait_for_db.py`, `docker-compose.yml` | the schema | migrate, wait, start | the worker starts on a complete schema |

Hard behaviour: two tasks per worker and several workers on one table without
locks; copies of rows kept in sessions while others change them; commits that
fail or whose answer is lost; crashes between any two commits; connections and
REST calls that fail; queued messages that are judged late; rules deleted or
edited meanwhile. `PROJECT.json` lists each hazard at its line.

## 2. Modules

| Module | Models | Kind |
|---|---|---|
| `Delivery` | the insert of an alert, `dispatch`, the retry scheduler, rule edits and deletions, crashes | component |
| `DeliveryRounds` | `Delivery` with a count of all rounds that were begun | history |
| `DeliveryUrls` | `DeliveryRounds` with a record of the polls that began before the last `PUT` | history |
| `Outbox` | what delivery promises: an at-least-once outbox | abstract specification |
| `Ingest` | the candle stream in both modes, cursor, store, evaluation order, crashes | component |
| `Evaluate` | the rules read at startup, cooldown, insert, swallowed and handled errors, the rules API | component |
| `Indicators` | the six rule classes and their indicators, `validate_config` | algorithms, on a growing table |
| `Access` | the two checks of a key and the rate limiter | component |
| `Startup` | migrations, the entrypoints, `wait_for_db.py`, restarts | component |
| `Rationals` | the arithmetic of the indicators, exact | operators |
| `Delivery_proofs`, `DeliveryRounds_proofs`, `Ingest_proofs`, `Evaluate_proofs`, `Access_proofs`, `Startup_proofs`, `Indicators_proofs` | theorems about these modules | proofs |
| `Rationals_proofs` | lemmas: induction and recursive functions, the arithmetic of `Rationals` | proofs |
| `MC...` | instances of the modules | model checking |

Three modules share the main loop and cut it at different places. `Ingest` keeps
every step up to the rules and takes their evaluation as one; `Evaluate` takes
`save_candle` and `update_cursor` as one and keeps the steps of `evaluate`;
`Delivery` begins at the insert of an alert.

### Delivery

An element of `Alerts` is the identity that `uq_alert_window` gives an alert,
a rule and a one-minute window; an alert that a candle can raise may be raised at
any time by any idle main loop. Every worker has two program counters, `mainPc`
and `retryPc`, and the local copies its two sessions hold: `mStatus` and
`mAttempts` are the columns `refresh` loaded, `batchAttempts` and `batchRecent`
those the poll loaded, `rRule` and `rChannels` the rule the scheduler's session
keeps. A step ends at each `await` where another task can intervene:

| Code | Actions |
|---|---|
| `_create_alert`: INSERT and commit; `refresh` | `InsertAlert`; `RefreshAlert` |
| `dispatch`: query of the rule; each POST; commit | `LoadRule`; `Post`; `CommitDispatch`, `CommitDispatchFails`, `UnrecordedPost` |
| errors that end in the handler of `main_loop` | `MainQueryFails`, `MainIdle` |
| `process_pending_alerts`: SELECT; `continue`; query of the rule; POST; commit | `Poll`; `SkipBackedOff`; `StartRetry`; `RetryPost`; `CommitRetry` |
| a rule or row that is gone; other errors | `RetryRowGone`; `RetryCallFails` |
| time; restart; `PUT` and `DELETE /rules/{id}` | `BackoffElapses`; `Crash`; `UpdateRule`, `DeleteRule` |

Details that decide the properties, and that the model keeps: an UPDATE holds
only the columns whose value differs from the loaded one, so `dispatch` writing
"pending" over a loaded "pending" does not touch the status (`DispatchVerdict`);
`dispatch` writes the count it loaded plus one; the commit after a discord
success is inside the `try` block, so its failure leads to the generic webhook
(`UnrecordedPost`); `scalar_one_or_none` returns the rule the session holds
(`RetryUrls`); a row that was deleted makes the flush fail (`RetryRowGone`);
a commit that raised may have been applied (`applied`); a recipient may get a POST
that the sender counts as failed (`Send`).

`reached` (alerts some recipient got) and `rounds` (delivery rounds whose commit
was applied) are history variables. What recipients see is more than `rounds`: a
round whose commit fails, or is cut off by a crash, has been posted and leaves
nothing in the tables. `DeliveryRounds` counts it too: its `sent` grows with the first
POST of every round, by `dispatch` or by a retry, whatever becomes of it.
`DeliveryUrls` adds `overtaken`, the workers whose poll began before the last change
of webhook URLs. Both add a conjunct to every step and restrain none.

`Outbox` has five variables and knows no workers, sessions or polls. `Delivery`
implements it under `raised <- Raised, live <- rows, verdict <- status`, with
`reached` and `rounds` for themselves.

### Ingest

One worker. Time counts intervals: candle k of a symbol is in progress while
`now = k - 1` and closed from `now = k` on. A candle's values matter only as far
as they are final or partial (`final`). `mode` is the `ingest_mode` the worker was
started with. `lossy` records that a REST call failed or that the worker polled. `queue` is what the socket has received
and `recv` has not returned; `cur` the candle `main_loop` works on; `back` where
the generator `stream()` resumes after the `yield`.

| Code | Actions |
|---|---|
| startup: `get_all_cursors`, `seed_last_seen` | `Start` |
| connect, subscribe | `Connect` |
| backfill loop, `fetch_candles` | `Backfill`, `BackfillFails`, `EmitMissed`, `BackfillDone` |
| `recv` and its tests; heartbeat, `ConnectionClosed` | `ReadMessage` (`Closed`, `Newer`); `Reconnect` |
| `_stream_poll`, `fetch_latest_candle` | `PollSymbol`, `PollFails`, `NextPoll` |
| `save_candle`; `update_cursor`; the loop over the rules | `SaveCandle`; `UpdateCursor`; `EvaluateRules` |
| restart | `Crash` |
| the exchange (external) | `CandlesClose`, `CandleUpdated`, `ConnectionLost` |

The exchange is modelled from what the client assumes of it: a snapshot lists
the candles that have closed and may list the one in progress; the socket sends
live updates, and the final candles when an interval ends, in any order of the
symbols.

### Evaluate

Workers with cursors of their own and the rules of one symbol. Candle k opens at
k - 1 and closes at k; whether a rule matches it is left open (that is
`Indicators`). `snap` is the list of dicts that `load_active_rules` made at
startup, `todo` the rules still to be evaluated on the candle `cur`, `failed` a
session in a failed transaction.

| Code | Actions |
|---|---|
| startup: `load_active_rules`, cursors, a fresh session | `Start` |
| `save_candle`, `update_cursor`; both raise on a failed session | `SaveCandle` |
| `_is_in_cooldown`; its query, or `timedelta(seconds=None)`, raises | `CheckCooldown`; `CooldownQueryFails` |
| the rule class: no match; a match, `_create_alert` | `NoMatch`; `Match` |
| `except Exception` in `evaluate`, without a rollback | `Swallowed`, `SwallowedAgain` |
| the handler of `main_loop`, with a rollback | `Handled` |
| restart; `POST`, `PUT`, `DELETE /rules` | `Crash`; `CreateRule`, `UpdateRule`, `DeleteRule` |

`Match` ends with a sound session because `dispatch`, which follows, commits or
raises to the handler. `lost` and the fields `by`, `inserted`, `cd` and `after` of
an alert are history.

### Indicators

A candle is added to the table and every rule is evaluated on it; `fired` holds the
rules that matched and their `trigger_value`. Numbers are exact rationals (`Rationals`), and a
band `mean + k * sd` is compared by squares, so that the statements are about the
formulas. In the code they hold up to the rounding of doubles, which can matter
where a value lies on a threshold exactly. `calculate_ema`, `calculate_macd` and
`calculate_rsi` keep their names; `calculate_bollinger_bands` is `ToBand`, which
asks for the side of one bar's close. Prices enter through `Prices(Newest(n, cs))`,
the `ORDER BY timestamp DESC LIMIT n` of the rule classes. That the class compares
`candle.close`, the candle being evaluated, with bands from the newest candles of
the table makes no difference with one worker (`Ingest`: candles come in order and
are stored before they are evaluated).

`validate_config` asks for keys and checks the enumerated values, no numbers
(`Accepted`). Periods of 0, with which the code divides by zero and the engine
swallows the error, and negative windows are therefore among the rules. Negative
periods and deviations are not (`NumbersAssumption`), and prices, thresholds and
deviations are whole numbers. `Rules` are those that `POST /rules` accepts
(`RulesAssumption`). `RuleUpdate` has no such validator, so that a `PUT` can store a
config that lacks keys or has other values. The rule class then raises, which `evaluate`
swallows on a sound session, or returns no match: `NoMatch` in `Evaluate`.

### Access

Requests are tasks of the API's process; each `await` of `dispatch` and
`check_rate_limit` ends a step.

| Code | Actions |
|---|---|
| no key, read-only verb, admin key | `Arrive` |
| the lookup of the hash; its errors (503) | `Lookup`; `LookupFails` |
| `_get_client`, reading the clock | `GetClient` |
| INCR; EXPIRE; either raises, executed or not | `Incr`; `Expire`; `CallRaises` |
| `call_next`, `verify_api_key` | `Route` |
| `create_api_key.py`; an operator | `CreateKey`; `DeactivateKey` |
| Redis stops, returns with or without its data; the API restarts | `RedisStops`, `RedisStarts`; `ApiRestarts` |

A window lasts `Window` seconds instead of 60 and its counter one second longer,
as in the code (61). `LimitOf` gives each key its limit, the admin key
`admin_rate_limit_per_minute`. Any time may pass between the reading of the clock
and the INCR, or between INCR and EXPIRE: the Redis client has no timeout
(ratelimit.py:45). `late` holds the requests whose INCR came more than a second after
the end of their window (`Overdue`).

### Startup

`db` is the committed schema, as a set of objects and a version; `tx` what the
transaction of alembic sees. Migrations are the sequences of their statements that
create types, tables and enum values; constraints and indexes belong to their
tables. Alembic runs them in one transaction (env.py:58-59), which the autocommit
block of 004 commits (`EnterAutocommit`). `base` is the version that a deployment
finds: any of the five.

| Code | Actions |
|---|---|
| `entrypoint_api.sh`: attempts to connect; `alembic upgrade head`; uvicorn | `ApiStart`, `ApiConnect`; `EnterAutocommit`, `Statement`, `Stamp`; `Serve` |
| `wait_for_db.py`; a worker whose tables are gone | `WorkerStart`, `WorkerCheck`; `WorkerFails` |
| `alembic downgrade` | `Downgrade` |
| failures | `PgStops`, `PgStarts`, `ApiCrashes`, `WorkerCrashes` |

`Downgrade` may run while the API serves, as docs/local-dev.md:58-59 runs it inside
its container, and in any other state of it but in the middle of its migrations.

## 3. What is checked

| Run | Instance | Shows |
|---|---|---|
| `DeliveryConcurrent` | 2 workers, 1 alert, 3 attempts, no or both webhooks, 1 fault | `TypeOK`, `DeliveredIsTrue`, `NoEarlyGiveUp`, `RaisedOnce`, refinement `OutboxSpec` |
| `DeliveryOneWorker` | 1 worker, batches of 2 alerts of one rule, a webhook that changes, 2 attempts, 1 fault | `RoundsOfOneWorker`: how many rounds recipients see; `AuditIsComplete`: which of them may lack an audit row; `UrlsAreCurrent`: polls heed a `PUT` that came before them, although the session keeps the rule |
| `DeliverySettled` | 1 worker, batches of 2 alerts of two rules, 2 attempts, 1 fault, fair | `PendingIsSettled`, also of an alert behind one whose rule was deleted |
| `DeliveryExactlyOnceDelivery` | violation | "Exactly-once delivery via a Postgres unique constraint" (README.md:25) is false of deliveries |
| `DeliveryFailedAfterMax` | violation, 1 attempt, no fault, fair | "After max attempts, alert marked `delivery_status='failed'`" (docs/runbook.md:84): an alert whose attempts `dispatch` used up stays pending for ever |
| `Ingest` | 2 symbols, 3 intervals, both modes, a queue of 1, 1 fault, fair | `TypeOK`, `EvaluatedInOrder`, `EvaluatedIsStored`, `StoredAsEvaluated`, `NoGapUnlessRestFails`, `CatchesUp` |
| `IngestStoredIsFinal` | violation, 1 symbol, WebSocket, no fault | "any candles closed" (hyperliquid.py:8-10, README.md:226): the backfill stores the candle in progress |
| `Evaluate` | 2 workers, 1 rule, cooldowns 0, 3 and null, 4 intervals, 1 edit, 1 fault | `TypeOK`, `CooldownSlack`, `LossIsOneCandle`, `DeletedIsSilent` |
| `EvaluateOneWorker` | 1 worker, 2 rules, 3 intervals, 1 edit, 1 fault, fair | `SessionRecovers`, and `CooldownSlack` where one worker has no slack |
| `Indicators` | 15 rules, 3 prices, 8 candles, one gap | `TypeOK`, `RsiFollowsPrice`, `CrossesOnce`, `BreakNeedsPeriod`, `MacdNeedsItsCandles`, `MovesWithinWindow` |
| `Access` | 3 requests, a DB key, the admin key and two that are none, limits 1 and 2, 2 windows, 1 fault | `TypeOK`, `WindowBound`, `LimitedForOwnRequests`, `CountersExpire`, `WritesPassBothChecks` |
| `Startup` | all versions, 2 and 3 attempts, 2 faults, 1 downgrade, fair | `TypeOK`, `VersionIsTrue`, `NeverStuck`, `ServesAtHead`, `WorkerHasSchema`, `ContainersComeUp` |

Every property of the runs that pass has a variant of a definition, named in
`PROJECT.json` under `mutants` and marked "Variant" in the modules, under which TLC
finds it violated.

Bounds. `MaxFaults` bounds crashes and failed calls together; recipients fail
and rules change URLs without a bound. Two workers are enough for every conflict
over a row, which is between two copies of it. Two alerts in one batch are enough for
what a poll carries from one alert to the next: the rule that the session keeps, if
they are of one rule (`DeliveryOneWorker`), and the exception that ends the poll, if
they are of two and one is deleted (`DeliverySettled`); in between, either alert is alone in
its batch or stands first. `DeliveryConcurrent` has one alert, so that no rule is kept there.
`MaxAttempts` is 3 where two workers can make the count fall back, 2 where the states
must be kept few, 5, the default, in the run that refutes exactly-once delivery, and 1 in
the shortest one that leaves an alert pending. `MaxTime = 3`
intervals in `Ingest` give a candle that is processed, one that is missed and one that comes
after the gap; a restart may find the other `ingest_mode` configured;
`QueueBound` bounds updates of candles in progress, never the final ones. In
`Evaluate` a cooldown of 3 intervals spans two later candles, the first early
alert needs two, and four intervals let a third one come in time. In `Indicators` eight
candles give the longest of the periods used six bars beyond its first value, and
`MacdLimit = 7` and `RsiFloor = 5` (50 and 100 in the code) let the table outgrow what is read;
the API's defaults (12, 26, 9 and 14) differ in size only. In `Access` limit 1 makes every
second request of a window one too many, the admin key's limit 2 every third, and three
requests are enough to be limited by another key,
by an earlier window or by a leftover counter. In `Startup` the attempts (30 and
60) are 2 and 3: what matters is that they run out. The runs that end because time,
requests or candles are used up, or the system rests, do not check deadlock; the two of
`Ingest` do.

Fairness. `Delivery` assumes weak fairness of each worker's scheduler
(`RetryStep`), which loops for ever around a `try` (retry.py:111-117) and whose
awaits end (httpx and the driver time out), and that time passes: as long as some alert is
backed off, a backoff elapses. It assumes nothing of main loops, of recipients and of the API.
`Ingest` assumes weak fairness of the worker as a whole, whose awaits end by timeouts
(hyperliquid.py:143, 205 and 331-334), and of time. `Evaluate` assumes it of every
worker's loop and restart and of time, never of a match, an edit or a fault. `Startup`
assumes that both scripts go on, that docker restarts what ended
(docker-compose.yml:53 and 77) and that Postgres returns; `Access` states no
liveness.

### Where the code and its documents part

Three runs expect a violation and are listed as findings. These came up as well;
they follow from a single line each, or are the reason for a condition of a
property.

Delivery:

- `dispatch` writes the count it loaded before it posted (dispatcher.py:65 and 129),
  so a retry in between is not counted and an alert can get a sixth round, against
  "Max attempts: 5" (docs/runbook.md:83). `RoundsOfOneWorker` says how many there
  can be.
- A "per-attempt audit trail" (README.md:39 and 225) misses what was posted and not
  committed: after a crash, or a commit that fails (dispatcher.py:88, retry.py:105).
  `AuditIsComplete` bounds how much. A retry also writes one row for the POSTs to two
  webhooks.

Ingestion:

- A backfill whose REST call fails returns an empty list (hyperliquid.py:216 and 232)
  and is not repeated; the next live candle moves the cursor over the gap, against
  "Reconnects don't lose candles" (README.md:226). This is why `NoGapUnlessRestFails`
  exempts what comes after a failed call (`lossy`).
- Poll mode yields the newest candle only (hyperliquid.py:165), against "fetches last
  200 candles, yields new ones" (docs/architecture.md:42): of two that closed since the last poll
  the first is never stored. `lossy` exempts this too.
- An update of a candle in progress that waits in the queue until the candle has ended
  passes the test that the comment at hyperliquid.py:371-373 describes, for it compares with
  the clock at the time of reading (lines 375-377). With `QueueBound = 1` TLC finds
  this for `StoredIsFinal` as well.
- The cursor is committed before the rules are evaluated (main.py:101), so a crash
  in between skips a candle that the cursor counts as processed
  (db/models/cursor.py:14). `LossIsOneCandle` bounds the loss.

Evaluation:

- Rules are read once, at startup (main.py:86). A rule that is created, changed or
  switched off through the API is not seen before a restart, against "Reload Rules (No
  Restart)", "restart worker or update rules via API" (docs/runbook.md:187-189) and "For each
  candle, load matching rules" (docs/architecture.md:44). Of all edits only a deletion takes
  effect at once (`DeletedIsSilent`).
- The comment at main.py:129-131 wants a failed evaluation rolled back, "so the next
  candle doesn't silently fail"; errors inside the rule class never reach that
  handler (engine.py:137-145), and the next candle ends the worker.
- The cooldown counts from the open time of a candle (engine.py:64 and 84): one of 900 s or
  less never holds anything back, against "Rule won't fire if within cooldown
  period" (docs/runbook.md:56) and "suppress re-fires" (README.md:175). `CooldownSlack` is
  stated accordingly.

Rules:

- `price_threshold` "crosses" (price_threshold.py:10) on every bar beyond the threshold.
- `percent_move` compares with the oldest candle of the window only. The example of
  README.md:184-187 has a window of 300 s, in which there is only the candle itself:
  it never fires (`MovesWithinWindow`; theorem `ShortWindowsNeverMatch`).
- `macd_cross` needs 37 candles with the default periods, not the 35 it asks for
  (`calculate_macd` wants 26 values of the fast average, indicators.py:42).
- `rsi` "only fires on the bar where RSI crosses" (rsi.py:21-22, README.md:206), and
  `macd_cross` is one cross. Both read a window of candles that moves on
  once the table is longer (rsi.py:34; 50 for macd), the averages then start from
  another candle on every bar, and one crossing can match on two. `CrossesOnce` therefore
  ends at the limit. With the default periods this is rare, but in the steady state of a
  deployment nothing else is the case.
- `bollinger` touch "fires on the transition bar" (README.md:213, bollinger.py:19 and 22):
  its test of the previous bar admits equality (bollinger.py:65), and a price
  that stays exactly on its band, as in a flat market, touches on every bar. That it
  repeats in no other case is the theorem `TouchesOnlyOnce`.

Access and startup:

- `verify_api_key` (dependencies.py:18) compares with the admin key alone: the
  DB-backed keys of "Two ways to authenticate write requests" (README.md:126-129;
  api/middleware/auth.py:6-8) pass the middleware, are counted, and get a 401.
- "up to 2x limit across a window boundary" (ratelimit.py:4-5) holds for requests whose
  INCR comes while the counter lives. One that is overdue, and may be (ratelimit.py:45 sets no
  timeout, 66 reads the clock before), starts a new count of a window that is over.
  `WindowBound` exempts those.
- `wait_for_db.py` waits "for database and tables to be ready" (line 2) and asks for table
  `rules` (line 39): on a deployment at version 001 the worker may start before 002 has made the
  table of audit rows. `WorkerHasSchema` exempts that version.

## 4. What is proved

Proofs are about any numbers of workers, symbols, rules, alerts,
requests, attempts and faults.

`Delivery_proofs` proves the invariant `DeliveryInv` inductive, one lemma per
action, and derives

| Theorem | Statement |
|---|---|
| `TypeCorrect` | `Spec => []TypeOK` |
| `Invariance` | `Spec => []DeliveryInv` |
| `DeliveredIsAlwaysTrue` | `Spec => []DeliveredIsTrue` |
| `NeverGivesUpEarly` | `Spec => []NoEarlyGiveUp` |
| `RaisedOnlyOnce` | `Spec => RaisedOnce` |
| `DeliveryIsOutbox` | `Spec => OutboxSpec` |

The properties alone are not inductive. A verdict is true only because the
success a task has seen is one the recipient has seen (`SuccessIsTrue`). Nothing is
given up early because no counter, in the table or in a session, is ahead of the
rounds that were made (`CountsAreBehind`); they can be behind, which
is why an alert can get a sixth round. That no two main loops hold the same alert
(`DispatchedByOne`), like `RaisedOnce`, needs that whatever was
raised and is gone went with its rule, so that the foreign key refuses it from
then on (`OnlyRaised`).

`DeliveryRounds_proofs` derives

| Theorem | Statement |
|---|---|
| `AuditStaysComplete` | `RoundsSpec => []AuditIsComplete` |
| `RoundsAreBounded` | `RoundsSpec => []RoundsOfOneWorker` |

Both count what was sent, committed or not, and both keep books on each alert
(`PaysStep`): a round that is begun is paid for by the task that has it under way, and when
the task leaves it, by a committed round, by audit rows, or by a fault. A crash
leaves at most two rounds unpaid, one of each task. For the audit trail this is all.
For the bound the committed rounds must be bounded too, in two phases. Until the dispatch of
an alert has committed, every committed round is counted in the table, and what a
batch holds of the alert is what the table holds (`Counted`). That commit may put the count
back once, to what was loaded before the posts; from then on the rounds made and those that
the counter still allows, in the table or in a batch, do not exceed the most (`Bounded`). A
dispatch that ends without its commit leaves its round to a fault, or did not post. An alert
that is off the record is sent only by the tasks that hold it. With a second worker a batch can
hold an older count than the table, and the bound is lost.

`Ingest_proofs` proves the invariant `IngestInv` inductive and derives

| Theorem | Statement |
|---|---|
| `TypeCorrect` | `Spec => []TypeOK` |
| `Invariance` | `Spec => []IngestInv` |
| `AlwaysInOrder` | `Spec => []EvaluatedInOrder` |
| `AlwaysStored` | `Spec => []EvaluatedIsStored` |
| `AlwaysStoredAsEvaluated` | `Spec => []StoredAsEvaluated` |
| `NeverAGapUnlessRestFails` | `Spec => []NoGapUnlessRestFails` |

The order of evaluation follows from two chains: the cursor never passes the last
seen candle, and the evaluations never pass the cursor (`CursorFollows`). Every
candle that leaves the stream is newer than the last seen one; for the live
stream that is its test, for a backfill it needs that the missed candles are of
one symbol, distinct, and taken in order, and that nothing else is emitted before
the backfill has ended (`MissedIsAhead`). Storage follows because `save_candle`
comes before `update_cursor`; that the values are those evaluated needs that the
table has nothing as new as the candle at hand, which a restart breaks: a row
saved just before a crash stays when the candle is fetched again (`StoredFirst`).

That there is no gap needs to know where every candle is that was not yet
evaluated (`Gapless`, until a REST call fails or the worker polls). The cursor
is the last seen candle, but for the one at hand (`OneAhead`); a backfill begins at
the candle after it and skips none (`MissedIsWhole`); the queue of messages skips
none and reaches the present while the connection stands (`QueueIsWhole`); what is
between the last seen candle and the queue is in the backfill, once that has been
fetched (`QueueFollows`). The last one is why the code fetches the backfill after it has
subscribed, and not before.

`Evaluate_proofs` derives

| Theorem | Statement |
|---|---|
| `TypeCorrect` | `Spec => []TypeOK` |
| `LossIsAlwaysOneCandle` | `Spec => []LossIsOneCandle` |
| `DeletedStaysSilent` | `Spec => []DeletedIsSilent` |
| `CooldownHolds` | `Spec => []CooldownSlack` |

The loss is bounded because a failed session has already lost its candle
(`FailedIsLost`), so that the errors that follow from it add nothing. The cooldown (`CooldownInv`): a worker that is past its check and would now run into
a cooldown has been overtaken by another worker, and only once in the life of that
alert (`OvertakenOnce`), because its next check, on a later candle, finds the alert;
hence at most one early alert for each other worker (`EarlyOncePerWorker`).

`Access_proofs` derives

| Theorem | Statement |
|---|---|
| `TypeCorrect` | `Spec => []TypeOK` |
| `WritesAlwaysPassBothChecks` | `Spec => []WritesPassBothChecks` |
| `CountersAlwaysExpire` | `Spec => []CountersExpire` |
| `LimitHoldsPerWindow` | `Spec => []WindowBound` |
| `LimitedForOwnRequestsOnly` | `Spec => []LimitedForOwnRequests` |

The limit holds because, until a second after the end of its window, a counter is
never below the requests of the window that passed in time (`CounterIsComplete`), as long
as Redis keeps its data: no counter expires before that (`ExpiryIsLate`). What comes
after is `late`, starts a new count, and adds nothing to those in time. In the other
direction a counter is never above the requests of
its own key and window (`CounterIsOwn`), whatever fails, so nobody is limited by
somebody else.

`Startup_proofs` proves the invariant `Inv` inductive and derives

| Theorem | Statement |
|---|---|
| `TypeCorrect` | `Spec => []TypeOK` |
| `Invariance` | `Spec => []Inv` |
| `VersionIsAlwaysTrue` | `Spec => []VersionIsTrue` |
| `MigrationsAreNeverStuck` | `Spec => NeverStuck` |
| `ServesOnlyAtHead` | `Spec => ServesAtHead` |
| `WorkerFindsItsTables` | `Spec => WorkerHasSchema` |

The transaction of a migration holds what its version and the statements so far
have made (`TxIsTrue`); what is committed is the version the deployment began with,
003, where the autocommit block of 004 commits, or the latest (`VersionIsReached`).
Only these two together show that a statement never meets an object it would
collide with.

`Indicators_proofs` proves the invariant `IInv` inductive and derives

| Theorem | Statement |
|---|---|
| `TypeCorrect` | `Spec => []TypeOK` |
| `RsiAlwaysFollowsPrice` | `Spec => []RsiFollowsPrice` |
| `BreaksNeedPeriod` | `Spec => []BreakNeedsPeriod` |
| `MacdAlwaysNeedsItsCandles` | `Spec => []MacdNeedsItsCandles` |
| `MovesAreWithinWindow` | `Spec => []MovesWithinWindow` |
| `ShortWindowsNeverMatch` | `Spec => []ShortWindowNeverMatches`: with a window below one interval |
| `CrossesOnlyOnce` | `Spec => CrossesOnce` |
| `TouchesOnlyOnce` | `Spec => TouchesOnce`: not on two candles in a row, unless the first closed exactly on its band |

for all prices, rules and periods, and tables of every length, where TLC has three
prices, fifteen rules and eight candles. `IInv` only says that what fired is what
matches the newest candle; the work is in what the indicators compute.

- Values. A rational is in lowest terms, and each operator divides by a greatest
  common divisor; `Is(x, p, q)`, "x is the number p / q", says what a result is
  without them. Every comparison of two results becomes one of integers (`Order`).
  That the RSI divides by a positive number and is between 0 and 100 follows because
  gains, losses and their averages are never negative.
- `RsiFollowsPrice`. With averages G and L, the next ones are ((n - 1)G + g) / n and
  ((n - 1)L + l) / n, and only one of g and l is not 0. If the price did not rise,
  g = 0: the ratio of the averages cannot grow, nor the RSI.
- `CrossesOnce`. A table that is read as a whole and grows by one candle gives the
  same values and one more, through every indicator (`OneLonger`: `EmaOneLonger`,
  `LineOneLonger`, `AveragesOneLonger`, `RsiOneLonger`). So the value before the
  last is the last of the candle before, which was on the far side already.
- `TouchesOnce`. A band depends on the window of its bar only (`SameBand`), so what
  was the current bar's side of the band is the previous bar's in the next step.
- `BreakNeedsPeriod`. Of n numbers, none is further than the square root of n - 1
  deviations from their mean (Samuelson's inequality). It follows from
  the inequality of Cauchy and Schwarz for the other n - 1 (`CauchySchwarz`,
  `LastFromMean`), by induction over the sums, in integers.

The library's induction theorems take a predicate as a parameter, which no installed
prover instantiates. `Rationals_proofs` states induction as a fact about a *set* of
numbers instead (`Induction`, `IntervalInduction`), from the well-foundedness of the
finite sets of numbers. That the recursive functions of `Indicators` exist, and so
satisfy their equations, is proved the same way (`RecursiveFunction`); for `gcd` by
the divisor defined without recursion (`GcdEquation`).

The assumptions are the named ones of the modules. `Delivery`: finitely many workers and alerts,
`NoAlert` and `NoRule` outside of their sets, a rule for each alert, at least one
attempt and one row per poll. `Ingest`: finitely many symbols, and no mode but the two.
`Evaluate`: finitely many workers and rules, cooldowns that are natural numbers or
null. `Access`: keys apart from each other, a limit for each, a window of at least one second.
`Startup`: at least one attempt of either script. `Indicators`: rules that `validate_config` accepts,
with numbers as said in section 2. Bounds are natural numbers everywhere.

Only model-checked: liveness (`PendingIsSettled`, `CatchesUp`, `SessionRecovers`,
`ContainersComeUp`), which is out of the prover's reach, and `UrlsAreCurrent`. Every
other property of the runs that pass is a theorem.

## 5. Not modelled

Payload formats, logging, metrics, the connection pool, CORS and pagination,
which no property is about; the routes that only read; the settings, which are
constants of the modules. Workers that share a `WORKER_ID`, and so a cursor. The
pages of errors that the API shows after a rule got a null cooldown (its
`RuleResponse` does not allow it). The rounding of doubles in the indicators; rules of two workers
that read a table in which the other one is ahead; configs that only a `PUT` can
store.

Assumptions: Postgres enforces its constraints and its commits are atomic; the
clock of a worker agrees with the exchange's; Redis executes each call at once and
expires keys at the second.

## 6. Plan

Done: `Delivery` with `Outbox`, `Ingest`, `Evaluate`, `Indicators`, `Access`, `Startup`, and
the proofs of section 4. Left, in this order:

1. `Worker`: `Ingest`, `Evaluate` and `Delivery` composed; no candle that is
   stored and matched is without its alert, unless the worker died in between.
2. `Ingest` with two workers on one cursor row (a shared `WORKER_ID`).
3. The safety of `Worker`, derived from the theorems of its parts.
4. `UrlsAreCurrent` as a theorem.
