------------------------------- MODULE Ingest -------------------------------
(***************************************************************************)
(* Ingestion of candles by one worker: HyperliquidClient.stream in its two *)
(* modes, the cursor of the worker, and the part of main_loop that stores  *)
(* a candle, moves the cursor and evaluates the rules, with the crash and  *)
(* restart of the worker between any two of these steps.                   *)
(*                                                                         *)
(* Time counts intervals: candle k of a symbol is in progress while        *)
(* now = k - 1 and closed from now = k on.  The values of a candle matter  *)
(* only as far as they are final or those of a candle in progress.         *)
(***************************************************************************)
EXTENDS Integers, Sequences, FiniteSets

CONSTANTS
    Symbols,        \* settings.symbol_list
    Modes,          \* values settings.ingest_mode takes, "ws" or "poll" or both
    MaxTime,        \* bound on the intervals that pass
    QueueBound,     \* bound on the updates of candles in progress that queue up
    MaxFaults       \* bound on crashes, lost connections and failed REST calls

ASSUME SymbolsAssumption == IsFiniteSet(Symbols)
ASSUME ModesAssumption == Modes \subseteq {"ws", "poll"}
ASSUME BoundsAssumption == MaxTime \in Nat /\ QueueBound \in Nat /\ MaxFaults \in Nat

VARIABLES
    now,        \* intervals passed at the exchange
    mode,       \* settings.ingest_mode, read when the worker starts
    up,         \* the WebSocket is connected and subscribed
    queue,      \* messages received and not read yet
    pc,         \* where the worker is
    back,       \* where the stream continues after a candle
    todo,       \* symbols whose turn of backfill, or of a poll, is to come
    missed,     \* candles of the current backfill not emitted yet
    cur,        \* the candle main_loop works on
    lastSeen,   \* _last_candle_ts; 0 for none
    cursor,     \* worker_cursors.last_processed_timestamp; 0 for no row
    stored,     \* rows of table candles
    \* history
    evaluated,  \* candles whose rules were evaluated
    first,      \* first value of each cursor
    lossy,      \* a REST call has failed, or the worker has polled
    crashed,    \* the worker was restarted
    faults

streamVars == <<up, queue, todo, missed, lastSeen>>
tableVars == <<cursor, stored>>
history == <<evaluated, first, lossy, crashed, faults>>
vars == <<now, mode, streamVars, tableVars, pc, back, cur, history>>

Candle == [sym : Symbols, ts : Nat, final : BOOLEAN]

\* A candle as the exchange shows it at present.
CandleAt(s, k) == [sym |-> s, ts |-> k, final |-> k <= now]

Pcs == {"start", "connect", "backfill", "live", "poll", "save", "cursor", "eval"}

Init ==
    /\ now = 0
    /\ mode \in Modes
    /\ up = FALSE
    /\ queue = <<>>
    /\ pc = "start"
    /\ back = "live"
    /\ todo = {}
    /\ missed = {}
    /\ cur \in {CandleAt(s, 0) : s \in Symbols}
    /\ lastSeen = [s \in Symbols |-> 0]
    /\ cursor = [s \in Symbols |-> 0]
    /\ stored = {}
    /\ evaluated = {}
    /\ first = [s \in Symbols |-> 0]
    /\ lossy = FALSE
    /\ crashed = FALSE
    /\ faults = 0

-----------------------------------------------------------------------------
(***************************************************************************)
(* The exchange.                                                           *)
(***************************************************************************)

\* An interval ends: its final candles go out on a live connection.
CandlesClose ==
    /\ now < MaxTime
    /\ now' = now + 1
    /\ IF up
       THEN \E order \in {f \in [1 .. Cardinality(Symbols) -> Symbols] :
                            \A s \in Symbols : \E i \in DOMAIN f : f[i] = s} :
              queue' = queue \o [i \in DOMAIN order |->
                                   [sym |-> order[i], ts |-> now + 1, final |-> TRUE]]
       ELSE UNCHANGED queue
    /\ UNCHANGED <<mode, up, todo, missed, lastSeen, tableVars, pc, back, cur, history>>

\* A live update of the candle in progress.  The market is silent once the last
\* interval of the model has passed.
CandleUpdated(s) ==
    /\ up /\ now < MaxTime /\ Len(queue) < QueueBound
    /\ queue' = Append(queue, CandleAt(s, now + 1))
    /\ UNCHANGED <<now, mode, up, todo, missed, lastSeen, tableVars, pc, back, cur, history>>

\* The connection is lost; what was received can still be read.
ConnectionLost ==
    /\ up
    /\ faults < MaxFaults
    /\ faults' = faults + 1
    /\ up' = FALSE
    /\ UNCHANGED <<now, mode, queue, todo, missed, lastSeen, tableVars, pc, back, cur>>
    /\ UNCHANGED <<evaluated, first, lossy, crashed>>

-----------------------------------------------------------------------------
(***************************************************************************)
(* The stream.                                                             *)
(***************************************************************************)

\* Variant: the client is not seeded with the cursors.
StartUnseeded ==
    /\ pc = "start"
    /\ IF mode = "ws" THEN pc' = "connect" /\ UNCHANGED todo
                      ELSE pc' = "poll" /\ todo' = Symbols
    /\ lossy' = (lossy \/ mode = "poll")
    /\ UNCHANGED <<now, mode, up, queue, missed, lastSeen, tableVars, back, cur,
                   evaluated, first, crashed, faults>>

\* Startup: seed_last_seen(get_all_cursors()), then the stream of the mode.
Start ==
    /\ pc = "start"
    /\ lastSeen' = cursor
    /\ IF mode = "ws" THEN pc' = "connect" /\ UNCHANGED todo
                      ELSE pc' = "poll" /\ todo' = Symbols
    /\ lossy' = (lossy \/ mode = "poll")
    /\ UNCHANGED <<now, mode, up, queue, missed, tableVars, back, cur,
                   evaluated, first, crashed, faults>>

\* Connect and subscribe; then backfill every symbol with a last seen candle.
Connect ==
    /\ pc = "connect"
    /\ up' = TRUE
    /\ queue' = <<>>
    /\ todo' = Symbols
    /\ pc' = "backfill"
    /\ UNCHANGED <<now, mode, missed, lastSeen, tableVars, back, cur, history>>

\* A candle leaves the stream for main_loop.
Emit(c, next) ==
    /\ lastSeen' = [lastSeen EXCEPT ![c.sym] = c.ts]
    /\ cur' = c
    /\ back' = next
    /\ pc' = "save"

\* Variant: a backfill of the newest closed candle only.
MissedNewest(s) == {CandleAt(s, k) : k \in {now} \ 0 .. lastSeen[s]}

\* fetch_candles up to the present, and backfill's filter.  The exchange may
\* already list the candle in progress, which nothing filters out.
Missed(s) == {CandleAt(s, k) : k \in lastSeen[s] + 1 .. now}
InProgress(s) == {CandleAt(s, k) : k \in {now + 1} \ 0 .. lastSeen[s]}

Backfill(s) ==
    /\ pc = "backfill" /\ missed = {}
    /\ s \in todo
    /\ todo' = todo \ {s}
    /\ IF lastSeen[s] = 0 THEN missed' = {}
                          ELSE missed' \in {Missed(s), Missed(s) \cup InProgress(s)}
    /\ UNCHANGED <<now, mode, up, queue, lastSeen, tableVars, pc, back, cur, history>>

\* Any error of the REST call: fetch_candles returns an empty list.
BackfillFails(s) ==
    /\ pc = "backfill" /\ missed = {}
    /\ s \in todo /\ lastSeen[s] # 0
    /\ faults < MaxFaults
    /\ faults' = faults + 1
    /\ lossy' = TRUE
    /\ todo' = todo \ {s}
    /\ UNCHANGED <<now, mode, up, queue, missed, lastSeen, tableVars, pc, back, cur>>
    /\ UNCHANGED <<evaluated, first, crashed>>

\* The next candle of a backfill, in the order of the timestamps.
EmitMissed(c) ==
    /\ pc = "backfill"
    /\ c \in missed /\ \A d \in missed : c.ts <= d.ts
    /\ missed' = missed \ {c}
    /\ Emit(c, "backfill")
    /\ UNCHANGED <<now, mode, up, queue, todo, tableVars, history>>

BackfillDone ==
    /\ pc = "backfill" /\ missed = {} /\ todo = {}
    /\ pc' = "live"
    /\ UNCHANGED <<now, mode, streamVars, tableVars, back, cur, history>>

\* Variant: the last candle is emitted again.
NewerOrSame(c) == c.ts >= lastSeen[c.sym]

\* A message is of use once its interval has ended, by the clock at the time it
\* is read, and if it is newer than the last candle.
Closed(c) == c.ts <= now
Newer(c) == c.ts > lastSeen[c.sym]

ReadMessage ==
    /\ pc = "live" /\ queue # <<>>
    /\ queue' = Tail(queue)
    /\ IF Closed(Head(queue)) /\ Newer(Head(queue))
       THEN Emit(Head(queue), "live")
       ELSE UNCHANGED <<lastSeen, cur, back, pc>>
    /\ UNCHANGED <<now, mode, up, todo, missed, tableVars, history>>

\* Variant: no heartbeat timeout, so that only a close that recv sees is answered
\* and a connection lost in silence is waited on for ever.
ReconnectWhenClosed ==
    /\ pc = "live" /\ queue = <<>> /\ up
    /\ up' = FALSE
    /\ pc' = "connect"
    /\ UNCHANGED <<now, mode, queue, todo, missed, lastSeen, tableVars, back, cur, history>>

\* Variant: the silent connection is left open.
ReconnectBeside ==
    /\ pc = "live" /\ queue = <<>>
    /\ pc' = "connect"
    /\ UNCHANGED <<now, mode, streamVars, tableVars, back, cur, history>>

\* recv raises on a lost connection, or times out on a silent one.
Reconnect ==
    /\ pc = "live" /\ queue = <<>>
    /\ up' = FALSE
    /\ pc' = "connect"
    /\ UNCHANGED <<now, mode, queue, todo, missed, lastSeen, tableVars, back, cur, history>>

\* Poll mode: one symbol's turn.  The newest candle the exchange lists is the
\* closed one or the one in progress.
NewestListed == {now, now + 1} \ {0}

PollSymbol(s) ==
    /\ pc = "poll" /\ s \in todo
    /\ todo' = todo \ {s}
    /\ \E k \in NewestListed :
         IF Newer(CandleAt(s, k)) THEN Emit(CandleAt(s, k), "poll")
                                  ELSE UNCHANGED <<lastSeen, cur, back, pc>>
    /\ UNCHANGED <<now, mode, up, queue, missed, tableVars, history>>

\* fetch_latest_candle returns None on any error.
PollFails(s) ==
    /\ pc = "poll" /\ s \in todo
    /\ faults < MaxFaults
    /\ faults' = faults + 1
    /\ lossy' = TRUE
    /\ todo' = todo \ {s}
    /\ UNCHANGED <<now, mode, up, queue, missed, lastSeen, tableVars, pc, back, cur>>
    /\ UNCHANGED <<evaluated, first, crashed>>

NextPoll ==
    /\ pc = "poll" /\ todo = {}
    /\ todo' = Symbols
    /\ UNCHANGED <<now, mode, up, queue, missed, lastSeen, tableVars, pc, back, cur, history>>

-----------------------------------------------------------------------------
(***************************************************************************)
(* main_loop, for one candle of the stream.                                *)
(***************************************************************************)

SameKey(c, d) == c.sym = d.sym /\ c.ts = d.ts

\* Variant: save_candle swallows every error of its commit.
SaveCandleOrNot ==
    /\ pc = "save"
    /\ stored' \in {stored, stored \cup {cur}}
    /\ pc' = "cursor"
    /\ UNCHANGED <<now, mode, streamVars, cursor, back, cur, history>>

\* save_candle: a duplicate key is rolled back and the first row stays.
SaveCandle ==
    /\ pc = "save"
    /\ stored' = IF \E c \in stored : SameKey(c, cur) THEN stored
                                                      ELSE stored \cup {cur}
    /\ pc' = "cursor"
    /\ UNCHANGED <<now, mode, streamVars, cursor, back, cur, history>>

UpdateCursor ==
    /\ pc = "cursor"
    /\ cursor' = [cursor EXCEPT ![cur.sym] = cur.ts]
    /\ first' = [first EXCEPT ![cur.sym] = IF @ = 0 THEN cur.ts ELSE @]
    /\ pc' = "eval"
    /\ UNCHANGED <<now, mode, streamVars, stored, back, cur>>
    /\ UNCHANGED <<evaluated, lossy, crashed, faults>>

\* The rules of the symbol, one by one; an error is logged and the next rule tried.
EvaluateRules ==
    /\ pc = "eval"
    /\ evaluated' = evaluated \cup {cur}
    /\ pc' = back
    /\ UNCHANGED <<now, mode, streamVars, tableVars, back, cur>>
    /\ UNCHANGED <<first, lossy, crashed, faults>>

\* The process dies, or a failed commit ends it (worker_fatal_error): docker
\* restarts it with nothing but the tables, possibly in the other mode.
Crash ==
    /\ pc # "start"
    /\ faults < MaxFaults
    /\ faults' = faults + 1
    /\ crashed' = TRUE
    /\ mode' \in Modes
    /\ pc' = "start"
    /\ up' = FALSE
    /\ queue' = <<>>
    /\ todo' = {}
    /\ missed' = {}
    /\ lastSeen' = [s \in Symbols |-> 0]
    /\ UNCHANGED <<now, tableVars, back, cur, evaluated, first, lossy>>

-----------------------------------------------------------------------------
WorkerStep ==
    \/ Start \/ Connect \/ BackfillDone \/ ReadMessage \/ Reconnect \/ NextPoll
    \/ \E s \in Symbols : Backfill(s) \/ PollSymbol(s)
    \/ \E c \in missed : EmitMissed(c)
    \/ SaveCandle \/ UpdateCursor \/ EvaluateRules

Faults ==
    \/ ConnectionLost \/ Crash
    \/ \E s \in Symbols : BackfillFails(s) \/ PollFails(s)

Exchange == CandlesClose \/ \E s \in Symbols : CandleUpdated(s)

Next == WorkerStep \/ Faults \/ Exchange

Spec == Init /\ [][Next]_vars

\* The event loop runs the worker and every await of it ends: connect retries,
\* httpx has a timeout, recv has the heartbeat timeout.  Time passes.
FairSpec == Spec /\ WF_vars(WorkerStep) /\ WF_vars(CandlesClose)

-----------------------------------------------------------------------------
(***************************************************************************)
(* Properties.                                                             *)
(***************************************************************************)

\* The worker is where its mode puts it, and a connection is open only inside
\* the stream of WebSocket mode.
InItsMode ==
    /\ pc \in {"connect", "backfill", "live"} => mode = "ws"
    /\ pc = "poll" => mode = "poll"
    /\ pc \in {"save", "cursor", "eval"} => (mode = "poll" <=> back = "poll")
    /\ up => mode = "ws" /\ pc \notin {"start", "connect"}

\* Types; and whatever crashes and reconnects, no connection stays open beside
\* the stream: not while another one is made, nor in poll mode.
TypeOK ==
    /\ now \in Nat
    /\ mode \in Modes
    /\ up \in BOOLEAN
    /\ queue \in Seq(Candle)
    /\ pc \in Pcs
    /\ InItsMode
    /\ back \in {"backfill", "live", "poll"}
    /\ todo \subseteq Symbols
    /\ missed \subseteq Candle
    /\ cur \in Candle
    /\ lastSeen \in [Symbols -> Nat]
    /\ cursor \in [Symbols -> Nat]
    /\ stored \subseteq Candle
    /\ evaluated \subseteq Candle
    /\ first \in [Symbols -> Nat]
    /\ lossy \in BOOLEAN
    /\ crashed \in BOOLEAN
    /\ faults \in Nat

\* main_loop moves the cursor before it evaluates: whatever crashes, reconnects
\* and backfills, the rules of a symbol see its candles in increasing order and
\* none of them twice.
EvaluatedInOrder ==
    pc = "eval" => \A c \in evaluated : c.sym = cur.sym => c.ts < cur.ts

\* What the cursor points at, and what was evaluated, is in table candles, where
\* the indicator rules look for it (save_candle comes first).
EvaluatedIsStored ==
    /\ \A c \in evaluated : \E d \in stored : SameKey(c, d)
    /\ \A s \in Symbols : cursor[s] # 0 => \E d \in stored : d.sym = s /\ d.ts = cursor[s]

\* Without a restart the table holds the very values that were evaluated.
StoredAsEvaluated == ~crashed => evaluated \subseteq stored

\* From the first cursor of a symbol on, table candles has all of its candles.
NoGap ==
    \A s \in Symbols : first[s] # 0 =>
        \A k \in first[s] .. cursor[s] : \E d \in stored : d.sym = s /\ d.ts = k

\* README, "Reconnects don't lose candles", as far as it goes: there is no gap
\* unless a REST call failed or the worker polled.
NoGapUnlessRestFails == ~lossy => NoGap

\* Outages only delay the newest candle: in the end every symbol that has a cursor
\* has it at the last candle that closed, for good.
CatchesUp ==
    <>[](\A s \in Symbols : cursor[s] = 0 \/ cursor[s] >= MaxTime)

\* The inductive invariant behind the properties of order and storage.
\* A backfill is of one symbol, of candles newer than its last one, and lies
\* there only while the stream is in it.
MissedIsAhead ==
    /\ \A c \in missed : c.ts > lastSeen[c.sym]
    /\ \A c, d \in missed : c.sym = d.sym /\ (c.ts = d.ts => c = d)
    /\ missed # {} => \/ pc = "backfill"
                      \/ pc \in {"save", "cursor", "eval"} /\ back = "backfill"

\* The cursor follows the stream, and the evaluations follow the cursor.
CursorFollows ==
    /\ pc # "start" => \A s \in Symbols : cursor[s] <= lastSeen[s]
    /\ pc \in {"save", "cursor"} => cursor[cur.sym] < cur.ts
    /\ pc \in {"save", "cursor", "eval"} => cur.ts = lastSeen[cur.sym]
    /\ pc = "eval" => cur.ts = cursor[cur.sym]
    /\ \A c \in evaluated : c.ts <= cursor[c.sym]

\* The candle at hand is stored before the cursor moves; until a restart it is
\* stored with its own values, because the table has nothing as new.
StoredFirst ==
    /\ pc \in {"cursor", "eval"} => \E d \in stored : SameKey(cur, d)
    /\ ~crashed => /\ pc = "start" => stored = {}
                   /\ \A d \in stored : d.ts <= lastSeen[d.sym]
                   /\ pc = "save" => \A d \in stored : d.sym = cur.sym => d.ts < cur.ts
                   /\ pc \in {"cursor", "eval"} => cur \in stored

IngestInv ==
    /\ TypeOK /\ MissedIsAhead /\ CursorFollows /\ EvaluatedInOrder
    /\ StoredFirst /\ EvaluatedIsStored /\ StoredAsEvaluated

\* README: a reconnect fetches "anything closed"; hyperliquid.py: "Only emit once
\* the interval end has passed".  No values of a candle in progress are kept.
StoredIsFinal == \A c \in stored : c.final
=============================================================================
