---------------------------- MODULE Ingest_proofs ----------------------------
(***************************************************************************)
(* Theorems about Ingest, for every set of symbols, either mode and any    *)
(* number of crashes, lost connections and failed calls.                   *)
(***************************************************************************)
EXTENDS Ingest, FiniteSetTheorems, TLAPS

-----------------------------------------------------------------------------
(***************************************************************************)
(* Types.                                                                  *)
(***************************************************************************)

\* What the exchange lists are candles.
LEMMA CandleTyped ==
    ASSUME now \in Nat, NEW s \in Symbols, NEW k \in Nat
    PROVE  /\ CandleAt(s, k) \in Candle
           /\ CandleAt(s, k).sym = s /\ CandleAt(s, k).ts = k
  BY DEF CandleAt, Candle

\* So is what a backfill returns.
LEMMA MissedTyped ==
    ASSUME TypeOK, NEW s \in Symbols
    PROVE  Missed(s) \cup InProgress(s) \subseteq Candle
<1>1. lastSeen[s] + 1 .. now \subseteq Nat /\ {now + 1} \ 0 .. lastSeen[s] \subseteq Nat
  BY DEF TypeOK
<1>2. now \in Nat
  BY DEF TypeOK
<1> QED
  BY <1>1, <1>2, CandleTyped DEF Missed, InProgress

\* A candle that leaves the stream keeps the types.
LEMMA EmitTyped ==
    ASSUME TypeOK, NEW c \in Candle, NEW next \in {"backfill", "live", "poll"},
           Emit(c, next)
    PROVE  /\ lastSeen' \in [Symbols -> Nat]
           /\ cur' \in Candle
           /\ back' \in {"backfill", "live", "poll"}
           /\ pc' = "save" /\ pc' \in Pcs /\ back' = next
  BY DEF TypeOK, Emit, Candle, Pcs

\* Every step of the exchange keeps the types.
LEMMA ExchangeTyped ==
    ASSUME TypeOK, Exchange
    PROVE  TypeOK'
<1>1. CASE CandlesClose
  <2>1. now' \in Nat
    BY <1>1 DEF TypeOK, InItsMode, CandlesClose
  <2>2. queue' \in Seq(Candle)
    <3>1. CASE ~up
      BY <1>1, <3>1 DEF TypeOK, InItsMode, CandlesClose
    <3>2. CASE up
      <4>1. PICK order \in [1 .. Cardinality(Symbols) -> Symbols] :
              queue' = queue \o [i \in DOMAIN order |->
                                   [sym |-> order[i], ts |-> now + 1, final |-> TRUE]]
        BY <1>1, <3>2 DEF CandlesClose
      <4> DEFINE closing == [i \in DOMAIN order |->
                               [sym |-> order[i], ts |-> now + 1, final |-> TRUE]]
      <4>2. Cardinality(Symbols) \in Nat
        BY SymbolsAssumption, FS_CardinalityType
      <4>3. closing \in [1 .. Cardinality(Symbols) -> Candle]
        BY DEF TypeOK, Candle
      <4>4. closing \in Seq(Candle)
        BY <4>2, <4>3
      <4> HIDE DEF closing
      <4>5. queue \o closing \in Seq(Candle)
        BY <4>4 DEF TypeOK
      <4> QED
        BY <4>1, <4>5 DEF closing
    <3> QED
      BY <3>1, <3>2 DEF TypeOK
  <2> QED
    BY <1>1, <2>1, <2>2 DEF TypeOK, InItsMode, CandlesClose, tableVars, history
<1>2. ASSUME NEW s \in Symbols, CandleUpdated(s) PROVE TypeOK'
  <2>1. now \in Nat /\ now + 1 \in Nat /\ queue \in Seq(Candle)
    BY DEF TypeOK
  <2>2. queue' \in Seq(Candle)
    BY <1>2, <2>1, CandleTyped DEF CandleUpdated
  <2> QED
    BY <1>2, <2>2 DEF TypeOK, InItsMode, CandleUpdated, tableVars, history
<1> QED
  BY <1>1, <1>2 DEF Exchange

\* Every fault keeps the types.
LEMMA FaultsTyped ==
    ASSUME TypeOK, Faults
    PROVE  TypeOK'
<1>0. faults' \in Nat
  BY DEF TypeOK, Faults, ConnectionLost, Crash, BackfillFails, PollFails
<1>1. CASE ConnectionLost
  BY <1>0, <1>1 DEF TypeOK, InItsMode, ConnectionLost, tableVars
<1>2. CASE Crash
  <2>1. queue' \in Seq(Candle)
    BY <1>2 DEF Crash
  <2> QED
    BY <1>0, <1>2, <2>1 DEF TypeOK, InItsMode, Crash, tableVars, Pcs
<1>3. ASSUME NEW s \in Symbols, BackfillFails(s) PROVE TypeOK'
  BY <1>0, <1>3 DEF TypeOK, InItsMode, BackfillFails, tableVars
<1>4. ASSUME NEW s \in Symbols, PollFails(s) PROVE TypeOK'
  BY <1>0, <1>4 DEF TypeOK, InItsMode, PollFails, tableVars
<1> QED
  BY <1>1, <1>2, <1>3, <1>4 DEF Faults

\* Every step of the stream keeps the types.
LEMMA StreamTyped ==
    ASSUME TypeOK,
           \/ Start \/ Connect \/ BackfillDone \/ ReadMessage \/ Reconnect \/ NextPoll
           \/ \E s \in Symbols : Backfill(s) \/ PollSymbol(s)
           \/ \E c \in missed : EmitMissed(c)
    PROVE  TypeOK'
<1>1. CASE Start
  BY <1>1, ModesAssumption DEF TypeOK, InItsMode, Start, tableVars, Pcs
<1>2. CASE Connect
  <2>1. queue' \in Seq(Candle)
    BY <1>2 DEF Connect
  <2> QED
    BY <1>2, <2>1 DEF TypeOK, InItsMode, Connect, tableVars, history, Pcs
<1>3. CASE BackfillDone
  BY <1>3 DEF TypeOK, InItsMode, BackfillDone, streamVars, tableVars, history, Pcs
<1>4. CASE ReadMessage
  <2>1. Head(queue) \in Candle /\ Tail(queue) \in Seq(Candle)
    BY <1>4 DEF TypeOK, InItsMode, ReadMessage
  <2>2. CASE Closed(Head(queue)) /\ Newer(Head(queue))
    <3>1. Emit(Head(queue), "live")
      BY <1>4, <2>2 DEF ReadMessage
    <3> QED
      BY <1>4, <2>1, <3>1, EmitTyped DEF TypeOK, InItsMode, ReadMessage, tableVars, history
  <2>3. CASE ~(Closed(Head(queue)) /\ Newer(Head(queue)))
    BY <1>4, <2>1, <2>3 DEF TypeOK, InItsMode, ReadMessage, tableVars, history
  <2> QED
    BY <2>2, <2>3
<1>5. CASE Reconnect
  BY <1>5 DEF TypeOK, InItsMode, Reconnect, tableVars, history, Pcs
<1>6. CASE NextPoll
  BY <1>6 DEF TypeOK, InItsMode, NextPoll, tableVars, history
<1>7. ASSUME NEW s \in Symbols, Backfill(s) PROVE TypeOK'
  <2>1. missed' \subseteq Candle
    BY <1>7, MissedTyped DEF Backfill
  <2> QED
    BY <1>7, <2>1 DEF TypeOK, InItsMode, Backfill, tableVars, history
<1>8. ASSUME NEW s \in Symbols, PollSymbol(s) PROVE TypeOK'
  <2>1. PICK k \in NewestListed :
          IF Newer(CandleAt(s, k)) THEN Emit(CandleAt(s, k), "poll")
                                   ELSE UNCHANGED <<lastSeen, cur, back, pc>>
    BY <1>8 DEF PollSymbol
  <2>2. CandleAt(s, k) \in Candle
    <3>1. now \in Nat /\ k \in Nat
      BY DEF TypeOK, NewestListed
    <3> QED
      BY <3>1, CandleTyped
  <2>3. CASE Newer(CandleAt(s, k))
    BY <1>8, <2>1, <2>2, <2>3, EmitTyped DEF TypeOK, InItsMode, PollSymbol, tableVars, history
  <2>4. CASE ~Newer(CandleAt(s, k))
    BY <1>8, <2>1, <2>4 DEF TypeOK, InItsMode, PollSymbol, tableVars, history
  <2> QED
    BY <2>3, <2>4
<1>9. ASSUME NEW c \in missed, EmitMissed(c) PROVE TypeOK'
  <2>1. c \in Candle
    BY DEF TypeOK
  <2>2. Emit(c, "backfill")
    BY <1>9 DEF EmitMissed
  <2> QED
    BY <1>9, <2>1, <2>2, EmitTyped DEF TypeOK, InItsMode, EmitMissed, tableVars, history
<1> QED
  BY <1>1, <1>2, <1>3, <1>4, <1>5, <1>6, <1>7, <1>8, <1>9

\* Every step of main_loop keeps the types.
LEMMA LoopTyped ==
    ASSUME TypeOK, SaveCandle \/ UpdateCursor \/ EvaluateRules
    PROVE  TypeOK'
<1>1. CASE SaveCandle
  BY <1>1 DEF TypeOK, InItsMode, SaveCandle, streamVars, history, Pcs
<1>2. CASE UpdateCursor
  <2>1. cur.sym \in Symbols /\ cur.ts \in Nat
    BY DEF TypeOK, Candle
  <2> QED
    BY <1>2, <2>1 DEF TypeOK, InItsMode, UpdateCursor, streamVars, Pcs
<1>3. CASE EvaluateRules
  BY <1>3, ModesAssumption DEF TypeOK, InItsMode, EvaluateRules, streamVars, tableVars, Pcs
<1> QED
  BY <1>1, <1>2, <1>3

\* Types hold initially, and every step keeps them.
LEMMA TypeInit == Init => TypeOK
<1> SUFFICES ASSUME Init PROVE TypeOK
  OBVIOUS
<1>1. queue \in Seq(Candle)
  BY DEF Init
<1>2. cur \in Candle
  BY CandleTyped DEF Init
<1> QED
  BY <1>1, <1>2 DEF Init, TypeOK, InItsMode, Pcs

\* A step of any part, or none.
LEMMA TypeStep == TypeOK /\ [Next]_vars => TypeOK'
<1> SUFFICES ASSUME TypeOK, [Next]_vars PROVE TypeOK'
  OBVIOUS
<1>1. CASE UNCHANGED vars
  BY <1>1 DEF TypeOK, InItsMode, vars, streamVars, tableVars, history
<1> QED
  BY <1>1, ExchangeTyped, FaultsTyped, StreamTyped, LoopTyped
     DEF Next, WorkerStep

\* Type correctness of the model of ingestion.
THEOREM TypeCorrect == Spec => []TypeOK
  BY TypeInit, TypeStep, PTL DEF Spec

-----------------------------------------------------------------------------
(***************************************************************************)
(* Order and storage.                                                      *)
(***************************************************************************)

\* The newer-than test and the order of a backfill are all that the invariant
\* needs of a candle that leaves the stream: it is newer than the last one.
LEMMA EmittedIsNewer ==
    ASSUME TypeOK, MissedIsAhead, CursorFollows, EvaluatedInOrder, StoredFirst,
           EvaluatedIsStored, StoredAsEvaluated,
           pc \in {"backfill", "live", "poll"},
           NEW c \in Candle, NEW next, Newer(c), Emit(c, next),
           UNCHANGED <<tableVars, evaluated, crashed>>
    PROVE  /\ CursorFollows' /\ EvaluatedInOrder'
           /\ StoredFirst' /\ EvaluatedIsStored' /\ StoredAsEvaluated'
<1>1. c.sym \in Symbols /\ c.ts \in Nat /\ cur' = c /\ pc' = "save"
  BY DEF Emit, Candle
<1>2. lastSeen' = [lastSeen EXCEPT ![c.sym] = c.ts] /\ lastSeen[c.sym] < c.ts
  BY <1>1 DEF Emit, Newer, TypeOK
<1>3. \A s \in Symbols : lastSeen[s] <= lastSeen'[s]
  BY <1>1, <1>2 DEF TypeOK
<1>4. lastSeen'[c.sym] = c.ts
  BY <1>1, <1>2 DEF TypeOK
<1>5. \A s \in Symbols : lastSeen[s] \in Nat /\ lastSeen'[s] \in Nat /\ cursor[s] \in Nat
  BY <1>1, <1>2 DEF TypeOK
<1>6. CursorFollows'
  <2>1. \A s \in Symbols : cursor[s] <= lastSeen'[s]
    BY <1>3, <1>5 DEF CursorFollows
  <2>2. cursor[c.sym] < c.ts
    BY <1>1, <1>2, <1>5 DEF CursorFollows
  <2> QED
    BY <1>1, <1>4, <2>1, <2>2 DEF CursorFollows, tableVars
<1>7. StoredFirst'
  <2>1. \A d \in stored : d.sym \in Symbols /\ d.ts \in Nat
    BY DEF TypeOK, Candle
  <2>2. ~crashed => \A d \in stored : d.ts <= lastSeen[d.sym]
    BY DEF StoredFirst
  <2>3. ~crashed => \A d \in stored : d.ts <= lastSeen'[d.sym]
    BY <1>3, <1>5, <2>1, <2>2
  <2>4. ~crashed => \A d \in stored : d.sym = c.sym => d.ts < c.ts
    BY <1>1, <1>2, <1>5, <2>1, <2>2
  <2> QED
    BY <1>1, <2>3, <2>4 DEF StoredFirst, tableVars
<1> QED
  BY <1>1, <1>6, <1>7 DEF EvaluatedInOrder, EvaluatedIsStored, StoredAsEvaluated, tableVars

\* Steps that leave the candle at hand, the tables and the history alone, and do
\* not start or end the work on a candle.
LEMMA QuietStep ==
    ASSUME TypeOK, CursorFollows, EvaluatedInOrder, StoredFirst,
           EvaluatedIsStored, StoredAsEvaluated,
           UNCHANGED <<lastSeen, cur, tableVars, evaluated, crashed>>,
           \/ UNCHANGED pc
           \/ pc \in Pcs \ {"start"} /\ pc' \in Pcs \ {"start", "save", "cursor", "eval"}
    PROVE  /\ CursorFollows' /\ EvaluatedInOrder'
           /\ StoredFirst' /\ EvaluatedIsStored' /\ StoredAsEvaluated'
  BY DEF CursorFollows, EvaluatedInOrder, StoredFirst, EvaluatedIsStored,
         StoredAsEvaluated, tableVars, SameKey

\* Seeding the client with the cursors.
LEMMA StartStep ==
    ASSUME TypeOK, CursorFollows, StoredFirst, EvaluatedIsStored, StoredAsEvaluated,
           Start
    PROVE  /\ CursorFollows' /\ EvaluatedInOrder'
           /\ StoredFirst' /\ EvaluatedIsStored' /\ StoredAsEvaluated'
<1>1. pc = "start" /\ pc' \in {"connect", "poll"}
  BY DEF Start
<1>2. \A s \in Symbols : cursor'[s] <= lastSeen'[s]
  BY DEF Start, TypeOK, tableVars
<1> QED
  BY <1>1, <1>2
     DEF Start, CursorFollows, EvaluatedInOrder, StoredFirst, EvaluatedIsStored,
         StoredAsEvaluated, tableVars, SameKey

\* A restart forgets everything but the tables.
LEMMA CrashStep ==
    ASSUME TypeOK, CursorFollows, EvaluatedIsStored, Crash
    PROVE  /\ CursorFollows' /\ EvaluatedInOrder'
           /\ StoredFirst' /\ EvaluatedIsStored' /\ StoredAsEvaluated'
  BY DEF Crash, CursorFollows, EvaluatedInOrder, StoredFirst, EvaluatedIsStored,
         StoredAsEvaluated, tableVars, SameKey

\* save_candle.
LEMMA SaveStep ==
    ASSUME TypeOK, CursorFollows, StoredFirst, EvaluatedIsStored, StoredAsEvaluated,
           SaveCandle
    PROVE  /\ CursorFollows' /\ EvaluatedInOrder'
           /\ StoredFirst' /\ EvaluatedIsStored' /\ StoredAsEvaluated'
<1>1. pc = "save" /\ pc' = "cursor"
  BY DEF SaveCandle
<1>2. UNCHANGED <<lastSeen, cursor, cur, evaluated, crashed>>
  BY DEF SaveCandle, streamVars, history
<1>3. cur.sym \in Symbols /\ cur.ts \in Nat
  BY DEF TypeOK, Candle
<1>4. stored \subseteq stored' /\ stored' \subseteq stored \cup {cur}
  BY DEF SaveCandle
<1>5. \E d \in stored' : SameKey(cur, d)
  BY <1>3 DEF SaveCandle, SameKey
<1>6. ~crashed => cur \in stored'
  <2> SUFFICES ASSUME ~crashed PROVE cur \in stored'
    OBVIOUS
  <2>1. ASSUME NEW d \in stored PROVE ~SameKey(d, cur)
    <3>1. d.ts \in Nat
      BY DEF TypeOK, Candle
    <3>2. d.sym = cur.sym => d.ts < cur.ts
      BY <1>1 DEF StoredFirst
    <3> QED
      BY <1>3, <3>1, <3>2 DEF SameKey
  <2> QED
    BY <2>1 DEF SaveCandle
<1>7. ~crashed => \A d \in stored' : d.ts <= lastSeen[d.sym]
  <2>1. cur.ts <= lastSeen[cur.sym]
    BY <1>1, <1>3 DEF CursorFollows
  <2> QED
    BY <1>4, <2>1 DEF StoredFirst
<1>8. StoredFirst'
  BY <1>1, <1>2, <1>5, <1>6, <1>7 DEF StoredFirst, SameKey
<1>9. CursorFollows'
  BY <1>1, <1>2 DEF CursorFollows
<1>10. EvaluatedIsStored' /\ StoredAsEvaluated'
  BY <1>2, <1>4 DEF EvaluatedIsStored, StoredAsEvaluated, SameKey
<1> QED
  BY <1>1, <1>8, <1>9, <1>10 DEF EvaluatedInOrder

\* update_cursor.
LEMMA CursorStep ==
    ASSUME TypeOK, CursorFollows, StoredFirst, EvaluatedIsStored, StoredAsEvaluated,
           UpdateCursor
    PROVE  /\ CursorFollows' /\ EvaluatedInOrder'
           /\ StoredFirst' /\ EvaluatedIsStored' /\ StoredAsEvaluated'
<1>1. pc = "cursor" /\ pc' = "eval"
  BY DEF UpdateCursor
<1>2. UNCHANGED <<lastSeen, stored, cur, evaluated, crashed>>
  BY DEF UpdateCursor, streamVars
<1>3. cur.sym \in Symbols /\ cur.ts \in Nat
  BY DEF TypeOK, Candle
<1>4. cursor' = [cursor EXCEPT ![cur.sym] = cur.ts] /\ cursor'[cur.sym] = cur.ts
  BY <1>3 DEF UpdateCursor, TypeOK
<1>5. cursor[cur.sym] < cur.ts /\ cur.ts = lastSeen[cur.sym]
  BY <1>1 DEF CursorFollows
<1>6. \A s \in Symbols : /\ cursor[s] \in Nat /\ cursor'[s] \in Nat /\ lastSeen[s] \in Nat
                         /\ cursor[s] <= cursor'[s] /\ cursor'[s] <= lastSeen[s]
  BY <1>1, <1>3, <1>4, <1>5 DEF TypeOK, CursorFollows
<1>7. \A c \in evaluated : /\ c.sym \in Symbols /\ c.ts \in Nat
                           /\ c.ts <= cursor[c.sym]
  BY DEF TypeOK, Candle, CursorFollows
<1>8. CursorFollows'
  <2>1. \A c \in evaluated : c.ts <= cursor'[c.sym]
    BY <1>6, <1>7
  <2> QED
    BY <1>1, <1>2, <1>4, <1>5, <1>6, <2>1 DEF CursorFollows
<1>9. EvaluatedInOrder'
  <2>1. \A c \in evaluated : c.sym = cur.sym => c.ts < cur.ts
    BY <1>3, <1>5, <1>6, <1>7
  <2> QED
    BY <1>2, <2>1 DEF EvaluatedInOrder
<1>10. StoredFirst'
  BY <1>1, <1>2 DEF StoredFirst, SameKey
<1>11. EvaluatedIsStored'
  <2>1. \E d \in stored : d.sym = cur.sym /\ d.ts = cursor'[cur.sym]
    BY <1>1, <1>4 DEF StoredFirst, SameKey
  <2>2. \A s \in Symbols : s # cur.sym => cursor'[s] = cursor[s]
    BY <1>3, <1>4 DEF TypeOK
  <2>3. \A s \in Symbols : cursor'[s] # 0 => \E d \in stored : d.sym = s /\ d.ts = cursor'[s]
    BY <2>1, <2>2 DEF EvaluatedIsStored
  <2> QED
    BY <1>2, <2>3 DEF EvaluatedIsStored, SameKey
<1> QED
  BY <1>2, <1>8, <1>9, <1>10, <1>11 DEF StoredAsEvaluated

\* The evaluation of the rules of a symbol.
LEMMA EvaluateStep ==
    ASSUME TypeOK, CursorFollows, StoredFirst, EvaluatedIsStored, StoredAsEvaluated,
           EvaluateRules
    PROVE  /\ CursorFollows' /\ EvaluatedInOrder'
           /\ StoredFirst' /\ EvaluatedIsStored' /\ StoredAsEvaluated'
<1>1. pc = "eval" /\ pc' \in {"backfill", "live", "poll"}
  BY DEF EvaluateRules, TypeOK
<1>2. evaluated' = evaluated \cup {cur}
  BY DEF EvaluateRules
<1>3. UNCHANGED <<lastSeen, cursor, stored, cur, crashed>>
  BY DEF EvaluateRules, streamVars, tableVars
<1>4. cur.sym \in Symbols /\ cur.ts \in Nat /\ cur.ts = cursor[cur.sym]
  BY <1>1 DEF TypeOK, Candle, CursorFollows
<1>5. CursorFollows'
  <2>1. \A c \in evaluated' : c.ts <= cursor[c.sym]
    BY <1>2, <1>4 DEF CursorFollows
  <2> QED
    BY <1>1, <1>3, <2>1 DEF CursorFollows
<1>6. StoredFirst'
  BY <1>1, <1>3 DEF StoredFirst
<1>7. EvaluatedIsStored'
  <2>1. \E d \in stored : SameKey(cur, d)
    BY <1>1 DEF StoredFirst
  <2> QED
    BY <1>2, <1>3, <2>1 DEF EvaluatedIsStored, SameKey
<1>8. StoredAsEvaluated'
  BY <1>1, <1>2, <1>3 DEF StoredFirst, StoredAsEvaluated
<1> QED
  BY <1>1, <1>5, <1>6, <1>7, <1>8 DEF EvaluatedInOrder

\* A backfill holds each missed candle once, in the order of the timestamps.
LEMMA MissedStep ==
    ASSUME TypeOK, MissedIsAhead, Next
    PROVE  MissedIsAhead'
<1>1. CASE Start
  <2>1. missed' = {}
    BY <1>1 DEF Start, MissedIsAhead
  <2> QED
    BY <2>1 DEF MissedIsAhead
<1>2. CASE Connect
  <2>1. missed' = {}
    BY <1>2 DEF Connect, MissedIsAhead
  <2> QED
    BY <2>1 DEF MissedIsAhead
<1>3. CASE BackfillDone
  <2>1. missed' = {}
    BY <1>3 DEF BackfillDone, streamVars
  <2> QED
    BY <2>1 DEF MissedIsAhead
<1>4. CASE ReadMessage
  <2>1. missed' = {}
    BY <1>4 DEF ReadMessage, MissedIsAhead
  <2> QED
    BY <2>1 DEF MissedIsAhead
<1>5. CASE Reconnect
  <2>1. missed' = {}
    BY <1>5 DEF Reconnect, MissedIsAhead
  <2> QED
    BY <2>1 DEF MissedIsAhead
<1>6. CASE NextPoll
  <2>1. missed' = {}
    BY <1>6 DEF NextPoll, MissedIsAhead
  <2> QED
    BY <2>1 DEF MissedIsAhead
<1>7. ASSUME NEW s \in Symbols, Backfill(s) PROVE MissedIsAhead'
  <2>1. now \in Nat /\ lastSeen[s] \in Nat /\ lastSeen' = lastSeen /\ pc' = pc /\ pc = "backfill"
    BY <1>7 DEF Backfill, TypeOK
  <2>2. missed' \subseteq Missed(s) \cup InProgress(s)
    BY <1>7 DEF Backfill
  <2>3. \A c \in missed' : \E k \in Nat : k > lastSeen[s] /\ c = CandleAt(s, k)
    BY <2>1, <2>2 DEF Missed, InProgress
  <2>4. \A c \in missed' : c.sym = s /\ c.ts > lastSeen[s]
    BY <2>1, <2>3, CandleTyped
  <2>5. \A c, d \in missed' : c.ts = d.ts => c = d
    BY <2>1, <2>3, CandleTyped
  <2> QED
    BY <2>1, <2>4, <2>5 DEF MissedIsAhead
<1>8. ASSUME NEW s \in Symbols, PollSymbol(s) PROVE MissedIsAhead'
  <2>1. missed' = {}
    BY <1>8 DEF PollSymbol, MissedIsAhead
  <2> QED
    BY <2>1 DEF MissedIsAhead
<1>9. ASSUME NEW c \in missed, EmitMissed(c) PROVE MissedIsAhead'
  <2>1. missed \subseteq Candle /\ missed' = missed \ {c}
    BY <1>9 DEF TypeOK, EmitMissed
  <2>2. lastSeen' = [lastSeen EXCEPT ![c.sym] = c.ts] /\ pc' = "save" /\ back' = "backfill"
    BY <1>9 DEF EmitMissed, Emit
  <2>3. \A d \in missed : d.sym = c.sym /\ (d.ts = c.ts => d = c)
    BY DEF MissedIsAhead
  <2>4. \A d \in missed : c.ts <= d.ts
    BY <1>9 DEF EmitMissed
  <2>5. \A d \in missed : d.ts \in Nat /\ d.sym \in Symbols
    BY <2>1 DEF Candle
  <2>6. \A d \in missed' : d.ts > c.ts
    BY <2>1, <2>3, <2>4, <2>5
  <2>7. lastSeen'[c.sym] = c.ts
    BY <2>2, <2>5 DEF TypeOK
  <2>8. \A d \in missed' : d.ts > lastSeen'[d.sym]
    BY <2>1, <2>3, <2>6, <2>7
  <2> QED
    BY <2>1, <2>2, <2>8 DEF MissedIsAhead
<1>10. CASE SaveCandle
  BY <1>10 DEF SaveCandle, MissedIsAhead, streamVars
<1>11. CASE UpdateCursor
  BY <1>11 DEF UpdateCursor, MissedIsAhead, streamVars
<1>12. CASE EvaluateRules
  BY <1>12 DEF EvaluateRules, MissedIsAhead, streamVars
<1>13. CASE ConnectionLost
  BY <1>13 DEF ConnectionLost, MissedIsAhead
<1>14. CASE Crash
  <2>1. missed' = {}
    BY <1>14 DEF Crash
  <2> QED
    BY <2>1 DEF MissedIsAhead
<1>15. ASSUME NEW s \in Symbols, BackfillFails(s) PROVE MissedIsAhead'
  BY <1>15 DEF BackfillFails, MissedIsAhead
<1>16. ASSUME NEW s \in Symbols, PollFails(s) PROVE MissedIsAhead'
  BY <1>16 DEF PollFails, MissedIsAhead
<1>17. CASE CandlesClose
  BY <1>17 DEF CandlesClose, MissedIsAhead
<1>18. ASSUME NEW s \in Symbols, CandleUpdated(s) PROVE MissedIsAhead'
  BY <1>18 DEF CandleUpdated, MissedIsAhead
<1> QED
  BY <1>1, <1>2, <1>3, <1>4, <1>5, <1>6, <1>7, <1>8, <1>9, <1>10, <1>11, <1>12,
     <1>13, <1>14, <1>15, <1>16, <1>17, <1>18
     DEF Next, WorkerStep, Faults, Exchange

\* Order and storage, step by step.
LEMMA OrderStep ==
    ASSUME TypeOK, MissedIsAhead, CursorFollows, EvaluatedInOrder, StoredFirst,
           EvaluatedIsStored, StoredAsEvaluated, Next
    PROVE  /\ CursorFollows' /\ EvaluatedInOrder'
           /\ StoredFirst' /\ EvaluatedIsStored' /\ StoredAsEvaluated'
<1>1. CASE Start
  BY <1>1, StartStep
<1>2. CASE Connect
  BY <1>2, QuietStep DEF Connect, history, Pcs
<1>3. CASE BackfillDone
  BY <1>3, QuietStep DEF BackfillDone, streamVars, history, Pcs
<1>4. CASE ReadMessage
  <2>1. pc = "live" /\ UNCHANGED <<tableVars, evaluated, crashed>>
    BY <1>4 DEF ReadMessage, history
  <2>2. CASE Closed(Head(queue)) /\ Newer(Head(queue))
    <3>1. Head(queue) \in Candle
      BY <1>4 DEF TypeOK, ReadMessage
    <3>2. Emit(Head(queue), "live")
      BY <1>4, <2>2 DEF ReadMessage
    <3> QED
      BY <2>1, <2>2, <3>1, <3>2, EmittedIsNewer
  <2>3. CASE ~(Closed(Head(queue)) /\ Newer(Head(queue)))
    <3>1. UNCHANGED <<lastSeen, cur, pc>>
      BY <1>4, <2>3 DEF ReadMessage
    <3> QED
      BY <2>1, <3>1, QuietStep
  <2> QED
    BY <2>2, <2>3
<1>5. CASE Reconnect
  BY <1>5, QuietStep DEF Reconnect, history, Pcs
<1>6. CASE NextPoll
  BY <1>6, QuietStep DEF NextPoll, history
<1>7. ASSUME NEW s \in Symbols, Backfill(s)
      PROVE  UNCHANGED <<lastSeen, cur, tableVars, evaluated, crashed, pc>>
  BY <1>7 DEF Backfill, history
<1>8. ASSUME NEW s \in Symbols, PollSymbol(s)
      PROVE  /\ CursorFollows' /\ EvaluatedInOrder'
             /\ StoredFirst' /\ EvaluatedIsStored' /\ StoredAsEvaluated'
  <2>1. pc = "poll" /\ UNCHANGED <<tableVars, evaluated, crashed>>
    BY <1>8 DEF PollSymbol, history
  <2>2. PICK k \in NewestListed :
          IF Newer(CandleAt(s, k)) THEN Emit(CandleAt(s, k), "poll")
                                   ELSE UNCHANGED <<lastSeen, cur, back, pc>>
    BY <1>8 DEF PollSymbol
  <2>3. CandleAt(s, k) \in Candle
    <3>1. now \in Nat /\ k \in Nat
      BY DEF TypeOK, NewestListed
    <3> QED
      BY <3>1, CandleTyped
  <2>4. CASE Newer(CandleAt(s, k))
    BY <2>1, <2>2, <2>3, <2>4, EmittedIsNewer
  <2>5. CASE ~Newer(CandleAt(s, k))
    BY <2>1, <2>2, <2>5, QuietStep
  <2> QED
    BY <2>4, <2>5
<1>9. ASSUME NEW c \in missed, EmitMissed(c)
      PROVE  /\ CursorFollows' /\ EvaluatedInOrder'
             /\ StoredFirst' /\ EvaluatedIsStored' /\ StoredAsEvaluated'
  <2>1. c \in Candle /\ Newer(c)
    BY DEF TypeOK, MissedIsAhead, Newer
  <2>2. /\ pc = "backfill" /\ Emit(c, "backfill")
        /\ UNCHANGED <<tableVars, evaluated, crashed>>
    BY <1>9 DEF EmitMissed, history
  <2> QED
    BY <2>1, <2>2, EmittedIsNewer
<1>10. CASE SaveCandle
  BY <1>10, SaveStep
<1>11. CASE UpdateCursor
  BY <1>11, CursorStep
<1>12. CASE EvaluateRules
  BY <1>12, EvaluateStep
<1>13. CASE Crash
  BY <1>13, CrashStep
<1>14. ASSUME \/ ConnectionLost \/ CandlesClose
              \/ \E s \in Symbols : BackfillFails(s) \/ PollFails(s) \/ CandleUpdated(s)
       PROVE  UNCHANGED <<lastSeen, cur, tableVars, evaluated, crashed, pc>>
  BY <1>14 DEF ConnectionLost, CandlesClose, BackfillFails, PollFails, CandleUpdated,
               history
<1> QED
  BY <1>1, <1>2, <1>3, <1>4, <1>5, <1>6, <1>7, <1>8, <1>9, <1>10, <1>11, <1>12,
     <1>13, <1>14, QuietStep
     DEF Next, WorkerStep, Faults, Exchange

\* A worker that never ran has nothing stored, missed or evaluated.
LEMMA InvInit == Init => IngestInv
<1> SUFFICES ASSUME Init PROVE IngestInv
  OBVIOUS
<1>1. TypeOK
  BY TypeInit
<1>2. MissedIsAhead /\ StoredFirst /\ EvaluatedIsStored /\ StoredAsEvaluated
  BY DEF Init, MissedIsAhead, StoredFirst, EvaluatedIsStored, StoredAsEvaluated
<1>3. CursorFollows /\ EvaluatedInOrder
  BY DEF Init, CursorFollows, EvaluatedInOrder
<1> QED
  BY <1>1, <1>2, <1>3 DEF IngestInv

\* The four parts of the invariant, step by step.
LEMMA InvStep == IngestInv /\ [Next]_vars => IngestInv'
<1> SUFFICES ASSUME IngestInv, [Next]_vars PROVE IngestInv'
  OBVIOUS
<1>1. CASE Next
  BY <1>1, TypeStep, MissedStep, OrderStep DEF IngestInv
<1>2. CASE UNCHANGED vars
  <2>1. TypeOK'
    BY <1>2, TypeStep DEF IngestInv
  <2>2. MissedIsAhead'
    BY <1>2 DEF IngestInv, MissedIsAhead, vars, streamVars
  <2>3. UNCHANGED <<lastSeen, cur, tableVars, evaluated, crashed, pc>>
    BY <1>2 DEF vars, streamVars, history
  <2> QED
    BY <2>1, <2>2, <2>3, QuietStep DEF IngestInv
<1> QED
  BY <1>1, <1>2

\* The inductive invariant: what is missed is ahead of the stream, the cursor
\* follows the stream, the evaluations follow the cursor, and candles are stored
\* before either.
THEOREM Invariance == Spec => []IngestInv
  BY InvInit, InvStep, PTL DEF Spec

\* The rules of a symbol see its candles in increasing order, none of them twice,
\* whatever crashes, reconnects, backfills and overlaps.
THEOREM AlwaysInOrder == Spec => []EvaluatedInOrder
<1>1. IngestInv => EvaluatedInOrder
  BY DEF IngestInv
<1> QED
  BY <1>1, Invariance, PTL

\* What the cursor points at and what was evaluated is in table candles.
THEOREM AlwaysStored == Spec => []EvaluatedIsStored
<1>1. IngestInv => EvaluatedIsStored
  BY DEF IngestInv
<1> QED
  BY <1>1, Invariance, PTL

\* Until the first restart, the table holds the very values that were evaluated.
THEOREM AlwaysStoredAsEvaluated == Spec => []StoredAsEvaluated
<1>1. IngestInv => StoredAsEvaluated
  BY DEF IngestInv
<1> QED
  BY <1>1, Invariance, PTL

-----------------------------------------------------------------------------
(***************************************************************************)
(* No gaps.                                                                *)
(***************************************************************************)

\* Neither polling, nor messages or a backfill where there is no connection.
Processing == {"save", "cursor", "eval"}
OneStream ==
    /\ pc # "poll"
    /\ pc \in Processing => back \in {"backfill", "live"}
    /\ pc \in {"start", "connect"} => ~up /\ queue = <<>>
    /\ (pc = "live" \/ (pc \in Processing /\ back = "live")) => todo = {}

\* The cursor is the last seen candle, but for the one at hand, which is the next.
OneAhead ==
    /\ \A s \in Symbols : first[s] = 0 <=> cursor[s] = 0
    /\ \A s \in Symbols : lastSeen[s] = cursor[s] \/ pc = "start"
                            \/ (pc \in {"save", "cursor"} /\ s = cur.sym)
    /\ pc \in {"save", "cursor"} => cursor[cur.sym] \in {0, cur.ts - 1}

InMissed(s, k) == \E c \in missed : c.sym = s /\ c.ts = k
Between(q, s, k, i, j) ==
    \E m \in DOMAIN q : i < m /\ m < j /\ q[m].sym = s /\ q[m].ts = k

\* A backfill begins at the candle after the last seen one.
MissedIsWhole ==
    \A c \in missed : /\ lastSeen[c.sym] # 0
                      /\ \A k \in lastSeen[c.sym] + 1 .. c.ts - 1 : InMissed(c.sym, k)

\* The queue skips no candle, and goes on to the present as long as the
\* connection stands.
QueueIsWhole ==
    \A i \in DOMAIN queue :
        /\ queue[i].ts <= now + 1
        /\ \A j \in DOMAIN queue : i < j /\ queue[j].sym = queue[i].sym =>
               \A k \in queue[i].ts + 1 .. queue[j].ts - 1 : Between(queue, queue[i].sym, k, i, j)
        /\ up => \A k \in queue[i].ts + 1 .. now : Between(queue, queue[i].sym, k, i, Len(queue) + 1)

\* What is between the last seen candle and one in the queue, or the present, is
\* in front of it or in the backfill, once that has been fetched.
QueueFollows ==
    \A s \in Symbols \ todo : lastSeen[s] # 0 =>
        /\ \A j \in DOMAIN queue : queue[j].sym = s =>
               \A k \in lastSeen[s] + 1 .. queue[j].ts - 1 : InMissed(s, k) \/ Between(queue, s, k, 0, j)
        /\ up => \A k \in lastSeen[s] + 1 .. now :
                     InMissed(s, k) \/ Between(queue, s, k, 0, Len(queue) + 1)

LEMMA InQueue ==
    ASSUME TypeOK
    PROVE  /\ Len(queue) \in Nat /\ DOMAIN queue = 1 .. Len(queue)
           /\ \A i \in DOMAIN queue : queue[i].sym \in Symbols /\ queue[i].ts \in Nat
           /\ now \in Nat /\ \A s \in Symbols : lastSeen[s] \in Nat
<1>1. queue \in Seq(Candle)
  BY DEF TypeOK
<1>2. \A i \in DOMAIN queue : queue[i] \in Candle
  BY <1>1
<1> QED
  BY <1>1, <1>2 DEF TypeOK, Candle

\* An update of the candle in progress, or the final candles of all symbols,
\* arrive.
Arrive(xs) ==
    /\ \A i \in DOMAIN xs : xs[i].ts = now + 1
    /\ up /\ up' /\ queue' = queue \o xs
    /\ \/ now' = now
       \/ now' = now + 1 /\ \A s \in Symbols : \E i \in DOMAIN xs : xs[i].sym = s
    /\ UNCHANGED <<lastSeen, missed, todo>>

\* They join a queue that has whatever is before them.
LEMMA ArriveWhole ==
    ASSUME TypeOK, NEW xs \in Seq(Candle), Arrive(xs), QueueIsWhole, QueueFollows
    PROVE  QueueIsWhole' /\ QueueFollows'
<1> DEFINE L == Len(queue)
<1>1. /\ L \in Nat /\ Len(xs) \in Nat /\ DOMAIN queue = 1 .. L /\ DOMAIN xs = 1 .. Len(xs)
      /\ DOMAIN queue' = 1 .. L + Len(xs) /\ Len(queue') = L + Len(xs)
      /\ \A i \in 1 .. L : queue'[i] = queue[i]
      /\ \A i \in 1 .. Len(xs) : queue'[L + i] = xs[i]
  BY InQueue DEF TypeOK, Arrive
<1>2. \A i \in DOMAIN queue' : i \notin 1 .. L => queue'[i].ts = now + 1
  <2> SUFFICES ASSUME NEW i \in DOMAIN queue', i \notin 1 .. L PROVE queue'[i].ts = now + 1
    OBVIOUS
  <2>1. i - L \in 1 .. Len(xs) /\ i = L + (i - L)
    BY <1>1
  <2>2. queue'[L + (i - L)] = xs[i - L]
    BY <1>1, <2>1
  <2> QED
    BY <1>1, <2>1, <2>2 DEF Arrive
<1>3. /\ now \in Nat /\ now' \in Nat /\ now' <= now + 1 /\ now <= now'
      /\ \A s \in Symbols : lastSeen[s] \in Nat
      /\ \A i \in 1 .. L : queue[i].sym \in Symbols /\ queue[i].ts \in Nat
      /\ up /\ UNCHANGED <<up, lastSeen, missed, todo>>
  BY InQueue DEF Arrive
<1>4. ASSUME NEW s, NEW k, NEW i, NEW j \in Nat, Between(queue, s, k, i, j)
      PROVE  \A m \in Nat : m >= j => Between(queue', s, k, i, m)
  <2>1. PICK p \in 1 .. L : i < p /\ p < j /\ queue[p].sym = s /\ queue[p].ts = k
    BY <1>1, <1>4 DEF Between
  <2>2. p \in DOMAIN queue' /\ queue'[p].sym = s /\ queue'[p].ts = k
    BY <1>1, <2>1
  <2> QED
    BY <1>4, <2>1, <2>2 DEF Between
<1>5. ASSUME now' # now, NEW s \in Symbols, NEW i \in 0 .. L
      PROVE  Between(queue', s, now + 1, i, Len(queue') + 1)
  <2>1. PICK p \in 1 .. Len(xs) : xs[p].sym = s
    BY <1>1, <1>3, <1>5 DEF Arrive
  <2>2. L + p \in DOMAIN queue' /\ queue'[L + p].sym = s /\ queue'[L + p].ts = now + 1
    BY <1>1, <2>1 DEF Arrive
  <2>3. i < L + p /\ L + p < Len(queue') + 1
    BY <1>1, <2>1
  <2> QED
    BY <2>2, <2>3 DEF Between
<1> HIDE DEF L
<1>6. ASSUME NEW i \in DOMAIN queue'
      PROVE  /\ queue'[i].ts <= now' + 1
             /\ \A j \in DOMAIN queue' : i < j /\ queue'[j].sym = queue'[i].sym =>
                    \A k \in queue'[i].ts + 1 .. queue'[j].ts - 1 : Between(queue', queue'[i].sym, k, i, j)
             /\ \A k \in queue'[i].ts + 1 .. now' : Between(queue', queue'[i].sym, k, i, Len(queue') + 1)
  <2>1. CASE i \in 1 .. L
    <3>1. queue'[i] = queue[i] /\ queue[i].sym \in Symbols /\ queue[i].ts \in Nat
          /\ queue[i].ts <= now + 1
      <4>1. i \in DOMAIN queue
        BY <1>1, <2>1
      <4>2. queue[i].ts <= now + 1
        BY <4>1 DEF QueueIsWhole
      <4>3. queue'[i] = queue[i]
        BY <1>1, <2>1
      <4>4. queue[i].sym \in Symbols /\ queue[i].ts \in Nat
        BY <1>3, <2>1
      <4> QED
        BY <4>2, <4>3, <4>4
    <3>2. ASSUME NEW k \in queue[i].ts + 1 .. now
          PROVE  Between(queue, queue[i].sym, k, i, L + 1)
      BY <1>1, <1>3, <2>1, <3>2 DEF QueueIsWhole, L
    <3>3. ASSUME NEW j \in DOMAIN queue', i < j, queue'[j].sym = queue[i].sym,
                 NEW k \in queue[i].ts + 1 .. queue'[j].ts - 1
          PROVE  Between(queue', queue[i].sym, k, i, j)
      <4>1. CASE j \in 1 .. L
        <5>1. queue'[j] = queue[j]
          BY <1>1, <4>1
        <5>2. Between(queue, queue[i].sym, k, i, j)
          BY <1>1, <2>1, <3>3, <4>1, <5>1 DEF QueueIsWhole
        <5>3. j \in Nat /\ j >= j
          BY <1>1
        <5> QED
          BY <1>4, <5>2, <5>3
      <4>2. CASE j \notin 1 .. L
        <5>1. queue'[j].ts = now + 1 /\ j \in Nat /\ j >= L + 1
          BY <1>1, <1>2, <4>2
        <5>2. k \in queue[i].ts + 1 .. now
          BY <1>3, <3>1, <3>3, <5>1
        <5> QED
          BY <1>1, <1>4, <3>2, <5>1, <5>2
      <4> QED
        BY <4>1, <4>2
    <3>4. ASSUME NEW k \in queue[i].ts + 1 .. now'
          PROVE  Between(queue', queue[i].sym, k, i, Len(queue') + 1)
      <4>1. CASE k <= now
        <5>1. Between(queue, queue[i].sym, k, i, L + 1)
          BY <1>3, <3>1, <3>2, <4>1
        <5>2. Len(queue') + 1 \in Nat /\ Len(queue') + 1 >= L + 1
          BY <1>1
        <5> QED
          BY <1>1, <1>4, <5>1, <5>2
      <4>2. CASE k > now
        <5>1. k = now + 1 /\ now' # now /\ i \in 0 .. L
          BY <1>1, <1>3, <2>1, <3>1, <4>2
        <5> QED
          BY <1>5, <3>1, <5>1
      <4> QED
        BY <1>3, <3>1, <4>1, <4>2
    <3>5. queue'[i].ts <= now' + 1
      BY <1>3, <3>1
    <3> QED
      BY <3>1, <3>3, <3>4, <3>5
  <2>2. CASE i \notin 1 .. L
    <3>1. queue'[i].ts = now + 1
      BY <1>2, <2>2
    <3>2. \A j \in DOMAIN queue' : i < j => queue'[j].ts = now + 1
      BY <1>1, <1>2, <2>2
    <3>3. now \in Nat /\ now' \in Nat /\ now' <= now + 1 /\ now <= now'
      BY <1>3
    <3>4. queue'[i].ts <= now' + 1
      BY <3>3, <3>1
    <3>5. ASSUME NEW k \in queue'[i].ts + 1 .. now' PROVE FALSE
      BY <3>3, <3>1, <3>5
    <3>6. ASSUME NEW j \in DOMAIN queue', i < j, NEW k \in queue'[i].ts + 1 .. queue'[j].ts - 1
          PROVE  FALSE
      BY <3>3, <3>1, <3>2, <3>6
    <3> QED
      BY <3>4, <3>5, <3>6
  <2> QED
    BY <2>1, <2>2
<1>7. ASSUME NEW s \in Symbols \ todo, lastSeen[s] # 0
      PROVE  /\ \A j \in DOMAIN queue' : queue'[j].sym = s =>
                    \A k \in lastSeen[s] + 1 .. queue'[j].ts - 1 : InMissed(s, k) \/ Between(queue', s, k, 0, j)
             /\ \A k \in lastSeen[s] + 1 .. now' :
                    InMissed(s, k) \/ Between(queue', s, k, 0, Len(queue') + 1)
  <2>1. ASSUME NEW k \in lastSeen[s] + 1 .. now
        PROVE  InMissed(s, k) \/ Between(queue, s, k, 0, L + 1)
    BY <1>3, <1>7, <2>1 DEF QueueFollows, L
  <2>2. ASSUME NEW j \in DOMAIN queue', queue'[j].sym = s,
               NEW k \in lastSeen[s] + 1 .. queue'[j].ts - 1
        PROVE  InMissed(s, k) \/ Between(queue', s, k, 0, j)
    <3>1. CASE j \in 1 .. L
      <4>1. queue'[j] = queue[j]
        BY <1>1, <3>1
      <4>2. InMissed(s, k) \/ Between(queue, s, k, 0, j)
        BY <1>1, <1>7, <2>2, <3>1, <4>1 DEF QueueFollows
      <4> QED
        BY <1>1, <1>4, <3>1, <4>2
    <3>2. CASE j \notin 1 .. L
      <4>1. queue'[j].ts = now + 1 /\ j \in Nat /\ j >= L + 1
        BY <1>1, <1>2, <3>2
      <4>2. k \in lastSeen[s] + 1 .. now
        BY <1>3, <2>2, <4>1
      <4> QED
        BY <1>1, <1>4, <2>1, <4>1, <4>2
    <3> QED
      BY <3>1, <3>2
  <2>3. ASSUME NEW k \in lastSeen[s] + 1 .. now'
        PROVE  InMissed(s, k) \/ Between(queue', s, k, 0, Len(queue') + 1)
    <3>1. CASE k <= now
      <4>1. InMissed(s, k) \/ Between(queue, s, k, 0, L + 1)
        BY <1>3, <2>1, <3>1
      <4>2. Len(queue') + 1 \in Nat /\ Len(queue') + 1 >= L + 1
        BY <1>1
      <4> QED
        BY <1>1, <1>4, <4>1, <4>2
    <3>2. CASE k > now
      <4>1. k = now + 1 /\ now' # now /\ 0 \in 0 .. L
        BY <1>1, <1>3, <3>2
      <4> QED
        BY <1>5, <4>1
    <3> QED
      BY <1>3, <3>1, <3>2
  <2> QED
    BY <2>2, <2>3
<1>8. QueueIsWhole'
  BY <1>3, <1>6 DEF QueueIsWhole
<1>9. \A s, k : InMissed(s, k)' <=> InMissed(s, k)
  BY <1>3 DEF InMissed
<1> QED
  BY <1>3, <1>7, <1>8, <1>9 DEF QueueFollows

\* Reading a message: what is dropped is not what the others wait for.
LEMMA TailWhole ==
    ASSUME TypeOK, queue # <<>>, queue' = Tail(queue), UNCHANGED <<now, up, missed, todo>>,
           \/ lastSeen' = lastSeen /\ ~(Closed(Head(queue)) /\ Newer(Head(queue)))
           \/ lastSeen' = [lastSeen EXCEPT ![Head(queue).sym] = Head(queue).ts],
           missed = {}, QueueIsWhole, QueueFollows
    PROVE  QueueIsWhole' /\ QueueFollows'
<1> DEFINE L == Len(queue)  h == Head(queue)
<1>1. /\ L \in Nat /\ L >= 1 /\ DOMAIN queue = 1 .. L /\ 1 \in DOMAIN queue /\ h = queue[1]
      /\ DOMAIN queue' = 1 .. L - 1 /\ Len(queue') = L - 1
      /\ \A i \in 1 .. L - 1 : queue'[i] = queue[i + 1]
  BY InQueue DEF TypeOK
<1>2. /\ now \in Nat /\ \A s \in Symbols : lastSeen[s] \in Nat
      /\ \A i \in 1 .. L : queue[i].sym \in Symbols /\ queue[i].ts \in Nat /\ queue[i].ts <= now + 1
      /\ h.sym \in Symbols /\ h.ts \in Nat
  BY <1>1, InQueue DEF QueueIsWhole
<1>3. ASSUME NEW s, NEW k, NEW i \in Nat, NEW j \in Nat, Between(queue, s, k, i + 1, j + 1)
      PROVE  Between(queue', s, k, i, j)
  <2>1. PICK m \in 1 .. L : i + 1 < m /\ m < j + 1 /\ queue[m].sym = s /\ queue[m].ts = k
    BY <1>1, <1>3 DEF Between
  <2>2. m - 1 \in 1 .. L - 1 /\ i < m - 1 /\ m - 1 < j /\ (m - 1) + 1 = m
    BY <1>1, <2>1
  <2>3. queue'[m - 1] = queue[m]
    BY <1>1, <2>2
  <2> QED
    BY <1>1, <2>1, <2>2, <2>3 DEF Between
<1> HIDE DEF L, h
<1>4. ASSUME NEW i \in DOMAIN queue'
      PROVE  /\ queue'[i].ts <= now + 1
             /\ \A j \in DOMAIN queue' : i < j /\ queue'[j].sym = queue'[i].sym =>
                    \A k \in queue'[i].ts + 1 .. queue'[j].ts - 1 : Between(queue', queue'[i].sym, k, i, j)
             /\ up => \A k \in queue'[i].ts + 1 .. now : Between(queue', queue'[i].sym, k, i, Len(queue') + 1)
  <2>1. i \in Nat /\ i + 1 \in DOMAIN queue /\ queue'[i] = queue[i + 1]
    BY <1>1
  <2>2. ASSUME NEW j \in DOMAIN queue', i < j, queue'[j].sym = queue'[i].sym,
               NEW k \in queue'[i].ts + 1 .. queue'[j].ts - 1
        PROVE  Between(queue', queue'[i].sym, k, i, j)
    <3>1. j \in Nat /\ j + 1 \in DOMAIN queue /\ queue'[j] = queue[j + 1] /\ i + 1 < j + 1
      BY <1>1, <2>1, <2>2
    <3>2. Between(queue, queue[i + 1].sym, k, i + 1, j + 1)
      BY <2>1, <2>2, <3>1 DEF QueueIsWhole
    <3> QED
      BY <1>3, <2>1, <3>1, <3>2
  <2>3. ASSUME up, NEW k \in queue'[i].ts + 1 .. now
        PROVE  Between(queue', queue'[i].sym, k, i, Len(queue') + 1)
    <3>1. Between(queue, queue[i + 1].sym, k, i + 1, L + 1)
      BY <2>1, <2>3 DEF QueueIsWhole, L
    <3>2. Len(queue') + 1 = L
      BY <1>1
    <3> QED
      BY <1>1, <1>3, <2>1, <3>1, <3>2
  <2> QED
    BY <1>1, <1>2, <2>1, <2>2, <2>3
<1>5. ASSUME NEW s \in Symbols, NEW j \in 1 .. L, NEW k, Between(queue, s, k, 0, j + 1), ~(h.sym = s /\ h.ts = k)
      PROVE  Between(queue', s, k, 0, j)
  <2>1. PICK m \in 1 .. L : 0 < m /\ m < j + 1 /\ queue[m].sym = s /\ queue[m].ts = k
    BY <1>1, <1>5 DEF Between
  <2>2. m # 1
    BY <1>1, <1>5, <2>1
  <2>3. Between(queue, s, k, 0 + 1, j + 1)
    BY <1>1, <2>1, <2>2 DEF Between
  <2> QED
    BY <1>1, <1>3, <2>3
<1>6. \A s, k : ~InMissed(s, k)
  BY DEF InMissed
<1>7. ASSUME NEW s \in Symbols \ todo, lastSeen'[s] # 0, NEW j \in 1 .. L, NEW k,
             \/ j < L /\ queue[j + 1].sym = s /\ k \in lastSeen'[s] + 1 .. queue[j + 1].ts - 1
             \/ j = L /\ up /\ k \in lastSeen'[s] + 1 .. now
      PROVE  Between(queue', s, k, 0, j)
  <2>1. CASE lastSeen' = lastSeen /\ ~(Closed(h) /\ Newer(h))
    <3>1. Between(queue, s, k, 0, j + 1)
      <4>1. CASE j < L
        <5>1. j + 1 \in DOMAIN queue /\ queue[j + 1].sym = s /\ k \in lastSeen[s] + 1 .. queue[j + 1].ts - 1
          BY <1>1, <1>7, <2>1, <4>1
        <5> QED
          BY <1>6, <1>7, <2>1, <5>1 DEF QueueFollows
      <4>2. CASE j = L
        BY <1>1, <1>6, <1>7, <2>1, <4>2 DEF QueueFollows, L
      <4> QED
        BY <1>1, <4>1, <4>2
    <3>2. k \in Int /\ k > lastSeen[s] /\ k <= now
      BY <1>1, <1>2, <1>7, <2>1
    <3>3. ~(h.sym = s /\ h.ts = k)
      BY <1>2, <2>1, <3>2 DEF Closed, Newer
    <3> QED
      BY <1>5, <3>1, <3>3
  <2>2. CASE lastSeen' = [lastSeen EXCEPT ![h.sym] = h.ts] /\ s # h.sym
    <3>1. lastSeen'[s] = lastSeen[s]
      BY <2>2 DEF TypeOK
    <3>2. Between(queue, s, k, 0, j + 1)
      <4>1. CASE j < L
        <5>1. j + 1 \in DOMAIN queue /\ queue[j + 1].sym = s /\ k \in lastSeen[s] + 1 .. queue[j + 1].ts - 1
          BY <1>1, <1>7, <3>1, <4>1
        <5> QED
          BY <1>6, <1>7, <3>1, <5>1 DEF QueueFollows
      <4>2. CASE j = L
        BY <1>1, <1>6, <1>7, <3>1, <4>2 DEF QueueFollows, L
      <4> QED
        BY <1>1, <4>1, <4>2
    <3> QED
      BY <1>5, <2>2, <3>2
  <2>3. CASE lastSeen' = [lastSeen EXCEPT ![h.sym] = h.ts] /\ s = h.sym
    <3>1. lastSeen'[s] = queue[1].ts /\ queue[1].sym = s
      BY <1>1, <2>3 DEF TypeOK
    <3>2. Between(queue, s, k, 1, j + 1)
      <4>1. CASE j < L
        <5>1. j + 1 \in DOMAIN queue /\ 1 < j + 1 /\ queue[j + 1].sym = s
              /\ k \in queue[1].ts + 1 .. queue[j + 1].ts - 1
          BY <1>1, <1>7, <3>1, <4>1
        <5> QED
          BY <1>1, <3>1, <5>1 DEF QueueIsWhole
      <4>2. CASE j = L
        BY <1>1, <1>7, <3>1, <4>2 DEF QueueIsWhole, L
      <4> QED
        BY <1>1, <4>1, <4>2
    <3> QED
      BY <1>1, <1>3, <3>2
  <2> QED
    BY <2>1, <2>2, <2>3 DEF h
<1>8. QueueIsWhole'
  BY <1>4 DEF QueueIsWhole
<1>9. ASSUME NEW s \in Symbols \ todo, lastSeen'[s] # 0
      PROVE  /\ \A j \in DOMAIN queue' : queue'[j].sym = s =>
                    \A k \in lastSeen'[s] + 1 .. queue'[j].ts - 1 : Between(queue', s, k, 0, j)
             /\ up => \A k \in lastSeen'[s] + 1 .. now : Between(queue', s, k, 0, Len(queue') + 1)
  <2>1. \A j \in DOMAIN queue' : j \in 1 .. L /\ j < L /\ queue'[j] = queue[j + 1]
    BY <1>1
  <2>2. Len(queue') + 1 = L /\ L \in 1 .. L
    BY <1>1
  <2> QED
    BY <1>7, <1>9, <2>1, <2>2
<1> QED
  BY <1>8, <1>9 DEF QueueFollows

\* Without messages and without a connection there is nothing to skip.
LEMMA NoQueueWhole ==
    ASSUME queue' = <<>>, ~up' \/ todo' = Symbols
    PROVE  QueueIsWhole' /\ QueueFollows'
<1>1. DOMAIN queue' = {}
  OBVIOUS
<1> QED
  BY <1>1 DEF QueueIsWhole, QueueFollows

\* Steps that leave the stream alone.
LEMMA StreamWhole ==
    ASSUME UNCHANGED <<now, streamVars>>, MissedIsWhole, QueueIsWhole, QueueFollows
    PROVE  MissedIsWhole' /\ QueueIsWhole' /\ QueueFollows'
<1>1. UNCHANGED <<now, up, queue, todo, missed, lastSeen>>
  BY DEF streamVars
<1>2. \A s, k : InMissed(s, k)' <=> InMissed(s, k)
  BY <1>1 DEF InMissed
<1>3. MissedIsWhole'
  BY <1>1, <1>2 DEF MissedIsWhole
<1>4. QueueIsWhole'
  BY <1>1 DEF QueueIsWhole
<1> QED
  BY <1>1, <1>2, <1>3, <1>4 DEF QueueFollows

\* The backfill of a symbol: all that has closed since the last seen candle.
LEMMA BackfillWhole ==
    ASSUME TypeOK, NEW s \in Symbols, Backfill(s), MissedIsWhole, QueueIsWhole, QueueFollows
    PROVE  MissedIsWhole' /\ QueueIsWhole' /\ QueueFollows'
<1>1. /\ UNCHANGED <<now, up, queue, lastSeen>> /\ missed = {} /\ todo' = todo \ {s}
      /\ now \in Nat /\ lastSeen[s] \in Nat
  BY DEF Backfill, TypeOK
<1>2. QueueIsWhole'
  BY <1>1 DEF QueueIsWhole
<1>3. CASE lastSeen[s] = 0
  <2>1. missed' = {}
    BY <1>3 DEF Backfill
  <2>2. \A t, k : InMissed(t, k)' <=> InMissed(t, k)
    BY <1>1, <2>1 DEF InMissed
  <2>3. \A t \in Symbols \ todo' : lastSeen'[t] # 0 => t \in Symbols \ todo /\ lastSeen[t] # 0
    BY <1>1, <1>3
  <2>4. MissedIsWhole'
    BY <2>1 DEF MissedIsWhole
  <2>5. QueueFollows'
    BY <1>1, <2>2, <2>3 DEF QueueFollows
  <2> QED
    BY <1>2, <2>4, <2>5
<1>4. CASE lastSeen[s] # 0
  <2>1. missed' \in {Missed(s), Missed(s) \cup InProgress(s)}
    BY <1>4 DEF Backfill
  <2>2. ASSUME NEW k \in lastSeen[s] + 1 .. now PROVE InMissed(s, k)'
    <3>1. CandleAt(s, k) \in missed' /\ k \in Nat
      BY <1>1, <2>1 DEF Missed
    <3> QED
      BY <1>1, <3>1, CandleTyped DEF InMissed
  <2>3. ASSUME NEW c \in missed' PROVE c.sym = s /\ c.ts \in Nat /\ c.ts <= now + 1
    <3>1. PICK k \in Nat : k <= now + 1 /\ c = CandleAt(s, k)
      BY <1>1, <2>1 DEF Missed, InProgress
    <3> QED
      BY <1>1, <3>1, CandleTyped
  <2>4. MissedIsWhole'
    <3> SUFFICES ASSUME NEW c \in missed'
                 PROVE  /\ lastSeen[c.sym] # 0
                        /\ \A k \in lastSeen[c.sym] + 1 .. c.ts - 1 : InMissed(c.sym, k)'
      BY <1>1 DEF MissedIsWhole
    <3> QED
      BY <1>1, <1>4, <2>2, <2>3
  <2>5. QueueFollows'
    <3> SUFFICES ASSUME NEW t \in Symbols \ todo', lastSeen[t] # 0
                 PROVE  /\ \A j \in DOMAIN queue : queue[j].sym = t =>
                             \A k \in lastSeen[t] + 1 .. queue[j].ts - 1 :
                                 InMissed(t, k)' \/ Between(queue, t, k, 0, j)
                        /\ up => \A k \in lastSeen[t] + 1 .. now :
                                 InMissed(t, k)' \/ Between(queue, t, k, 0, Len(queue) + 1)
      BY <1>1 DEF QueueFollows
    <3>1. CASE t = s
      <4>1. \A j \in DOMAIN queue : queue[j].ts \in Nat /\ queue[j].ts <= now + 1
        BY InQueue DEF QueueIsWhole
      <4> QED
        BY <1>1, <2>2, <3>1, <4>1
    <3>2. CASE t # s
      <4>1. t \in Symbols \ todo
        BY <1>1, <3>2
      <4>2. \A k : ~InMissed(t, k)
        BY <1>1 DEF InMissed
      <4> QED
        BY <4>1, <4>2 DEF QueueFollows
    <3> QED
      BY <3>1, <3>2
  <2> QED
    BY <1>2, <2>4, <2>5
<1> QED
  BY <1>3, <1>4

\* A candle of a backfill follows the last seen one.
LEMMA EmitMissedWhole ==
    ASSUME TypeOK, MissedIsAhead, NEW c \in missed, EmitMissed(c),
           MissedIsWhole, QueueIsWhole, QueueFollows
    PROVE  /\ c.ts = lastSeen[c.sym] + 1 /\ lastSeen[c.sym] # 0
           /\ MissedIsWhole' /\ QueueIsWhole' /\ QueueFollows'
<1>1. /\ missed' = missed \ {c} /\ UNCHANGED <<now, up, queue, todo>>
      /\ lastSeen' = [lastSeen EXCEPT ![c.sym] = c.ts]
      /\ \A d \in missed : c.ts <= d.ts
  BY DEF EmitMissed, Emit
<1>2. /\ \A d \in missed : d.sym = c.sym /\ d.ts \in Nat
      /\ c.sym \in Symbols /\ \A s \in Symbols : lastSeen[s] \in Nat
      /\ c.ts > lastSeen[c.sym]
  BY DEF TypeOK, MissedIsAhead, Candle
<1>3. lastSeen[c.sym] # 0 /\ \A d \in missed :
          \A k \in lastSeen[c.sym] + 1 .. d.ts - 1 : InMissed(c.sym, k)
  BY <1>2 DEF MissedIsWhole
<1>4. c.ts = lastSeen[c.sym] + 1
  <2> SUFFICES ASSUME lastSeen[c.sym] + 1 \in lastSeen[c.sym] + 1 .. c.ts - 1 PROVE FALSE
    BY <1>2
  <2>1. PICK d \in missed : d.ts = lastSeen[c.sym] + 1
    BY <1>3 DEF InMissed
  <2> QED
    BY <1>1, <1>2, <2>1
<1>5. lastSeen'[c.sym] = c.ts /\ c.ts # 0 /\ \A s \in Symbols : s # c.sym => lastSeen'[s] = lastSeen[s]
  BY <1>1, <1>2 DEF TypeOK
<1>6. \A s, k : InMissed(s, k) /\ k # c.ts => InMissed(s, k)'
  BY <1>1 DEF InMissed
<1>7. MissedIsWhole'
  <2> SUFFICES ASSUME NEW d \in missed'
               PROVE  /\ lastSeen'[d.sym] # 0
                      /\ \A k \in lastSeen'[d.sym] + 1 .. d.ts - 1 : InMissed(d.sym, k)'
    BY DEF MissedIsWhole
  <2>1. d \in missed /\ d.sym = c.sym /\ d.ts \in Nat
    BY <1>1, <1>2
  <2>2. ASSUME NEW k \in c.ts + 1 .. d.ts - 1 PROVE InMissed(c.sym, k)'
    <3>1. k \in lastSeen[c.sym] + 1 .. d.ts - 1 /\ k # c.ts
      BY <1>2, <2>1
    <3> QED
      BY <1>3, <1>6, <2>1, <3>1
  <2> QED
    BY <1>5, <2>1, <2>2
<1>8. QueueIsWhole'
  BY <1>1 DEF QueueIsWhole
<1>9. QueueFollows'
  <2> SUFFICES ASSUME NEW s \in Symbols \ todo, lastSeen'[s] # 0
               PROVE  /\ \A j \in DOMAIN queue : queue[j].sym = s =>
                             \A k \in lastSeen'[s] + 1 .. queue[j].ts - 1 :
                                 InMissed(s, k)' \/ Between(queue, s, k, 0, j)
                      /\ up => \A k \in lastSeen'[s] + 1 .. now :
                                 InMissed(s, k)' \/ Between(queue, s, k, 0, Len(queue) + 1)
    BY <1>1 DEF QueueFollows
  <2>1. lastSeen[s] # 0 /\ \A k \in Int : k > lastSeen'[s] => k > lastSeen[s]
    BY <1>2, <1>3, <1>5
  <2>2. \A k \in Int : k > lastSeen'[s] /\ InMissed(s, k) => InMissed(s, k)'
    <3> SUFFICES ASSUME NEW k \in Int, k > lastSeen'[s], InMissed(s, k), k = c.ts PROVE FALSE
      BY <1>6
    <3>1. s = c.sym
      BY <1>2 DEF InMissed
    <3> QED
      BY <1>2, <1>5, <3>1
  <2>3. \A j \in DOMAIN queue : queue[j].ts \in Nat
    BY InQueue
  <2>4. now \in Nat /\ lastSeen[s] \in Nat /\ lastSeen'[s] \in Nat
    BY <1>2, <1>5 DEF TypeOK
  <2>5. ASSUME NEW j \in DOMAIN queue, queue[j].sym = s, NEW k \in lastSeen'[s] + 1 .. queue[j].ts - 1
        PROVE  InMissed(s, k)' \/ Between(queue, s, k, 0, j)
    <3>1. k \in lastSeen[s] + 1 .. queue[j].ts - 1 /\ k \in Int /\ k > lastSeen'[s]
      BY <2>1, <2>3, <2>4
    <3>2. InMissed(s, k) \/ Between(queue, s, k, 0, j)
      BY <2>1, <2>5, <3>1 DEF QueueFollows
    <3> QED
      BY <2>2, <3>1, <3>2
  <2>6. ASSUME up, NEW k \in lastSeen'[s] + 1 .. now
        PROVE  InMissed(s, k)' \/ Between(queue, s, k, 0, Len(queue) + 1)
    <3>1. k \in lastSeen[s] + 1 .. now /\ k \in Int /\ k > lastSeen'[s]
      BY <2>1, <2>4
    <3>2. InMissed(s, k) \/ Between(queue, s, k, 0, Len(queue) + 1)
      BY <2>1, <2>6, <3>1 DEF QueueFollows
    <3> QED
      BY <2>2, <3>1, <3>2
  <2> QED
    BY <2>5, <2>6
<1> QED
  BY <1>3, <1>4, <1>7, <1>8, <1>9

\* So does a message that is taken from the queue.
LEMMA ReadIsNext ==
    ASSUME TypeOK, queue # <<>>, Newer(Head(queue)), missed = {}, todo = {}, QueueFollows,
           lastSeen[Head(queue).sym] # 0
    PROVE  Head(queue).ts = lastSeen[Head(queue).sym] + 1
<1>1. 1 \in DOMAIN queue /\ Head(queue) = queue[1]
  BY InQueue DEF TypeOK
<1>2. queue[1].sym \in Symbols /\ queue[1].ts \in Nat /\ lastSeen[queue[1].sym] \in Nat
      /\ queue[1].ts > lastSeen[queue[1].sym]
  BY <1>1, InQueue DEF Newer
<1> DEFINE s == queue[1].sym  k == lastSeen[queue[1].sym] + 1
<1>3. SUFFICES ASSUME k \in lastSeen[s] + 1 .. queue[1].ts - 1 PROVE FALSE
  BY <1>1, <1>2
<1>4. InMissed(s, k) \/ Between(queue, s, k, 0, 1)
  BY <1>1, <1>2, <1>3 DEF QueueFollows
<1>5. ~InMissed(s, k)
  BY DEF InMissed
<1>6. ~Between(queue, s, k, 0, 1)
  BY InQueue DEF Between
<1> QED
  BY <1>4, <1>5, <1>6

\* The queue and the backfill together, step by step.
LEMMA WholeStep ==
    ASSUME TypeOK, MissedIsAhead, OneStream, MissedIsWhole, QueueIsWhole, QueueFollows,
           Next, ~lossy'
    PROVE  MissedIsWhole' /\ QueueIsWhole' /\ QueueFollows'
<1>1. pc \in {"start", "connect", "live", "poll"} => missed = {}
  BY DEF MissedIsAhead
<1>2. ASSUME missed' = {} PROVE MissedIsWhole'
  BY <1>2 DEF MissedIsWhole
<1>3. CASE Start
  <2>1. queue' = <<>> /\ ~up' /\ missed' = {}
    BY <1>1, <1>3 DEF Start, OneStream
  <2> QED
    BY <1>2, <2>1, NoQueueWhole
<1>4. CASE Connect
  <2>1. queue' = <<>> /\ todo' = Symbols /\ missed' = {}
    BY <1>1, <1>4 DEF Connect
  <2> QED
    BY <1>2, <2>1, NoQueueWhole
<1>5. CASE Reconnect
  <2>1. queue' = <<>> /\ ~up' /\ missed' = {}
    BY <1>1, <1>5 DEF Reconnect
  <2> QED
    BY <1>2, <2>1, NoQueueWhole
<1>6. CASE Crash
  <2>1. queue' = <<>> /\ ~up' /\ missed' = {}
    BY <1>6 DEF Crash
  <2> QED
    BY <1>2, <2>1, NoQueueWhole
<1>7. CASE ReadMessage
  <2>1. /\ queue # <<>> /\ queue' = Tail(queue) /\ UNCHANGED <<now, up, missed, todo>>
        /\ missed = {}
    BY <1>1, <1>7 DEF ReadMessage
  <2>2. \/ lastSeen' = lastSeen /\ ~(Closed(Head(queue)) /\ Newer(Head(queue)))
        \/ lastSeen' = [lastSeen EXCEPT ![Head(queue).sym] = Head(queue).ts]
    BY <1>7 DEF ReadMessage, Emit
  <2> QED
    BY <1>2, <2>1, <2>2, TailWhole
<1>8. ASSUME NEW s \in Symbols, Backfill(s)
      PROVE  MissedIsWhole' /\ QueueIsWhole' /\ QueueFollows'
  BY <1>8, BackfillWhole
<1>9. ASSUME NEW c \in missed, EmitMissed(c)
      PROVE  MissedIsWhole' /\ QueueIsWhole' /\ QueueFollows'
  BY <1>9, EmitMissedWhole
<1>10. CASE BackfillDone \/ SaveCandle \/ UpdateCursor \/ EvaluateRules
  <2>1. UNCHANGED <<now, streamVars>>
    BY <1>10 DEF BackfillDone, SaveCandle, UpdateCursor, EvaluateRules
  <2> QED
    BY <2>1, StreamWhole
<1>11. CASE ConnectionLost
  <2>1. ~up' /\ UNCHANGED <<now, queue, todo, missed, lastSeen>>
    BY <1>11 DEF ConnectionLost
  <2>2. \A s, k : InMissed(s, k)' <=> InMissed(s, k)
    BY <2>1 DEF InMissed
  <2>3. MissedIsWhole'
    BY <2>1, <2>2 DEF MissedIsWhole
  <2>4. QueueIsWhole'
    BY <2>1 DEF QueueIsWhole
  <2> QED
    BY <2>1, <2>2, <2>3, <2>4 DEF QueueFollows
<1>12. CASE CandlesClose
  <2>1. UNCHANGED <<up, todo, missed, lastSeen>> /\ now' = now + 1 /\ now \in Nat
    BY <1>12 DEF CandlesClose, TypeOK
  <2>2. \A s, k : InMissed(s, k)' <=> InMissed(s, k)
    BY <2>1 DEF InMissed
  <2>3. MissedIsWhole'
    BY <2>1, <2>2 DEF MissedIsWhole
  <2>4. CASE ~up
    <3>1. queue' = queue
      BY <1>12, <2>4 DEF CandlesClose
    <3>2. \A i \in DOMAIN queue : queue[i].ts \in Nat /\ queue[i].ts <= now'+ 1
      BY <2>1, InQueue DEF QueueIsWhole
    <3>3. QueueIsWhole'
      BY <2>1, <2>4, <3>1, <3>2 DEF QueueIsWhole
    <3> QED
      BY <2>1, <2>2, <2>3, <2>4, <3>1, <3>3 DEF QueueFollows
  <2>5. CASE up
    <3>1. PICK order \in [1 .. Cardinality(Symbols) -> Symbols] :
            /\ \A s \in Symbols : \E i \in DOMAIN order : order[i] = s
            /\ queue' = queue \o [i \in DOMAIN order |->
                                    [sym |-> order[i], ts |-> now + 1, final |-> TRUE]]
      BY <1>12, <2>5 DEF CandlesClose
    <3> DEFINE closing == [i \in DOMAIN order |->
                             [sym |-> order[i], ts |-> now + 1, final |-> TRUE]]
    <3>2. Cardinality(Symbols) \in Nat
      BY SymbolsAssumption, FS_CardinalityType
    <3>3. closing \in [1 .. Cardinality(Symbols) -> Candle]
      BY <2>1 DEF Candle
    <3>4. closing \in Seq(Candle)
      BY <3>2, <3>3
    <3>5. /\ \A i \in DOMAIN closing : closing[i].ts = now + 1
          /\ \A s \in Symbols : \E i \in DOMAIN closing : closing[i].sym = s
      BY <3>1
    <3>6. queue' = queue \o closing
      BY <3>1
    <3> HIDE DEF closing
    <3>7. Arrive(closing)
      BY <2>1, <2>5, <3>5, <3>6 DEF Arrive
    <3> QED
      BY <2>3, <3>4, <3>7, ArriveWhole
  <2> QED
    BY <2>4, <2>5
<1>13. ASSUME NEW s \in Symbols, CandleUpdated(s)
       PROVE  MissedIsWhole' /\ QueueIsWhole' /\ QueueFollows'
  <2>1. /\ UNCHANGED <<now, up, todo, missed, lastSeen>> /\ up /\ now \in Nat
        /\ queue' = Append(queue, CandleAt(s, now + 1)) /\ queue \in Seq(Candle)
    BY <1>13 DEF CandleUpdated, TypeOK
  <2>2. CandleAt(s, now + 1) \in Candle /\ CandleAt(s, now + 1).ts = now + 1
    BY <2>1, CandleTyped
  <2> DEFINE c == CandleAt(s, now + 1)
  <2> HIDE DEF c
  <2>3. c \in Candle /\ c.ts = now + 1 /\ queue' = Append(queue, c)
    BY <2>1, <2>2 DEF c
  <2>4. <<c>> \in Seq(Candle) /\ queue' = queue \o <<c>>
    BY <2>1, <2>3
  <2>5. \A i \in DOMAIN <<c>> : <<c>>[i].ts = now + 1
    BY <2>3
  <2>6. Arrive(<<c>>)
    BY <2>1, <2>4, <2>5 DEF Arrive
  <2>7. \A t, k : InMissed(t, k)' <=> InMissed(t, k)
    BY <2>1 DEF InMissed
  <2>8. MissedIsWhole'
    BY <2>1, <2>7 DEF MissedIsWhole
  <2> QED
    BY <2>4, <2>6, <2>8, ArriveWhole
<1>14. ~NextPoll /\ \A s \in Symbols : ~PollSymbol(s) /\ ~PollFails(s) /\ ~BackfillFails(s)
  BY DEF OneStream, NextPoll, PollSymbol, PollFails, BackfillFails
<1> QED
  BY <1>3, <1>4, <1>5, <1>6, <1>7, <1>8, <1>9, <1>10, <1>11, <1>12, <1>13, <1>14
     DEF Next, WorkerStep, Faults, Exchange

\* Where the worker is, step by step.
LEMMA OneStreamStep ==
    ASSUME TypeOK, OneStream, Next, ~lossy'
    PROVE  OneStream'
<1>1. CASE Start
  BY <1>1, ModesAssumption DEF Start, OneStream, Processing, TypeOK
<1>2. CASE Connect \/ BackfillDone \/ ReadMessage \/ Reconnect
  BY <1>2 DEF Connect, BackfillDone, ReadMessage, Reconnect, Emit, streamVars, OneStream, Processing
<1>3. ASSUME NEW s \in Symbols, Backfill(s) PROVE OneStream'
  BY <1>3 DEF Backfill, OneStream, Processing
<1>4. ASSUME NEW c \in missed, EmitMissed(c) PROVE OneStream'
  BY <1>4 DEF EmitMissed, Emit, OneStream, Processing
<1>5. CASE SaveCandle \/ UpdateCursor
  BY <1>5 DEF SaveCandle, UpdateCursor, streamVars, OneStream, Processing
<1>6. CASE EvaluateRules
  BY <1>6 DEF EvaluateRules, streamVars, OneStream, Processing
<1>7. CASE ConnectionLost \/ Crash
  BY <1>7 DEF ConnectionLost, Crash, OneStream, Processing
<1>8. CASE CandlesClose
  BY <1>8 DEF CandlesClose, OneStream, Processing
<1>9. ASSUME NEW s \in Symbols, CandleUpdated(s) PROVE OneStream'
  BY <1>9 DEF CandleUpdated, OneStream, Processing
<1>10. ~NextPoll /\ \A s \in Symbols : ~PollSymbol(s) /\ ~PollFails(s) /\ ~BackfillFails(s)
  BY DEF OneStream, NextPoll, PollSymbol, PollFails, BackfillFails
<1> QED
  BY <1>1, <1>2, <1>3, <1>4, <1>5, <1>6, <1>7, <1>8, <1>9, <1>10
     DEF Next, WorkerStep, Faults, Exchange

\* A candle that leaves the stream is the next one of its symbol.
LEMMA EmitAhead ==
    ASSUME TypeOK, OneAhead, pc \in {"backfill", "live"}, NEW c \in Candle, NEW next, Emit(c, next),
           lastSeen[c.sym] \in {0, c.ts - 1}, UNCHANGED <<cursor, first>>
    PROVE  OneAhead'
<1>1. /\ c.sym \in Symbols /\ cur' = c /\ pc' = "save"
      /\ lastSeen' = [lastSeen EXCEPT ![c.sym] = c.ts]
  BY DEF Emit, Candle
<1>2. \A s \in Symbols : lastSeen[s] = cursor[s]
  BY DEF OneAhead
<1>3. \A s \in Symbols : s # c.sym => lastSeen'[s] = lastSeen[s]
  BY <1>1 DEF TypeOK
<1> QED
  BY <1>1, <1>2, <1>3 DEF OneAhead

\* The cursor and the stream, step by step.
LEMMA OneAheadStep ==
    ASSUME TypeOK, MissedIsAhead, CursorFollows, OneStream, OneAhead,
           MissedIsWhole, QueueIsWhole, QueueFollows, Next, ~lossy'
    PROVE  OneAhead'
<1>1. CASE Start
  BY <1>1 DEF Start, OneAhead, tableVars, TypeOK
<1>2. CASE Connect \/ BackfillDone \/ Reconnect
  BY <1>2 DEF Connect, BackfillDone, Reconnect, streamVars, tableVars, history, OneAhead
<1>3. CASE ReadMessage
  <2>1. pc = "live" /\ queue # <<>> /\ UNCHANGED <<cursor, first>> /\ todo = {} /\ missed = {}
    BY <1>3 DEF ReadMessage, tableVars, history, OneStream, MissedIsAhead
  <2>2. CASE Closed(Head(queue)) /\ Newer(Head(queue))
    <3>1. Emit(Head(queue), "live")
      BY <1>3, <2>2 DEF ReadMessage
    <3>2. Head(queue) \in Candle
      BY <2>1 DEF TypeOK
    <3>3. lastSeen[Head(queue).sym] \in Nat /\ Head(queue).ts \in Nat
      BY <3>2 DEF TypeOK, Candle
    <3>4. lastSeen[Head(queue).sym] # 0 => Head(queue).ts = lastSeen[Head(queue).sym] + 1
      BY <2>1, <2>2, ReadIsNext
    <3> QED
      BY <2>1, <3>1, <3>2, <3>3, <3>4, EmitAhead
  <2>3. CASE ~(Closed(Head(queue)) /\ Newer(Head(queue)))
    BY <1>3, <2>1, <2>3 DEF ReadMessage, OneAhead
  <2> QED
    BY <2>2, <2>3
<1>4. ASSUME NEW s \in Symbols, Backfill(s) PROVE OneAhead'
  BY <1>4 DEF Backfill, tableVars, history, OneAhead
<1>5. ASSUME NEW c \in missed, EmitMissed(c) PROVE OneAhead'
  <2>1. c \in Candle /\ lastSeen[c.sym] \in Nat /\ c.ts = lastSeen[c.sym] + 1
    BY <1>5, EmitMissedWhole DEF TypeOK, Candle
  <2>2. pc = "backfill" /\ Emit(c, "backfill") /\ UNCHANGED <<cursor, first>>
    BY <1>5 DEF EmitMissed, tableVars, history
  <2>3. lastSeen[c.sym] = c.ts - 1
    BY <2>1
  <2> QED
    BY <2>1, <2>2, <2>3, EmitAhead
<1>6. CASE SaveCandle
  BY <1>6 DEF SaveCandle, streamVars, history, OneAhead
<1>7. CASE UpdateCursor
  <2>1. /\ pc = "cursor" /\ pc' = "eval" /\ UNCHANGED <<lastSeen, cur>>
        /\ cursor' = [cursor EXCEPT ![cur.sym] = cur.ts]
        /\ first' = [first EXCEPT ![cur.sym] = IF @ = 0 THEN cur.ts ELSE @]
    BY <1>7 DEF UpdateCursor, streamVars
  <2>2. /\ cur.sym \in Symbols /\ cur.ts \in Nat /\ cursor[cur.sym] \in Nat
        /\ cur.ts = lastSeen[cur.sym] /\ cursor[cur.sym] < cur.ts
    BY <2>1 DEF TypeOK, Candle, CursorFollows
  <2>3. \A s \in Symbols : /\ cursor'[s] = IF s = cur.sym THEN cur.ts ELSE cursor[s]
                           /\ first'[s] = IF s = cur.sym /\ first[s] = 0 THEN cur.ts ELSE first[s]
    BY <2>1, <2>2 DEF TypeOK
  <2> QED
    BY <2>1, <2>2, <2>3 DEF OneAhead
<1>8. CASE EvaluateRules
  BY <1>8 DEF EvaluateRules, streamVars, tableVars, OneAhead, TypeOK
<1>9. CASE Crash
  BY <1>9 DEF Crash, tableVars, OneAhead
<1>10. CASE ConnectionLost \/ CandlesClose
  BY <1>10 DEF ConnectionLost, CandlesClose, tableVars, history, OneAhead
<1>11. ASSUME NEW s \in Symbols, CandleUpdated(s) PROVE OneAhead'
  BY <1>11 DEF CandleUpdated, tableVars, history, OneAhead
<1>12. ~NextPoll /\ \A s \in Symbols : ~PollSymbol(s) /\ ~PollFails(s) /\ ~BackfillFails(s)
  BY DEF OneStream, NextPoll, PollSymbol, PollFails, BackfillFails
<1> QED
  BY <1>1, <1>2, <1>3, <1>4, <1>5, <1>6, <1>7, <1>8, <1>9, <1>10, <1>11, <1>12
     DEF Next, WorkerStep, Faults, Exchange

\* The table has no gap as long as the cursor moves by one.
LEMMA NoGapStep ==
    ASSUME TypeOK, CursorFollows, StoredFirst, OneAhead, NoGap, Next
    PROVE  NoGap'
<1>1. CASE UpdateCursor
  <2>1. /\ pc = "cursor" /\ stored' = stored
        /\ cursor' = [cursor EXCEPT ![cur.sym] = cur.ts]
        /\ first' = [first EXCEPT ![cur.sym] = IF @ = 0 THEN cur.ts ELSE @]
    BY <1>1 DEF UpdateCursor
  <2>2. /\ cur.sym \in Symbols /\ cur.ts \in Nat
        /\ \A s \in Symbols : cursor[s] \in Nat /\ first[s] \in Nat
    BY DEF TypeOK, Candle
  <2>3. \E d \in stored : d.sym = cur.sym /\ d.ts = cur.ts
    BY <2>1 DEF StoredFirst, SameKey
  <2>4. \A s \in Symbols : /\ cursor'[s] = IF s = cur.sym THEN cur.ts ELSE cursor[s]
                           /\ first'[s] = IF s = cur.sym /\ first[s] = 0 THEN cur.ts ELSE first[s]
    BY <2>1, <2>2 DEF TypeOK
  <2> SUFFICES ASSUME NEW s \in Symbols, first'[s] # 0, NEW k \in first'[s] .. cursor'[s]
               PROVE  \E d \in stored : d.sym = s /\ d.ts = k
    BY <2>1 DEF NoGap
  <2>5. CASE s = cur.sym /\ first[s] = 0
    <3>1. k = cur.ts
      BY <2>2, <2>4, <2>5
    <3> QED
      BY <2>3, <2>5, <3>1
  <2>6. CASE s = cur.sym /\ first[s] # 0
    <3>1. cursor[s] = cur.ts - 1
      BY <2>1, <2>6 DEF OneAhead
    <3>2. k = cur.ts \/ k \in first[s] .. cursor[s]
      BY <2>2, <2>4, <2>6, <3>1
    <3> QED
      BY <2>3, <2>6, <3>2 DEF NoGap
  <2>7. CASE s # cur.sym
    BY <2>4, <2>7 DEF NoGap
  <2> QED
    BY <2>5, <2>6, <2>7
<1>2. CASE SaveCandle
  <2>1. stored \subseteq stored' /\ UNCHANGED <<cursor, first>>
    BY <1>2 DEF SaveCandle, history
  <2> QED
    BY <2>1 DEF NoGap
<1>3. CASE ~UpdateCursor /\ ~SaveCandle
  <2>1. UNCHANGED <<stored, cursor, first>>
    BY <1>3 DEF Next, WorkerStep, Faults, Exchange, Start, Connect, BackfillDone, ReadMessage,
                Reconnect, NextPoll, Backfill, PollSymbol, EmitMissed, EvaluateRules,
                ConnectionLost, Crash, BackfillFails, PollFails, CandlesClose, CandleUpdated,
                tableVars, history
  <2> QED
    BY <2>1 DEF NoGap
<1> QED
  BY <1>1, <1>2, <1>3

\* What holds until a REST call fails or the worker polls.
Gapless ==
    ~lossy => OneStream /\ OneAhead /\ MissedIsWhole /\ QueueIsWhole /\ QueueFollows /\ NoGap

LEMMA GaplessInit == Init => Gapless
<1> SUFFICES ASSUME Init PROVE Gapless
  OBVIOUS
<1>1. DOMAIN queue = {} /\ missed = {} /\ ~up
  BY DEF Init
<1>2. QueueIsWhole /\ QueueFollows /\ MissedIsWhole
  BY <1>1 DEF QueueIsWhole, QueueFollows, MissedIsWhole
<1>3. OneStream /\ OneAhead
  BY DEF Init, OneStream, OneAhead, Processing
<1>4. NoGap
  BY DEF Init, NoGap
<1> QED
  BY <1>2, <1>3, <1>4 DEF Gapless

LEMMA GaplessStep == IngestInv /\ Gapless /\ [Next]_vars => Gapless'
<1> SUFFICES ASSUME IngestInv, Gapless, [Next]_vars, ~lossy'
             PROVE  /\ OneStream' /\ OneAhead' /\ MissedIsWhole'
                    /\ QueueIsWhole' /\ QueueFollows' /\ NoGap'
  BY DEF Gapless
<1>1. CASE Next
  <2>1. ~lossy
    BY <1>1 DEF Next, WorkerStep, Faults, Exchange, Start, Connect, BackfillDone, ReadMessage,
                Reconnect, NextPoll, Backfill, PollSymbol, EmitMissed, SaveCandle, UpdateCursor,
                EvaluateRules, ConnectionLost, Crash, BackfillFails, PollFails, CandlesClose,
                CandleUpdated, history
  <2> QED
    BY <1>1, <2>1, OneStreamStep, OneAheadStep, WholeStep, NoGapStep DEF IngestInv, Gapless
<1>2. CASE UNCHANGED vars
  <2>1. UNCHANGED <<now, streamVars>> /\ UNCHANGED <<pc, back, up, queue, todo, cursor, first,
                                                     stored, lastSeen, cur, lossy>>
    BY <1>2 DEF vars, streamVars, tableVars, history
  <2>2. OneStream /\ OneAhead /\ MissedIsWhole /\ QueueIsWhole /\ QueueFollows /\ NoGap
    BY <2>1 DEF Gapless
  <2>3. OneStream' /\ OneAhead' /\ NoGap'
    BY <2>1, <2>2 DEF OneStream, OneAhead, NoGap
  <2> QED
    BY <2>1, <2>2, <2>3, StreamWhole
<1> QED
  BY <1>1, <1>2

\* Whatever reconnects, restarts and backfills overlap, table candles has no gap
\* from the first cursor on, unless a REST call failed or the worker polled.
THEOREM NeverAGapUnlessRestFails == Spec => []NoGapUnlessRestFails
<1>1. Gapless => NoGapUnlessRestFails
  BY DEF Gapless, NoGap, NoGapUnlessRestFails
<1> QED
  BY <1>1, GaplessInit, GaplessStep, Invariance, PTL DEF Spec
=============================================================================
