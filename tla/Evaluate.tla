------------------------------ MODULE Evaluate ------------------------------
(***************************************************************************)
(* Evaluation of the rules of one symbol by the main loops of several      *)
(* workers: the rules they read once at startup, the cooldown and its race,*)
(* and the errors that main_loop handles, those that evaluate() swallows,  *)
(* and those that end the worker.                                          *)
(*                                                                         *)
(* Time counts intervals.  Candle k opens at k - 1, closes at k, and is    *)
(* ingested in order (module Ingest); whether a rule matches it is open.   *)
(* An alert's window is its candle's, so a candle has one alert per rule.  *)
(***************************************************************************)
EXTENDS Integers, FiniteSets

CONSTANTS
    Workers, Rules,
    Null,           \* no rule; cooldown_seconds: null, which RuleUpdate lets through
    Cooldowns,      \* values of cooldown_seconds, in intervals; may include Null
    MaxTime, MaxEdits, MaxFaults   \* bounds of the model

ASSUME CooldownsAssumption == Null \notin Nat /\ Cooldowns \subseteq Nat \cup {Null}
ASSUME SetsAssumption == IsFiniteSet(Workers) /\ IsFiniteSet(Rules) /\ Null \notin Rules
ASSUME BoundsAssumption == MaxTime \in Nat /\ MaxEdits \in Nat /\ MaxFaults \in Nat

VARIABLES
    now,
    state,      \* a row of rules: "new" (none yet), "on", "off", "gone"
    cooldown,   \* its cooldown_seconds
    alerts,     \* table alerts: [rule, triggered], and history, see NewAlert
    cursor,     \* last_processed_timestamp of each worker, 0 for none
    pc,         \* where the main loop is: "down", "rules", "evaluate"
    cur,        \* the candle it works on, or has worked on
    snap,       \* load_active_rules: the rules it knows, with their cooldowns
    todo,       \* rules still to be evaluated on cur
    rule,       \* the rule being evaluated, or Null
    failed,     \* its session is in a failed transaction
    \* history
    lost,       \* <<w, k>>: some rule was not evaluated on candle k by w
    edits, faults

table == <<state, cooldown>>
worker == <<cursor, pc, cur, snap, todo, rule, failed>>
vars == <<now, table, alerts, worker, lost, edits, faults>>

NoRules == [r \in {} |-> 0]

Init ==
    /\ now = 0
    /\ state \in [Rules -> {"new", "on"}]
    /\ cooldown \in [Rules -> Cooldowns \ {Null}]
    /\ alerts = {}
    /\ cursor = [w \in Workers |-> 0]
    /\ pc = [w \in Workers |-> "down"]
    /\ cur = [w \in Workers |-> 0]
    /\ snap = [w \in Workers |-> NoRules]
    /\ todo = [w \in Workers |-> {}]
    /\ rule = [w \in Workers |-> Null]
    /\ failed = [w \in Workers |-> FALSE]
    /\ lost = {}
    /\ edits = 0
    /\ faults = 0

-----------------------------------------------------------------------------
(***************************************************************************)
(* Startup and the loop over the candles.                                  *)
(***************************************************************************)

Loadable(r) == state[r] = "on"

\* Variant: the stream is not told where the last run of the worker stopped.
SeedNothing(w) == 0
Seed(w) == cursor[w]

\* The worker starts: load_active_rules, get_all_cursors, seed_last_seen, a fresh
\* session.
Start(w) ==
    /\ pc[w] = "down"
    /\ snap' = [snap EXCEPT ![w] = [r \in {s \in Rules : Loadable(s)} |-> cooldown[r]]]
    /\ cur' = [cur EXCEPT ![w] = Seed(w)]
    /\ pc' = [pc EXCEPT ![w] = "rules"]
    /\ UNCHANGED <<now, table, alerts, cursor, todo, rule, failed, lost, edits, faults>>

\* The process ends, and with it all that it holds in memory.
Dies(w) ==
    /\ pc' = [pc EXCEPT ![w] = "down"]
    /\ cur' = [cur EXCEPT ![w] = 0]
    /\ snap' = [snap EXCEPT ![w] = NoRules]
    /\ todo' = [todo EXCEPT ![w] = {}]
    /\ rule' = [rule EXCEPT ![w] = Null]
    /\ failed' = [failed EXCEPT ![w] = FALSE]
    /\ UNCHANGED <<now, table, alerts, cursor, edits>>

\* The stream has a candle: the one after the last, or the newest if the worker
\* has no cursor yet.
Ready(w, k) ==
    /\ pc[w] = "rules" /\ todo[w] = {}
    /\ k = IF cur[w] = 0 THEN now ELSE cur[w] + 1
    /\ k \in 1 .. now

Take(w, k) ==
    /\ cursor' = [cursor EXCEPT ![w] = k]
    /\ cur' = [cur EXCEPT ![w] = k]
    /\ todo' = [todo EXCEPT ![w] = DOMAIN snap[w]]
    /\ UNCHANGED <<now, table, alerts, snap, rule, failed, edits, faults>>

\* Variant: save_candle and update_cursor let no error through.
SaveCandleSwallowing(w, k) ==
    /\ Ready(w, k)
    /\ Take(w, k)
    /\ UNCHANGED <<pc, lost>>

\* save_candle and update_cursor.  On a failed session the commit raises
\* something else than IntegrityError, which ends the worker.
SaveCandle(w, k) ==
    /\ Ready(w, k)
    /\ IF failed[w]
       THEN Dies(w) /\ UNCHANGED <<lost, faults>>
       ELSE Take(w, k) /\ UNCHANGED <<pc, lost>>

\* The process dies, or a commit of save_candle or update_cursor fails.
Crash(w) ==
    /\ pc[w] # "down" /\ faults < MaxFaults
    /\ faults' = faults + 1
    /\ Dies(w)
    /\ lost' = IF todo[w] = {} THEN lost ELSE lost \cup {<<w, cur[w]>>}

-----------------------------------------------------------------------------
(***************************************************************************)
(* evaluate(): the cooldown.                                               *)
(***************************************************************************)

Opens(k) == k - 1
AlertsOf(r) == {a \in alerts : a.rule = r}

\* Variant: the oldest alert of the rule is taken.
LastAlertOldest(r) == CHOOSE a \in AlertsOf(r) : \A b \in AlertsOf(r) : a.triggered <= b.triggered

\* The newest alert of the rule, by triggered_at.
LastAlert(r) == CHOOSE a \in AlertsOf(r) : \A b \in AlertsOf(r) : a.triggered >= b.triggered

\* Within the cooldown, by the clock, counted from the last triggered_at.
Within(r, cd) == AlertsOf(r) # {} /\ now < LastAlert(r).triggered + cd

\* The query raises on a failed session; a null cooldown raises in timedelta
\* once there is an alert.  Both end in the handler of main_loop.
CheckRaises(w, r) ==
    LET cd == snap[w][r]
    IN (cd # 0 /\ failed[w]) \/ (cd = Null /\ AlertsOf(r) # {})

\* The handler of main_loop: logged, rolled back, next rule.
Handled(w, r) ==
    /\ todo' = [todo EXCEPT ![w] = @ \ {r}]
    /\ failed' = [failed EXCEPT ![w] = FALSE]

CheckCooldown(w, r) ==
    /\ pc[w] = "rules" /\ r \in todo[w]
    /\ IF CheckRaises(w, r)
       THEN /\ Handled(w, r)
            /\ lost' = IF failed[w] THEN lost \cup {<<w, cur[w]>>} ELSE lost
            /\ UNCHANGED <<pc, rule>>
       ELSE IF snap[w][r] \notin {0, Null} /\ Within(r, snap[w][r])
       THEN todo' = [todo EXCEPT ![w] = @ \ {r}] /\ UNCHANGED <<pc, rule, failed, lost>>
       ELSE /\ pc' = [pc EXCEPT ![w] = "evaluate"]
            /\ rule' = [rule EXCEPT ![w] = r]
            /\ UNCHANGED <<todo, failed, lost>>
    /\ UNCHANGED <<now, table, alerts, cursor, cur, snap, edits, faults>>

CooldownQueryFails(w, r) ==
    /\ pc[w] = "rules" /\ r \in todo[w] /\ snap[w][r] # 0
    /\ faults < MaxFaults
    /\ faults' = faults + 1
    /\ Handled(w, r)
    /\ lost' = lost \cup {<<w, cur[w]>>}
    /\ UNCHANGED <<now, table, alerts, cursor, pc, cur, snap, rule, edits>>

-----------------------------------------------------------------------------
(***************************************************************************)
(* evaluate(): the rule class and the insert.                              *)
(***************************************************************************)

\* evaluate returns; main_loop goes on with the next rule.
Return(w) ==
    /\ pc' = [pc EXCEPT ![w] = "rules"]
    /\ todo' = [todo EXCEPT ![w] = @ \ {rule[w]}]
    /\ rule' = [rule EXCEPT ![w] = Null]

NoMatch(w) ==
    /\ pc[w] = "evaluate"
    /\ Return(w)
    /\ UNCHANGED <<now, table, alerts, cursor, cur, snap, failed, lost, edits, faults>>

\* Variant: alerts.rule_id without its foreign key.
InsertsAnyRule(r, k) == \A a \in AlertsOf(r) : a.triggered # Opens(k)

\* The foreign key, and uq_alert_window.
CanInsert(r, k) ==
    /\ state[r] \in {"on", "off"}
    /\ \A a \in AlertsOf(r) : a.triggered # Opens(k)

\* History: who raised it, when and with what cooldown, and after which alerts.
NewAlert(w) ==
    [rule |-> rule[w], triggered |-> Opens(cur[w]), by |-> w, inserted |-> now,
     cd |-> snap[w][rule[w]], after |-> {a.triggered : a \in AlertsOf(rule[w])}]

\* _create_alert on a sound session.  An IntegrityError, of either constraint, is
\* taken for a conflict.  The new alert is dispatched (module Delivery), which
\* leaves the session clean: it commits, or raises to the handler.
Match(w) ==
    /\ pc[w] = "evaluate" /\ ~failed[w]
    /\ alerts' = IF CanInsert(rule[w], cur[w]) THEN alerts \cup {NewAlert(w)} ELSE alerts
    /\ Return(w)
    /\ UNCHANGED <<now, table, cursor, cur, snap, failed, lost, edits, faults>>

\* On a failed session the query of the rule class, or the insert, raises, and
\* the error is swallowed.
SwallowedAgain(w) ==
    /\ pc[w] = "evaluate" /\ failed[w]
    /\ lost' = lost \cup {<<w, cur[w]>>}
    /\ Return(w)
    /\ UNCHANGED <<now, table, alerts, cursor, cur, snap, failed, edits, faults>>

\* A query of the rule class, the insert, its commit or the refresh raises.  The
\* session is left failed; not so by a commit, which may have been applied.
Swallowed(w) ==
    /\ pc[w] = "evaluate" /\ ~failed[w]
    /\ faults < MaxFaults
    /\ faults' = faults + 1
    /\ \/ failed' = [failed EXCEPT ![w] = TRUE] /\ UNCHANGED alerts
       \/ /\ CanInsert(rule[w], cur[w])
          /\ alerts' \in {alerts, alerts \cup {NewAlert(w)}}
          /\ failed' \in {failed, [failed EXCEPT ![w] = TRUE]}
    /\ lost' = lost \cup {<<w, cur[w]>>}
    /\ Return(w)
    /\ UNCHANGED <<now, table, cursor, cur, snap, edits>>

-----------------------------------------------------------------------------
(***************************************************************************)
(* The rules API, time.                                                    *)
(***************************************************************************)

Edit(r) ==
    /\ edits < MaxEdits
    /\ edits' = edits + 1
    /\ UNCHANGED <<now, worker, lost, faults>>

\* POST /rules
CreateRule(r) ==
    /\ state[r] = "new"
    /\ Edit(r)
    /\ \E s \in {"on", "off"}, cd \in Cooldowns \ {Null} :
         state' = [state EXCEPT ![r] = s] /\ cooldown' = [cooldown EXCEPT ![r] = cd]
    /\ UNCHANGED alerts

\* PUT /rules/{id}: the fields that are set.
UpdateRule(r) ==
    /\ state[r] \in {"on", "off"}
    /\ Edit(r)
    /\ \E s \in {"on", "off"}, cd \in Cooldowns :
         state' = [state EXCEPT ![r] = s] /\ cooldown' = [cooldown EXCEPT ![r] = cd]
    /\ UNCHANGED alerts

\* DELETE /rules/{id} takes the alerts along.
DeleteRule(r) ==
    /\ state[r] \in {"on", "off"}
    /\ Edit(r)
    /\ state' = [state EXCEPT ![r] = "gone"]
    /\ alerts' = {a \in alerts : a.rule # r}
    /\ UNCHANGED cooldown

Tick ==
    /\ now < MaxTime
    /\ now' = now + 1
    /\ UNCHANGED <<table, alerts, worker, lost, edits, faults>>

-----------------------------------------------------------------------------
Step(w) ==
    \/ Start(w)
    \/ \E k \in 1 .. MaxTime : SaveCandle(w, k)
    \/ \E r \in Rules : CheckCooldown(w, r)
    \/ NoMatch(w) \/ Match(w) \/ SwallowedAgain(w)

Fault(w) ==
    \/ Crash(w) \/ Swallowed(w)
    \/ \E r \in Rules : CooldownQueryFails(w, r)

Next ==
    \/ \E w \in Workers : Step(w) \/ Fault(w)
    \/ \E r \in Rules : CreateRule(r) \/ UpdateRule(r) \/ DeleteRule(r)
    \/ Tick

Spec == Init /\ [][Next]_vars

\* The event loop runs every worker, docker restarts it, and time passes.
FairSpec == Spec /\ WF_vars(Tick) /\ \A w \in Workers : WF_vars(Step(w))

-----------------------------------------------------------------------------
(***************************************************************************)
(* Properties.                                                             *)
(***************************************************************************)

Alert == [rule : Rules, triggered : 0 .. MaxTime, by : Workers, inserted : 0 .. MaxTime,
          cd : Cooldowns, after : SUBSET (0 .. MaxTime)]

Snapshot == UNION {[S -> Cooldowns] : S \in SUBSET Rules}

TypeOK ==
    /\ now \in 0 .. MaxTime
    /\ state \in [Rules -> {"new", "on", "off", "gone"}]
    /\ cooldown \in [Rules -> Cooldowns]
    /\ alerts \subseteq Alert
    /\ cursor \in [Workers -> 0 .. MaxTime]
    /\ pc \in [Workers -> {"down", "rules", "evaluate"}]
    /\ cur \in [Workers -> 0 .. MaxTime]
    /\ snap \in [Workers -> Snapshot]
    /\ todo \in [Workers -> SUBSET Rules]
    /\ rule \in [Workers -> Rules \cup {Null}]
    /\ failed \in [Workers -> BOOLEAN]
    /\ \A w \in Workers : /\ todo[w] \subseteq DOMAIN snap[w]
                          /\ rule[w] \in (IF pc[w] = "evaluate" THEN todo[w] ELSE {Null})
                          /\ pc[w] # "down" => cur[w] = cursor[w]
                          /\ pc[w] = "down" => DOMAIN snap[w] = {} /\ ~failed[w]
                          /\ todo[w] # {} => cur[w] > 0
    /\ lost \subseteq Workers \X (1 .. MaxTime)
    /\ edits \in 0 .. MaxEdits
    /\ faults \in 0 .. MaxFaults

\* A cooldown that starts with alert a is running.  A null cooldown never ends.
Running(a, cd, time) == cd = Null \/ (cd # Null /\ time < a.triggered + cd)

\* Alert b came after alert a, while its cooldown was running.
Early(a, b) ==
    /\ a.rule = b.rule /\ a.triggered \in b.after
    /\ Running(a, b.cd, b.inserted)

\* What the cooldown guarantees: counted from the open time of the alert's candle,
\* at most one early alert per other worker, whose check came before that alert.
\* A single worker raises none, whatever edits, errors and restarts.
CooldownSlack ==
    \A a \in alerts : Cardinality({b \in alerts : Early(a, b)}) < Cardinality(Workers)

\* A rule that is deleted is silent from then on and takes its alerts along, also
\* where workers go on evaluating it, or are at it while it is deleted: their
\* inserts fail.
DeletedIsSilent == \A a \in alerts : state[a.rule] \in {"on", "off"}

\* An error, handled or swallowed, and a crash each cost rules of one candle
\* only: the candle that meets a failed session is fetched again.
LossIsOneCandle == Cardinality(lost) <= faults

\* A session does not stay failed: a rollback, or the death of the worker, ends it
\* with the next candle at the latest.
SessionRecovers ==
    \A w \in Workers : (failed[w] /\ cur[w] < MaxTime) ~> ~failed[w]
=============================================================================
