------------------------------ MODULE Delivery ------------------------------
(***************************************************************************)
(* Delivery of alerts: the insert that ends RuleEvaluator._create_alert,   *)
(* AlertDispatcher.dispatch, the retry scheduler, the writes of the rules  *)
(* API that touch the same tables, and the crash and restart of a worker.  *)
(*                                                                         *)
(* Every worker process runs two tasks on sessions of their own: the main  *)
(* loop, which creates an alert and dispatches it, and the retry           *)
(* scheduler, which polls the table for pending alerts.  A step ends at    *)
(* every await at which another task, worker or API request can intervene. *)
(*                                                                         *)
(* An element of Alerts is the identity the constraint uq_alert_window     *)
(* gives an alert: a rule and a one-minute window.                         *)
(***************************************************************************)
EXTENDS Integers, FiniteSets

CONSTANTS
    Workers,        \* worker processes (docker compose --scale worker=n)
    Rules,          \* rules the API holds at the start
    Alerts,         \* alerts the candles can raise
    NoRule, NoAlert,
    RuleOf,         \* the rule of each alert (Alert.rule_id)
    MaxAttempts,    \* settings.retry_backoff_max
    BatchLimit,     \* LIMIT of the scheduler's query (50 in the code)
    ChannelSets,    \* sets of webhook URLs a rule may be configured with
    MaxFaults       \* bound on crashes and failed database calls

Channels == {"discord", "generic"}

ASSUME WorkersAssumption == IsFiniteSet(Workers)
ASSUME AlertsAssumption == IsFiniteSet(Alerts) /\ NoAlert \notin Alerts
ASSUME RulesAssumption == NoRule \notin Rules /\ RuleOf \in [Alerts -> Rules]
ASSUME LimitsAssumption == /\ MaxAttempts \in Nat \ {0}
                           /\ BatchLimit \in Nat \ {0}
                           /\ MaxFaults \in Nat
ASSUME ChannelsAssumption == ChannelSets \subseteq SUBSET Channels

VARIABLES
    rules,      \* rows of table rules
    channels,   \* webhook URLs of each rule
    rows,       \* rows of table alerts
    status,     \* delivery_status
    attempts,   \* delivery_attempts
    recent,     \* rows whose last_delivery_attempt may be within the backoff
    createdAt,  \* order of created_at; 0 for an alert never created
    records,    \* rows of alert_delivery_attempts, per alert
    okRecords,  \* those of them with status "success"
    \* the main loop of each worker
    mainPc, mAlert, mStatus, mAttempts, mTodo, mAdded, mOk,
    \* the retry scheduler of each worker
    retryPc, batch, batchAttempts, batchRecent,
    rAlert, rRule, rChannels, rTodo, rOk,
    \* history: alerts some recipient got, delivery rounds committed, faults
    reached, rounds, faults

ruleVars == <<rules, channels>>
alertVars == <<rows, status, attempts, recent, createdAt, records, okRecords>>
mainVars == <<mainPc, mAlert, mStatus, mAttempts, mTodo, mAdded, mOk>>
retryVars == <<retryPc, batch, batchAttempts, batchRecent,
               rAlert, rRule, rChannels, rTodo, rOk>>
history == <<reached, rounds, faults>>
vars == <<ruleVars, alertVars, mainVars, retryVars, history>>

MainPcs == {"idle", "inserted", "loaded", "post", "commit", "unrecorded"}
RetryPcs == {"next", "post", "commit"}

\* delivery_status_enum
Verdicts == {"pending", "delivered", "failed"}

Init ==
    /\ rules = Rules
    /\ channels \in [Rules -> ChannelSets]
    /\ rows = {}
    /\ status = [a \in Alerts |-> "pending"]
    /\ attempts = [a \in Alerts |-> 0]
    /\ recent = {}
    /\ createdAt = [a \in Alerts |-> 0]
    /\ records = [a \in Alerts |-> 0]
    /\ okRecords = [a \in Alerts |-> 0]
    /\ mainPc = [w \in Workers |-> "idle"]
    /\ mAlert = [w \in Workers |-> NoAlert]
    /\ mStatus = [w \in Workers |-> "pending"]
    /\ mAttempts = [w \in Workers |-> 0]
    /\ mTodo = [w \in Workers |-> {}]
    /\ mAdded = [w \in Workers |-> 0]
    /\ mOk = [w \in Workers |-> FALSE]
    /\ retryPc = [w \in Workers |-> "next"]
    /\ batch = [w \in Workers |-> {}]
    /\ batchAttempts = [w \in Workers |-> [a \in Alerts |-> 0]]
    /\ batchRecent = [w \in Workers |-> {}]
    /\ rAlert = [w \in Workers |-> NoAlert]
    /\ rRule = [w \in Workers |-> NoRule]
    /\ rChannels = [w \in Workers |-> {}]
    /\ rTodo = [w \in Workers |-> {}]
    /\ rOk = [w \in Workers |-> FALSE]
    /\ reached = {}
    /\ rounds = [a \in Alerts |-> 0]
    /\ faults = 0

-----------------------------------------------------------------------------
(***************************************************************************)
(* Shared steps.                                                           *)
(***************************************************************************)

\* Discord is tried first, the generic webhook after it.
NextChannel(todo) == IF "discord" \in todo THEN "discord" ELSE "generic"

\* Variant: any answer of the webhook counts as a success (no raise_for_status).
SendAnyAnswer(a, ok) == reached' \in {reached, reached \cup {a}}

\* One POST: the sender sees a 2xx only if the recipient got the message; the
\* recipient may also get it while the sender sees a timeout or an error.
Send(a, ok) ==
    IF ok THEN reached' = reached \cup {a}
          ELSE reached' \in {reached, reached \cup {a}}

\* Variant: only a successful round leaves its audit rows.
WriteRoundOkAudited(a, count, verdict, added, ok) ==
    /\ attempts' = [attempts EXCEPT ![a] = count]
    /\ status' = [status EXCEPT ![a] = verdict]
    /\ recent' = recent \cup {a}
    /\ records' = [records EXCEPT ![a] = @ + (IF ok THEN added ELSE 0)]
    /\ okRecords' = [okRecords EXCEPT ![a] = @ + (IF ok THEN 1 ELSE 0)]
    /\ rounds' = [rounds EXCEPT ![a] = @ + 1]
    /\ UNCHANGED <<rows, createdAt>>

\* The commit of a delivery round: the audit rows it added and the columns of
\* the alert it changed, in one transaction.
WriteRound(a, count, verdict, added, ok) ==
    /\ attempts' = [attempts EXCEPT ![a] = count]
    /\ status' = [status EXCEPT ![a] = verdict]
    /\ recent' = recent \cup {a}
    /\ records' = [records EXCEPT ![a] = @ + added]
    /\ okRecords' = [okRecords EXCEPT ![a] = @ + (IF ok THEN 1 ELSE 0)]
    /\ rounds' = [rounds EXCEPT ![a] = @ + 1]
    /\ UNCHANGED <<rows, createdAt>>

-----------------------------------------------------------------------------
(***************************************************************************)
(* The main loop: evaluate's insert, then dispatch.                        *)
(***************************************************************************)

\* The main loop gives up what it was doing: the end of dispatch, or an error
\* that reaches the handler of main_loop, which rolls the session back.
MainIdle(w) ==
    /\ mainPc' = [mainPc EXCEPT ![w] = "idle"]
    /\ mAlert' = [mAlert EXCEPT ![w] = NoAlert]
    /\ mStatus' = [mStatus EXCEPT ![w] = "pending"]
    /\ mAttempts' = [mAttempts EXCEPT ![w] = 0]
    /\ mTodo' = [mTodo EXCEPT ![w] = {}]
    /\ mAdded' = [mAdded EXCEPT ![w] = 0]
    /\ mOk' = [mOk EXCEPT ![w] = FALSE]

\* Variant: no unique constraint on the rule and window.
CanInsertAgain(a) == RuleOf[a] \in rules

\* _create_alert's INSERT succeeds unless uq_alert_window or the foreign key to
\* rules refuses it (then it returns None and nothing changes).
CanInsert(a) == a \notin rows /\ RuleOf[a] \in rules

\* The INSERT and its commit: the row is pending and visible to every worker
\* before this worker has dispatched it.
InsertAlert(w, a) ==
    /\ mainPc[w] = "idle"
    /\ CanInsert(a)
    /\ rows' = rows \cup {a}
    /\ createdAt' = [createdAt EXCEPT ![a] = 1 +
                       Cardinality({b \in Alerts : createdAt[b] > 0})]
    /\ mainPc' = [mainPc EXCEPT ![w] = "inserted"]
    /\ mAlert' = [mAlert EXCEPT ![w] = a]
    /\ UNCHANGED <<status, attempts, recent, records, okRecords,
                   mStatus, mAttempts, mTodo, mAdded, mOk>>
    /\ UNCHANGED <<ruleVars, retryVars, history>>

\* refresh(alert) reads the row back; it may have changed since the commit, and
\* evaluate swallows the error of a row that is gone.
RefreshAlert(w) ==
    /\ mainPc[w] = "inserted"
    /\ IF mAlert[w] \in rows
       THEN /\ mainPc' = [mainPc EXCEPT ![w] = "loaded"]
            /\ mStatus' = [mStatus EXCEPT ![w] = status[mAlert[w]]]
            /\ mAttempts' = [mAttempts EXCEPT ![w] = attempts[mAlert[w]]]
            /\ UNCHANGED <<mAlert, mTodo, mAdded, mOk>>
       ELSE MainIdle(w)
    /\ UNCHANGED <<ruleVars, alertVars, retryVars, history>>

\* dispatch reads the rule for its current URLs; without one it returns.
LoadRule(w) ==
    /\ mainPc[w] = "loaded"
    /\ IF RuleOf[mAlert[w]] \in rules
       THEN LET urls == channels[RuleOf[mAlert[w]]] IN
            /\ mTodo' = [mTodo EXCEPT ![w] = urls]
            /\ mainPc' = [mainPc EXCEPT ![w] = IF urls = {} THEN "commit"
                                                           ELSE "post"]
            /\ UNCHANGED <<mAlert, mStatus, mAttempts, mAdded, mOk>>
       ELSE MainIdle(w)
    /\ UNCHANGED <<ruleVars, alertVars, retryVars, history>>

\* A failed refresh or a failed query of the rule.
MainQueryFails(w) ==
    /\ mainPc[w] \in {"inserted", "loaded"}
    /\ faults < MaxFaults
    /\ faults' = faults + 1
    /\ MainIdle(w)
    /\ UNCHANGED <<ruleVars, alertVars, retryVars, reached, rounds>>

\* One channel of dispatch, with the audit row added for it.
Post(w, ok) ==
    LET left == mTodo[w] \ {NextChannel(mTodo[w])} IN
    /\ mainPc[w] = "post"
    /\ Send(mAlert[w], ok)
    /\ mTodo' = [mTodo EXCEPT ![w] = left]
    /\ mAdded' = [mAdded EXCEPT ![w] = @ + 1]
    /\ mOk' = [mOk EXCEPT ![w] = ok]
    /\ mainPc' = [mainPc EXCEPT ![w] = IF ok \/ left = {} THEN "commit"
                                                         ELSE "post"]
    /\ UNCHANGED <<mAlert, mStatus, mAttempts, rounds, faults>>
    /\ UNCHANGED <<ruleVars, alertVars, retryVars>>

\* Variant: the status of the attempt instead of that of the alert.
DispatchVerdictOfAttempt(w) == IF mOk[w] THEN "success" ELSE "pending"

\* The UPDATE holds only the columns whose value differs from the one loaded:
\* "pending" over a loaded "pending" writes no status at all.
DispatchVerdict(w) ==
    LET new == IF mOk[w] THEN "delivered" ELSE "pending" IN
    IF new = mStatus[w] THEN status[mAlert[w]] ELSE new

DispatchWrites(w) ==
    WriteRound(mAlert[w], mAttempts[w] + 1, DispatchVerdict(w), mAdded[w], mOk[w])

\* The commit of dispatch.  An alert deleted meanwhile fails the flush, and the
\* error ends in main_loop's rollback.
CommitDispatch(w) ==
    /\ mainPc[w] = "commit"
    /\ IF mAlert[w] \in rows
       THEN DispatchWrites(w)
       ELSE UNCHANGED <<alertVars, rounds>>
    /\ MainIdle(w)
    /\ UNCHANGED <<ruleVars, retryVars, reached, faults>>

\* The commit raises; the server may have applied it.  After a discord success
\* the commit is inside dispatch's try block, so dispatch can go on to the
\* generic webhook with a session that can commit nothing any more.
CommitDispatchFails(w, applied) ==
    /\ mainPc[w] = "commit"
    /\ faults < MaxFaults
    /\ faults' = faults + 1
    /\ IF applied /\ mAlert[w] \in rows
       THEN DispatchWrites(w)
       ELSE UNCHANGED <<alertVars, rounds>>
    /\ \/ MainIdle(w)
       \/ /\ mOk[w] /\ mTodo[w] # {}
          /\ mainPc' = [mainPc EXCEPT ![w] = "unrecorded"]
          /\ UNCHANGED <<mAlert, mStatus, mAttempts, mTodo, mAdded, mOk>>
    /\ UNCHANGED <<ruleVars, retryVars, reached>>

\* The generic POST after such a failure, of the same round: nothing of it can
\* be recorded.
UnrecordedPost(w, ok) ==
    /\ mainPc[w] = "unrecorded"
    /\ Send(mAlert[w], ok)
    /\ MainIdle(w)
    /\ UNCHANGED <<ruleVars, alertVars, retryVars, rounds, faults>>

-----------------------------------------------------------------------------
(***************************************************************************)
(* The retry scheduler: process_pending_alerts, every retry_poll_interval. *)
(***************************************************************************)

\* Variant: only alerts dispatched once already are polled.
RetryableAfterDispatch(a) ==
    status[a] = "pending" /\ attempts[a] > 0 /\ attempts[a] < MaxAttempts

\* WHERE clause of the poll.
Retryable(a) == status[a] = "pending" /\ attempts[a] < MaxAttempts

\* ORDER BY created_at LIMIT BatchLimit.
Oldest(S) ==
    {a \in S : Cardinality({b \in S : createdAt[b] < createdAt[a]}) < BatchLimit}

IsFirst(a, S) == a \in S /\ \A b \in S : createdAt[a] <= createdAt[b]

\* The SELECT: the session keeps the rows as they are now for the whole poll.
Poll(w) ==
    LET found == Oldest({a \in rows : Retryable(a)}) IN
    /\ retryPc[w] = "next" /\ batch[w] = {}
    /\ found # {}
    /\ batch' = [batch EXCEPT ![w] = found]
    /\ batchAttempts' = [batchAttempts EXCEPT ![w] =
                           [a \in Alerts |-> IF a \in found THEN attempts[a]
                                                            ELSE 0]]
    /\ batchRecent' = [batchRecent EXCEPT ![w] = found \cap recent]
    /\ UNCHANGED <<retryPc, rAlert, rRule, rChannels, rTodo, rOk>>
    /\ UNCHANGED <<ruleVars, alertVars, mainVars, history>>

\* Variant: the session outlives the poll, and the rule with it.
RuleNeverLeft(w, left) == UNCHANGED <<rRule, rChannels>>

\* The local variable `rule` keeps the last rule alive until the poll ends.
RuleKept(w, left) ==
    /\ rRule' = [rRule EXCEPT ![w] = IF left = {} THEN NoRule ELSE @]
    /\ rChannels' = [rChannels EXCEPT ![w] = IF left = {} THEN {} ELSE @]

\* The next alert is still backed off.  batchRecent is a time that may have
\* passed by now, so the alert may also be started.
SkipBackedOff(w, a) ==
    /\ retryPc[w] = "next" /\ IsFirst(a, batch[w])
    /\ a \in batchRecent[w]
    /\ batch' = [batch EXCEPT ![w] = @ \ {a}]
    /\ batchAttempts' = [batchAttempts EXCEPT ![w][a] = 0]
    /\ batchRecent' = [batchRecent EXCEPT ![w] = @ \ {a}]
    /\ RuleKept(w, batch[w] \ {a})
    /\ UNCHANGED <<retryPc, rAlert, rTodo, rOk>>
    /\ UNCHANGED <<ruleVars, alertVars, mainVars, history>>

\* The URLs a retry posts to: a rule the session still holds from the alert
\* before is not read again.
RetryUrls(w, a) ==
    IF rRule[w] = RuleOf[a] THEN rChannels[w] ELSE channels[RuleOf[a]]

\* The next alert of the batch, its rule found.
StartRetry(w, a) ==
    LET urls == RetryUrls(w, a) IN
    /\ retryPc[w] = "next" /\ IsFirst(a, batch[w])
    /\ RuleOf[a] \in rules
    /\ batch' = [batch EXCEPT ![w] = @ \ {a}]
    /\ batchRecent' = [batchRecent EXCEPT ![w] = @ \ {a}]
    /\ rAlert' = [rAlert EXCEPT ![w] = a]
    /\ rRule' = [rRule EXCEPT ![w] = RuleOf[a]]
    /\ rChannels' = [rChannels EXCEPT ![w] = urls]
    /\ rTodo' = [rTodo EXCEPT ![w] = urls]
    /\ rOk' = [rOk EXCEPT ![w] = FALSE]
    /\ retryPc' = [retryPc EXCEPT ![w] = IF urls = {} THEN "commit" ELSE "post"]
    /\ UNCHANGED batchAttempts
    /\ UNCHANGED <<ruleVars, alertVars, mainVars, history>>

\* One channel of a retry; the generic webhook only if discord failed.
RetryPost(w, ok) ==
    LET left == rTodo[w] \ {NextChannel(rTodo[w])} IN
    /\ retryPc[w] = "post"
    /\ Send(rAlert[w], ok)
    /\ rTodo' = [rTodo EXCEPT ![w] = IF ok THEN {} ELSE left]
    /\ rOk' = [rOk EXCEPT ![w] = ok]
    /\ retryPc' = [retryPc EXCEPT ![w] = IF ok \/ left = {} THEN "commit"
                                                           ELSE "post"]
    /\ UNCHANGED <<batch, batchAttempts, batchRecent, rAlert, rRule, rChannels>>
    /\ UNCHANGED <<ruleVars, alertVars, mainVars, rounds, faults>>

\* What is left of the poll once an alert of it is done.
RetryDone(w) ==
    /\ retryPc' = [retryPc EXCEPT ![w] = "next"]
    /\ batchAttempts' = [batchAttempts EXCEPT ![w][rAlert[w]] = 0]
    /\ rAlert' = [rAlert EXCEPT ![w] = NoAlert]
    /\ rTodo' = [rTodo EXCEPT ![w] = {}]
    /\ rOk' = [rOk EXCEPT ![w] = FALSE]
    /\ RuleKept(w, batch[w])
    /\ UNCHANGED <<batch, batchRecent>>

\* An error leaves process_pending_alerts; retry_scheduler logs it and sleeps.
PollAborted(w) ==
    /\ retryPc' = [retryPc EXCEPT ![w] = "next"]
    /\ batch' = [batch EXCEPT ![w] = {}]
    /\ batchAttempts' = [batchAttempts EXCEPT ![w] = [a \in Alerts |-> 0]]
    /\ batchRecent' = [batchRecent EXCEPT ![w] = {}]
    /\ rAlert' = [rAlert EXCEPT ![w] = NoAlert]
    /\ rRule' = [rRule EXCEPT ![w] = NoRule]
    /\ rChannels' = [rChannels EXCEPT ![w] = {}]
    /\ rTodo' = [rTodo EXCEPT ![w] = {}]
    /\ rOk' = [rOk EXCEPT ![w] = FALSE]

\* Variant: the attempt is not counted.
RetryCountKept(w) == batchAttempts[w][rAlert[w]]

\* The attempt number is the one read by the poll, plus one.
RetryCount(w) == batchAttempts[w][rAlert[w]] + 1

\* Variant: an attempt too early.
GivesUpEarly(w) == RetryCount(w) >= MaxAttempts - 1

GivesUp(w) == RetryCount(w) >= MaxAttempts

\* Loaded as "pending", the status is written only when it becomes another one.
RetryVerdict(w) ==
    IF rOk[w] THEN "delivered"
    ELSE IF GivesUp(w) THEN "failed"
    ELSE status[rAlert[w]]

RetryWrites(w) == WriteRound(rAlert[w], RetryCount(w), RetryVerdict(w), 1, rOk[w])

CommitRetry(w) ==
    /\ retryPc[w] = "commit"
    /\ rAlert[w] \in rows
    /\ RetryWrites(w)
    /\ RetryDone(w)
    /\ UNCHANGED <<ruleVars, mainVars, reached, faults>>

\* The alert went away with its rule: the UPDATE matches no row and the flush
\* fails, whether the rule was missed by the query or deleted after it.
RetryRowGone(w) ==
    /\ \/ /\ retryPc[w] = "next"
          /\ \E a \in Alerts : IsFirst(a, batch[w]) /\ RuleOf[a] \notin rules
       \/ retryPc[w] = "commit" /\ rAlert[w] \notin rows
    /\ PollAborted(w)
    /\ UNCHANGED <<ruleVars, alertVars, mainVars, history>>

\* A failed query of the poll, or a failed commit, which may have been applied.
RetryCallFails(w, applied) ==
    /\ batch[w] # {} \/ retryPc[w] = "commit"
    /\ retryPc[w] # "post"
    /\ faults < MaxFaults
    /\ faults' = faults + 1
    /\ IF applied /\ retryPc[w] = "commit" /\ rAlert[w] \in rows
       THEN RetryWrites(w)
       ELSE UNCHANGED <<alertVars, rounds>>
    /\ PollAborted(w)
    /\ UNCHANGED <<ruleVars, mainVars, reached>>

-----------------------------------------------------------------------------
(***************************************************************************)
(* The environment: time, crashes, and the API.                            *)
(***************************************************************************)

\* The backoff after the last attempt has passed.
BackoffElapses(a) ==
    /\ a \in recent
    /\ recent' = recent \ {a}
    /\ UNCHANGED <<rows, status, attempts, createdAt, records, okRecords>>
    /\ UNCHANGED <<ruleVars, mainVars, retryVars, history>>

\* The worker process dies and is restarted: both tasks lose what is not
\* committed.
Crash(w) ==
    /\ faults < MaxFaults
    /\ faults' = faults + 1
    /\ MainIdle(w)
    /\ PollAborted(w)
    /\ UNCHANGED <<ruleVars, alertVars, reached, rounds>>

\* PUT /rules/{id} with other webhook URLs.
UpdateRule(r, urls) ==
    /\ r \in rules /\ urls # channels[r]
    /\ channels' = [channels EXCEPT ![r] = urls]
    /\ UNCHANGED <<rules, alertVars, mainVars, retryVars, history>>

\* DELETE /rules/{id}: its alerts and their audit rows go with it.
DeleteRule(r) ==
    /\ r \in rules
    /\ rules' = rules \ {r}
    /\ rows' = {a \in rows : RuleOf[a] # r}
    /\ UNCHANGED <<channels, status, attempts, recent, createdAt, records,
                   okRecords>>
    /\ UNCHANGED <<mainVars, retryVars, history>>

-----------------------------------------------------------------------------
MainStep(w) ==
    \/ \E a \in Alerts : InsertAlert(w, a)
    \/ RefreshAlert(w)
    \/ LoadRule(w)
    \/ MainQueryFails(w)
    \/ \E ok \in BOOLEAN : Post(w, ok)
    \/ CommitDispatch(w)
    \/ \E applied \in BOOLEAN : CommitDispatchFails(w, applied)
    \/ \E ok \in BOOLEAN : UnrecordedPost(w, ok)

RetryStep(w) ==
    \/ Poll(w)
    \/ \E a \in Alerts : SkipBackedOff(w, a) \/ StartRetry(w, a)
    \/ \E ok \in BOOLEAN : RetryPost(w, ok)
    \/ CommitRetry(w)
    \/ RetryRowGone(w)

Environment ==
    \/ \E w \in Workers : Crash(w)
    \/ \E w \in Workers, applied \in BOOLEAN : RetryCallFails(w, applied)
    \/ \E a \in Alerts : BackoffElapses(a)
    \/ \E r \in Rules : DeleteRule(r)
    \/ \E r \in Rules, urls \in ChannelSets : UpdateRule(r, urls)

Next == Environment \/ \E w \in Workers : MainStep(w) \/ RetryStep(w)

Spec == Init /\ [][Next]_vars

\* A running worker's scheduler keeps polling and its awaits end (httpx and the
\* database time out); time passes.  The main loop and the API owe nothing.
Fairness ==
    /\ \A w \in Workers : WF_vars(RetryStep(w))
    /\ WF_vars(\E a \in Alerts : BackoffElapses(a))

FairSpec == Spec /\ Fairness

-----------------------------------------------------------------------------
(***************************************************************************)
(* Properties.                                                             *)
(***************************************************************************)

\* Types of the tables and of the history beside them.
TableTypes ==
    /\ rules \subseteq Rules
    /\ channels \in [Rules -> SUBSET Channels]
    /\ rows \subseteq Alerts
    /\ status \in [Alerts -> Verdicts]
    /\ attempts \in [Alerts -> Nat]
    /\ recent \subseteq Alerts
    /\ createdAt \in [Alerts -> Nat]
    /\ records \in [Alerts -> Nat]
    /\ okRecords \in [Alerts -> Nat]
    /\ reached \subseteq Alerts
    /\ rounds \in [Alerts -> Nat]
    /\ faults \in Nat

\* Types of the main loops: exactly a busy one holds an alert.
MainTypes ==
    /\ mainPc \in [Workers -> MainPcs]
    /\ mAlert \in [Workers -> Alerts \cup {NoAlert}]
    /\ mStatus \in [Workers -> Verdicts]
    /\ mAttempts \in [Workers -> Nat]
    /\ mTodo \in [Workers -> SUBSET Channels]
    /\ mAdded \in [Workers -> Nat]
    /\ mOk \in [Workers -> BOOLEAN]
    /\ \A w \in Workers : mainPc[w] # "idle" <=> mAlert[w] \in Alerts

\* Types of the schedulers: exactly one that is retrying holds an alert.
RetryTypes ==
    /\ retryPc \in [Workers -> RetryPcs]
    /\ batch \in [Workers -> SUBSET Alerts]
    /\ batchAttempts \in [Workers -> [Alerts -> Nat]]
    /\ batchRecent \in [Workers -> SUBSET Alerts]
    /\ rAlert \in [Workers -> Alerts \cup {NoAlert}]
    /\ rRule \in [Workers -> Rules \cup {NoRule}]
    /\ rChannels \in [Workers -> SUBSET Channels]
    /\ rTodo \in [Workers -> SUBSET Channels]
    /\ rOk \in [Workers -> BOOLEAN]
    /\ \A w \in Workers : retryPc[w] # "next" <=> rAlert[w] \in Alerts

TypeOK == TableTypes /\ MainTypes /\ RetryTypes

\* "Exactly-once alerting" as far as the unique constraint gives it: however
\* many workers see the candle, and whatever crashes, a rule and window gets to
\* the dispatcher at most once (dispatcher.dispatch, called by main_loop).
RaisedOnce ==
    [][\A w \in Workers, a \in Alerts :
         (mAlert'[w] = a /\ mAlert[w] # a) => createdAt[a] = 0]_vars

\* An alert marked delivered was received, and the audit trail holds a success:
\* dispatcher.py and retry.py write both in one commit, after a 2xx.
DeliveredIsTrue ==
    \A a \in Alerts : status[a] = "delivered" => a \in reached /\ okRecords[a] >= 1

\* retry.py marks an alert failed at retry_backoff_max attempts.  Whatever the
\* overlaps of dispatch and of the schedulers of several workers, and whatever
\* crashes, that many delivery rounds were really made and recorded.
NoEarlyGiveUp ==
    \A a \in Alerts : status[a] = "failed" => rounds[a] >= MaxAttempts

IsPending(a) == a \in rows /\ status[a] = "pending"

\* README, "resume work after a crash without losing track": a pending alert that
\* its dispatch has left, by its end or by a crash, with attempts to spare is
\* eventually delivered, failed or deleted with its rule.
PendingIsSettled ==
    \A a \in Alerts :
        (/\ IsPending(a) /\ attempts[a] < MaxAttempts
         /\ \A w \in Workers : mAlert[w] # a)
          ~> ~IsPending(a)

\* docs/runbook.md, "After max attempts, alert marked delivery_status='failed'".
FailedAfterMax ==
    \A a \in Alerts :
        (IsPending(a) /\ attempts[a] >= MaxAttempts) ~> ~IsPending(a)

\* The inductive invariant behind the properties above.
Raised == {a \in Alerts : createdAt[a] > 0}

\* Whatever a task holds was raised, and what is raised and not on record any
\* more went away with its rule, so that the foreign key keeps it away.
OnlyRaised ==
    /\ rows \subseteq Raised
    /\ \A a \in Raised : a \notin rows => RuleOf[a] \notin rules
    /\ \A w \in Workers :
         /\ mAlert[w] \in Alerts => mAlert[w] \in Raised
         /\ batch[w] \subseteq Raised
         /\ rAlert[w] \in Alerts => rAlert[w] \in Raised

\* No two main loops hold the same alert.
DispatchedByOne ==
    \A v, w \in Workers : mAlert[v] = mAlert[w] /\ mAlert[w] \in Alerts => v = w

\* A success a task has seen is one the recipient has seen.
SuccessIsTrue ==
    \A w \in Workers : /\ mOk[w] => mAlert[w] \in reached
                       /\ rOk[w] => rAlert[w] \in reached

\* No counter, in the table or in a session, is ahead of the rounds made.
CountsAreBehind ==
    /\ \A a \in Alerts : attempts[a] <= rounds[a]
    /\ \A w \in Workers, a \in Alerts : batchAttempts[w][a] <= rounds[a]
    /\ \A w \in Workers :
         mAttempts[w] <= IF mAlert[w] \in Alerts THEN rounds[mAlert[w]] ELSE 0

DeliveryInv ==
    /\ TypeOK /\ OnlyRaised /\ DispatchedByOne
    /\ SuccessIsTrue /\ DeliveredIsTrue
    /\ CountsAreBehind /\ NoEarlyGiveUp

\* The tables and the recipients see an at-least-once outbox.
AtLeastOnce == INSTANCE Outbox WITH
    raised <- Raised,
    live <- rows,
    verdict <- status

OutboxSpec == AtLeastOnce!Spec

\* README, "Exactly-once delivery via a Postgres unique constraint".
ExactlyOnceDelivery == \A a \in Alerts : okRecords[a] <= 1
=============================================================================
