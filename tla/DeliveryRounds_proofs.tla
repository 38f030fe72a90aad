------------------------ MODULE DeliveryRounds_proofs ------------------------
(***************************************************************************)
(* Theorems about DeliveryRounds: how much of what the recipients see is   *)
(* in the audit trail, and how much they see at most with one worker.      *)
(***************************************************************************)
EXTENDS DeliveryRounds, Delivery_proofs

\* The history does not restrain anybody: whatever holds of Delivery holds here.
LEMMA HistoryIsIdle == RoundsSpec => Spec
<1>1. [Next /\ Count]_<<vars, sent>> => [Next]_vars
  OBVIOUS
<1> QED
  BY <1>1, PTL DEF RoundsSpec, Spec

-----------------------------------------------------------------------------
(***************************************************************************)
(* What a task owes the audit trail, and what it may still send.           *)
(***************************************************************************)

\* A round of dispatch, of a retry, that is under way.
Sending(w, a) ==
    IF mAlert[w] = a /\ mAdded[w] > 0 /\ mainPc[w] # "unrecorded" THEN 1 ELSE 0
Resending(w, a) == IF rAlert[w] = a /\ rTodo[w] # rChannels[w] THEN 1 ELSE 0

\* A round that a task holding the alert has not begun yet.
ToSend(w, a) ==
    IF mAlert[w] = a /\ mAdded[w] = 0 /\ mainPc[w] # "unrecorded" THEN 1 ELSE 0
ToResend(w, a) == IF rAlert[w] = a /\ rTodo[w] = rChannels[w] THEN 1 ELSE 0

\* What dispatch has not reached has no audit rows, and a retry only strikes out
\* URLs.
Steady(w) ==
    /\ mainPc[w] \in {"idle", "inserted", "loaded"} => mAdded[w] = 0
    /\ rAlert[w] \in Alerts => rTodo[w] \subseteq rChannels[w]

SentTypes == sent \in [Alerts -> Nat] /\ \A a \in Alerts : a \notin Raised => sent[a] = 0

\* Every step is a step of one worker, or of none.
Others(w) ==
    \A v \in Workers : v # w =>
        UNCHANGED <<mAlert[v], mAdded[v], mainPc[v], rAlert[v], rTodo[v], rChannels[v]>>

LEMMA SteadyStep ==
    ASSUME TypeOK, NEW u \in Workers, Steady(u), [Next]_vars
    PROVE  Steady(u)'
<1>1. ASSUME NEW w \in Workers, NEW a \in Alerts, InsertAlert(w, a) PROVE Steady(u)'
  BY <1>1 DEF InsertAlert, Steady, retryVars, TypeOK, MainTypes
<1>2. ASSUME NEW w \in Workers, RefreshAlert(w) \/ LoadRule(w) PROVE Steady(u)'
  BY <1>2 DEF RefreshAlert, LoadRule, MainIdle, Steady, retryVars, TypeOK, MainTypes
<1>3. ASSUME NEW w \in Workers, MainQueryFails(w) PROVE Steady(u)'
  BY <1>3 DEF MainQueryFails, MainIdle, Steady, retryVars, TypeOK, MainTypes
<1>4. ASSUME NEW w \in Workers, NEW ok \in BOOLEAN, Post(w, ok) PROVE Steady(u)'
  BY <1>4 DEF Post, Steady, retryVars, TypeOK, MainTypes
<1>5. ASSUME NEW w \in Workers, CommitDispatch(w) PROVE Steady(u)'
  BY <1>5 DEF CommitDispatch, MainIdle, Steady, retryVars, TypeOK, MainTypes
<1>6. ASSUME NEW w \in Workers, NEW applied \in BOOLEAN, CommitDispatchFails(w, applied)
      PROVE  Steady(u)'
  BY <1>6 DEF CommitDispatchFails, MainIdle, Steady, retryVars, TypeOK, MainTypes
<1>7. ASSUME NEW w \in Workers, NEW ok \in BOOLEAN, UnrecordedPost(w, ok) PROVE Steady(u)'
  BY <1>7 DEF UnrecordedPost, MainIdle, Steady, retryVars, TypeOK, MainTypes
<1>8. ASSUME NEW w \in Workers, Poll(w) PROVE Steady(u)'
  BY <1>8 DEF Poll, Steady, mainVars
<1>9. ASSUME NEW w \in Workers, NEW a \in Alerts, SkipBackedOff(w, a) PROVE Steady(u)'
  <2>1. rAlert[w] \notin Alerts /\ UNCHANGED <<mainVars, rAlert, rTodo>>
    BY <1>9 DEF SkipBackedOff, TypeOK, RetryTypes
  <2>2. u # w => rChannels'[u] = rChannels[u]
    BY <1>9 DEF SkipBackedOff, RuleKept, TypeOK, RetryTypes
  <2> QED
    BY <2>1, <2>2 DEF Steady, mainVars
<1>10. ASSUME NEW w \in Workers, NEW a \in Alerts, StartRetry(w, a) PROVE Steady(u)'
  BY <1>10 DEF StartRetry, Steady, mainVars, TypeOK, RetryTypes
<1>11. ASSUME NEW w \in Workers, NEW ok \in BOOLEAN, RetryPost(w, ok) PROVE Steady(u)'
  BY <1>11 DEF RetryPost, Steady, mainVars, TypeOK, RetryTypes
<1>12. ASSUME NEW w \in Workers, CommitRetry(w) PROVE Steady(u)'
  BY <1>12, AlertsAssumption DEF CommitRetry, RetryDone, RuleKept, Steady, mainVars, TypeOK, RetryTypes
<1>13. ASSUME NEW w \in Workers, RetryRowGone(w) PROVE Steady(u)'
  BY <1>13, AlertsAssumption DEF RetryRowGone, PollAborted, Steady, mainVars, TypeOK, RetryTypes
<1>14. ASSUME NEW w \in Workers, NEW applied \in BOOLEAN, RetryCallFails(w, applied)
       PROVE  Steady(u)'
  BY <1>14, AlertsAssumption DEF RetryCallFails, PollAborted, Steady, mainVars, TypeOK, RetryTypes
<1>15. ASSUME NEW w \in Workers, Crash(w) PROVE Steady(u)'
  BY <1>15, AlertsAssumption DEF Crash, MainIdle, PollAborted, Steady, TypeOK, MainTypes, RetryTypes
<1>16. ASSUME \/ \E a \in Alerts : BackoffElapses(a)
              \/ \E r \in Rules : DeleteRule(r)
              \/ \E r \in Rules, urls \in ChannelSets : UpdateRule(r, urls)
              \/ UNCHANGED vars
       PROVE  Steady(u)'
  BY <1>16 DEF BackoffElapses, DeleteRule, UpdateRule, Steady, vars, mainVars, retryVars
<1> QED
  BY <1>1, <1>2, <1>3, <1>4, <1>5, <1>6, <1>7, <1>8, <1>9, <1>10, <1>11, <1>12,
     <1>13, <1>14, <1>15, <1>16 DEF Next, Environment, MainStep, RetryStep

\* In a step of a worker only that worker can begin a round.
LEMMA SentGrows ==
    ASSUME NEW w \in Workers, Others(w), Count, SentTypes, NEW a \in Alerts
    PROVE  /\ sent'[a] = sent[a] + (IF BeginsDispatch(w, a) \/ BeginsRetry(w, a) THEN 1 ELSE 0)
           /\ sent[a] \in Nat /\ sent'[a] \in Nat
<1>1. Begins(a) <=> BeginsDispatch(w, a) \/ BeginsRetry(w, a)
  BY DEF Others, Begins, BeginsDispatch, BeginsRetry
<1> QED
  BY <1>1 DEF Count, SentTypes

\* The numbers that are added up.
LEMMA Numbers ==
    ASSUME TypeOK, NEW a \in Alerts
    PROVE  records[a] \in Nat /\ rounds[a] \in Nat /\ faults \in Nat
  BY DEF TypeOK, TableTypes

-----------------------------------------------------------------------------
(***************************************************************************)
(* Every step pays for what it sends: with audit rows, with a committed    *)
(* round, with a fault, or with a round that is still under way.           *)
(***************************************************************************)

\* An alert whose dispatch is to come or goes on.
InDispatch(w, a) == a \notin Raised \/ (mAlert[w] = a /\ mainPc[w] # "unrecorded")

\* The books of one alert, kept for the audit trail and for the rounds.  An alert
\* that is not on record any more is only sent by who already holds it.
Pays(w, a) ==
    /\ a \in rows /\ a \in rows' =>
         /\ sent'[a] + Sending(w, a) + Resending(w, a) + records[a] + 2 * faults
              <= sent[a] + Sending(w, a)' + Resending(w, a)' + records'[a] + 2 * faults'
         /\ \/ sent'[a] + Sending(w, a) + Resending(w, a) + rounds[a] + faults
                 <= sent[a] + Sending(w, a)' + Resending(w, a)' + rounds'[a] + faults'
            \/ /\ sent'[a] + Sending(w, a) + Resending(w, a) + rounds[a] + faults
                    <= sent[a] + Sending(w, a)' + Resending(w, a)' + rounds'[a] + faults' + 1
               /\ InDispatch(w, a) /\ ~InDispatch(w, a)' /\ rounds'[a] = rounds[a]
    /\ a \in Raised /\ a \notin rows =>
         sent'[a] + ToSend(w, a)' + ToResend(w, a)' + faults
           <= sent[a] + ToSend(w, a) + ToResend(w, a) + faults'
    /\ a \notin Raised' => sent'[a] = 0
    /\ a \notin Raised => sent'[a] = 0

\* The share of the main loop in it, and that of the scheduler.
MainPays(w, a) ==
    LET new == IF BeginsDispatch(w, a) THEN 1 ELSE 0 IN
    /\ a \in rows /\ a \in rows' =>
         /\ new + Sending(w, a) + records[a] + 2 * faults
              <= Sending(w, a)' + records'[a] + 2 * faults'
         /\ new + Sending(w, a) + rounds[a] + faults
              <= Sending(w, a)' + rounds'[a] + faults'
    /\ a \in Raised /\ a \notin rows => new + ToSend(w, a)' <= ToSend(w, a)
    /\ a \notin Raised => new = 0

RetryPays(w, a) ==
    LET new == IF BeginsRetry(w, a) THEN 1 ELSE 0 IN
    /\ a \in rows /\ a \in rows' =>
         /\ new + Resending(w, a) + records[a] + 2 * faults
              <= Resending(w, a)' + records'[a] + 2 * faults'
         /\ new + Resending(w, a) + rounds[a] + faults
              <= Resending(w, a)' + rounds'[a] + faults'
    /\ a \in Raised /\ a \notin rows => new + ToResend(w, a)' <= ToResend(w, a)
    /\ a \notin Raised => new = 0

\* A step of the main loop leaves the scheduler alone.
LEMMA MainStepPays ==
    ASSUME TypeOK, TypeOK', SentTypes, NEW w \in Workers, Others(w), Count,
           NEW a \in Alerts, UNCHANGED retryVars, Raised \subseteq Raised',
           faults <= faults', MainPays(w, a)
    PROVE  Pays(w, a)
<1>1. /\ Resending(w, a)' = Resending(w, a) /\ ToResend(w, a)' = ToResend(w, a)
      /\ ~BeginsRetry(w, a)
  BY DEF Resending, ToResend, BeginsRetry, retryVars
<1>2. /\ sent'[a] = sent[a] + (IF BeginsDispatch(w, a) THEN 1 ELSE 0)
      /\ sent[a] \in Nat
  BY <1>1, SentGrows
<1>3. /\ records[a] \in Nat /\ rounds[a] \in Nat /\ faults \in Nat
      /\ records'[a] \in Nat /\ rounds'[a] \in Nat /\ faults' \in Nat
  BY DEF TypeOK, TableTypes
<1>4. /\ Resending(w, a) \in Nat /\ ToResend(w, a) \in Nat
      /\ Sending(w, a) \in Nat /\ ToSend(w, a) \in Nat
      /\ Sending(w, a)' \in Nat /\ ToSend(w, a)' \in Nat
  BY DEF Resending, ToResend, Sending, ToSend
<1>5. a \notin Raised => sent[a] = 0
  BY DEF SentTypes
<1> QED
  BY <1>1, <1>2, <1>3, <1>4, <1>5 DEF Pays, MainPays

\* A step of the scheduler leaves the main loop alone.
LEMMA RetryStepPays ==
    ASSUME TypeOK, TypeOK', SentTypes, NEW w \in Workers, Others(w), Count,
           NEW a \in Alerts, UNCHANGED mainVars, Raised \subseteq Raised',
           faults <= faults', RetryPays(w, a)
    PROVE  Pays(w, a)
<1>1. /\ Sending(w, a)' = Sending(w, a) /\ ToSend(w, a)' = ToSend(w, a)
      /\ ~BeginsDispatch(w, a)
  BY DEF Sending, ToSend, BeginsDispatch, mainVars, TypeOK, MainTypes
<1>2. /\ sent'[a] = sent[a] + (IF BeginsRetry(w, a) THEN 1 ELSE 0)
      /\ sent[a] \in Nat
  BY <1>1, SentGrows
<1>3. /\ records[a] \in Nat /\ rounds[a] \in Nat /\ faults \in Nat
      /\ records'[a] \in Nat /\ rounds'[a] \in Nat /\ faults' \in Nat
  BY DEF TypeOK, TableTypes
<1>4. /\ Resending(w, a) \in Nat /\ ToResend(w, a) \in Nat
      /\ Resending(w, a)' \in Nat /\ ToResend(w, a)' \in Nat
      /\ Sending(w, a) \in Nat /\ ToSend(w, a) \in Nat
  BY DEF Resending, ToResend, Sending, ToSend
<1>5. a \notin Raised => sent[a] = 0
  BY DEF SentTypes
<1> QED
  BY <1>1, <1>2, <1>3, <1>4, <1>5 DEF Pays, RetryPays

\* A main loop that ends holds nothing: what it had sent is paid for or the alert
\* is gone.
LEMMA MainIdlePays ==
    ASSUME TypeOK, TypeOK', OnlyRaised, NEW w \in Workers, NEW a \in Alerts, MainIdle(w),
           a \in rows /\ a \in rows' =>
             /\ Sending(w, a) + records[a] + 2 * faults <= records'[a] + 2 * faults'
             /\ Sending(w, a) + rounds[a] + faults <= rounds'[a] + faults'
    PROVE  MainPays(w, a)
<1>1. mAlert'[w] = NoAlert /\ mAdded'[w] = 0
  BY DEF MainIdle, TypeOK, MainTypes
<1>2. Sending(w, a)' = 0 /\ ToSend(w, a)' = 0 /\ ~BeginsDispatch(w, a)
  BY <1>1, AlertsAssumption DEF Sending, ToSend, BeginsDispatch
<1>3. /\ records[a] \in Nat /\ rounds[a] \in Nat /\ faults \in Nat
      /\ records'[a] \in Nat /\ rounds'[a] \in Nat /\ faults' \in Nat
  BY DEF TypeOK, TableTypes
<1>4. Sending(w, a) \in Nat /\ ToSend(w, a) \in Nat
  BY DEF Sending, ToSend
<1> QED
  BY <1>2, <1>3, <1>4 DEF MainPays

\* So it is for a scheduler that lets go of its alert.
LEMMA RetryEndPays ==
    ASSUME TypeOK, TypeOK', NEW w \in Workers, NEW a \in Alerts, rAlert'[w] = NoAlert,
           a \in rows /\ a \in rows' =>
             /\ Resending(w, a) + records[a] + 2 * faults <= records'[a] + 2 * faults'
             /\ Resending(w, a) + rounds[a] + faults <= rounds'[a] + faults'
    PROVE  RetryPays(w, a)
<1>1. Resending(w, a)' = 0 /\ ToResend(w, a)' = 0 /\ ~BeginsRetry(w, a)
  BY AlertsAssumption DEF Resending, ToResend, BeginsRetry
<1>2. /\ records[a] \in Nat /\ rounds[a] \in Nat /\ faults \in Nat
      /\ records'[a] \in Nat /\ rounds'[a] \in Nat /\ faults' \in Nat
  BY DEF TypeOK, TableTypes
<1>3. Resending(w, a) \in Nat /\ ToResend(w, a) \in Nat
  BY DEF Resending, ToResend
<1> QED
  BY <1>1, <1>2, <1>3 DEF RetryPays

-----------------------------------------------------------------------------
\* The steps of a worker: of its main loop, of its scheduler, and its crash.
WorkerStep(w) ==
    \/ MainStep(w) \/ RetryStep(w) \/ Crash(w)
    \/ \E applied \in BOOLEAN : RetryCallFails(w, applied)

LEMMA OthersStand ==
    ASSUME TypeOK, NEW w \in Workers, WorkerStep(w)
    PROVE  Others(w)
<1>1. CASE MainStep(w)
  <2>1. UNCHANGED retryVars
    BY <1>1 DEF MainStep, InsertAlert, RefreshAlert, LoadRule, MainQueryFails, Post,
                CommitDispatch, CommitDispatchFails, UnrecordedPost
  <2>2. CASE \E a \in Alerts : InsertAlert(w, a)
    BY <2>1, <2>2 DEF InsertAlert, Others, retryVars, TypeOK, MainTypes
  <2>3. CASE RefreshAlert(w) \/ LoadRule(w) \/ MainQueryFails(w)
    BY <2>1, <2>3 DEF RefreshAlert, LoadRule, MainQueryFails, MainIdle, Others, retryVars,
                      TypeOK, MainTypes
  <2>4. CASE \E ok \in BOOLEAN : Post(w, ok)
    BY <2>1, <2>4 DEF Post, Others, retryVars, TypeOK, MainTypes
  <2>5. CASE \/ CommitDispatch(w)
             \/ \E applied \in BOOLEAN : CommitDispatchFails(w, applied)
             \/ \E ok \in BOOLEAN : UnrecordedPost(w, ok)
    BY <2>1, <2>5 DEF CommitDispatch, CommitDispatchFails, UnrecordedPost, MainIdle, Others,
                      retryVars, TypeOK, MainTypes
  <2> QED
    BY <1>1, <2>2, <2>3, <2>4, <2>5 DEF MainStep
<1>2. CASE RetryStep(w)
  <2>1. UNCHANGED mainVars
    BY <1>2 DEF RetryStep, Poll, SkipBackedOff, StartRetry, RetryPost, CommitRetry, RetryRowGone
  <2>2. CASE Poll(w)
    BY <2>1, <2>2 DEF Poll, Others, mainVars
  <2>3. CASE \E a \in Alerts : SkipBackedOff(w, a) \/ StartRetry(w, a)
    BY <2>1, <2>3 DEF SkipBackedOff, StartRetry, RuleKept, Others, mainVars, TypeOK, RetryTypes
  <2>4. CASE \E ok \in BOOLEAN : RetryPost(w, ok)
    BY <2>1, <2>4 DEF RetryPost, Others, mainVars, TypeOK, RetryTypes
  <2>5. CASE CommitRetry(w)
    BY <2>1, <2>5 DEF CommitRetry, RetryDone, RuleKept, Others, mainVars, TypeOK, RetryTypes
  <2>6. CASE RetryRowGone(w)
    BY <2>1, <2>6 DEF RetryRowGone, PollAborted, Others, mainVars, TypeOK, RetryTypes
  <2> QED
    BY <1>2, <2>2, <2>3, <2>4, <2>5, <2>6 DEF RetryStep
<1>3. CASE Crash(w)
  BY <1>3 DEF Crash, MainIdle, PollAborted, Others, TypeOK, MainTypes, RetryTypes
<1>4. CASE \E applied \in BOOLEAN : RetryCallFails(w, applied)
  BY <1>4 DEF RetryCallFails, PollAborted, Others, mainVars, TypeOK, RetryTypes
<1> QED
  BY <1>1, <1>2, <1>3, <1>4 DEF WorkerStep

\* What is raised stays raised, and faults are only added.
LEMMA Onward ==
    ASSUME TypeOK, TypeOK', NEW w \in Workers, WorkerStep(w)
    PROVE  Raised \subseteq Raised' /\ faults <= faults'
<1>0. faults \in Nat
  BY DEF TypeOK, TableTypes
<1>1. faults <= faults'
  <2>1. CASE MainStep(w)
    <3>1. faults' = faults \/ faults' = faults + 1
      BY <2>1 DEF MainStep, InsertAlert, RefreshAlert, LoadRule, MainQueryFails, Post,
                  CommitDispatch, CommitDispatchFails, UnrecordedPost, history
    <3> QED
      BY <1>0, <3>1
  <2>2. CASE RetryStep(w)
    <3>1. faults' = faults
      BY <2>2 DEF RetryStep, Poll, SkipBackedOff, StartRetry, RetryPost, CommitRetry,
                  RetryRowGone, history
    <3> QED
      BY <1>0, <3>1
  <2>3. CASE Crash(w) \/ \E applied \in BOOLEAN : RetryCallFails(w, applied)
    <3>1. faults' = faults + 1
      BY <2>3 DEF Crash, RetryCallFails
    <3> QED
      BY <1>0, <3>1
  <2> QED
    BY <2>1, <2>2, <2>3 DEF WorkerStep
<1>2. CASE \E a \in Alerts : InsertAlert(w, a)
  <2> PICK a \in Alerts : InsertAlert(w, a)
    BY <1>2
  <2> DEFINE serial == 1 + Cardinality({c \in Alerts : createdAt[c] > 0})
  <2>1. createdAt' = [createdAt EXCEPT ![a] = serial] /\ serial > 0
    BY SerialIsPositive DEF InsertAlert
  <2> HIDE DEF serial
  <2> QED
    BY <1>1, <2>1 DEF Raised, TypeOK, TableTypes
<1>3. CASE ~(\E a \in Alerts : InsertAlert(w, a))
  <2>1. createdAt' = createdAt
    BY <1>3 DEF WorkerStep, MainStep, RetryStep, RefreshAlert, LoadRule, MainQueryFails,
           Post, CommitDispatch, CommitDispatchFails, UnrecordedPost, Poll, SkipBackedOff,
           StartRetry, RetryPost, CommitRetry, RetryRowGone, RetryCallFails, Crash, alertVars,
           DispatchWrites, RetryWrites, WriteRound
  <2> QED
    BY <1>1, <2>1 DEF Raised
<1> QED
  BY <1>2, <1>3

\* A committed round has its audit rows.
LEMMA DispatchIsRecorded ==
    ASSUME TypeOK, NEW w \in Workers, NEW a \in Alerts, DispatchWrites(w)
    PROVE  /\ mAlert[w] = a => records'[a] = records[a] + mAdded[w] /\ rounds'[a] = rounds[a] + 1
           /\ mAlert[w] # a => records'[a] = records[a] /\ rounds'[a] = rounds[a]
BY DEF DispatchWrites, WriteRound, TypeOK, TableTypes

LEMMA RetryIsRecorded ==
    ASSUME TypeOK, NEW w \in Workers, NEW a \in Alerts, RetryWrites(w)
    PROVE  /\ rAlert[w] = a => records'[a] = records[a] + 1 /\ rounds'[a] = rounds[a] + 1
           /\ rAlert[w] # a => records'[a] = records[a] /\ rounds'[a] = rounds[a]
BY DEF RetryWrites, WriteRound, TypeOK, TableTypes

LEMMA MainLoopPays ==
    ASSUME TypeOK, TypeOK', OnlyRaised, NEW w \in Workers, Steady(w), MainStep(w),
           NEW a \in Alerts
    PROVE  MainPays(w, a)
<1> USE DEF Sending, ToSend, BeginsDispatch
<1>0. /\ records[a] \in Nat /\ rounds[a] \in Nat /\ faults \in Nat /\ mAdded[w] \in Nat
      /\ records'[a] \in Nat /\ rounds'[a] \in Nat /\ faults' \in Nat
  BY DEF TypeOK, TableTypes, MainTypes
<1>1. ASSUME NEW b \in Alerts, InsertAlert(w, b) PROVE MainPays(w, a)
  <2>1. /\ mAdded[w] = 0 /\ mAdded' = mAdded /\ mAlert'[w] = b
        /\ mAlert[w] \notin Alerts /\ UNCHANGED <<records, rounds, faults>>
    BY <1>1 DEF InsertAlert, Steady, history, TypeOK, MainTypes
  <2>2. a \in Raised /\ a \notin rows => a # b
    BY <1>1 DEF InsertAlert, CanInsert, OnlyRaised
  <2> QED
    BY <1>0, <2>1, <2>2 DEF MainPays
<1>2. CASE RefreshAlert(w) \/ LoadRule(w)
  <2>1. mAdded[w] = 0 /\ UNCHANGED <<records, rounds, faults>>
    BY <1>2 DEF RefreshAlert, LoadRule, Steady, alertVars, history
  <2>2. CASE MainIdle(w)
    BY <1>0, <2>1, <2>2, MainIdlePays
  <2>3. CASE ~MainIdle(w)
    <3>1. UNCHANGED <<mAlert, mAdded>> /\ mainPc[w] # "unrecorded" /\ mainPc'[w] # "unrecorded"
      BY <1>2, <2>3 DEF RefreshAlert, LoadRule, TypeOK, MainTypes
    <3> QED
      BY <1>0, <2>1, <3>1 DEF MainPays
  <2> QED
    BY <2>2, <2>3
<1>3. CASE MainQueryFails(w)
  <2>1. mAdded[w] = 0 /\ MainIdle(w) /\ UNCHANGED <<records, rounds>> /\ faults' = faults + 1
    BY <1>3 DEF MainQueryFails, Steady, alertVars
  <2> QED
    BY <1>0, <2>1, MainIdlePays
<1>4. ASSUME NEW ok \in BOOLEAN, Post(w, ok) PROVE MainPays(w, a)
  <2>1. /\ mainPc[w] = "post" /\ mainPc'[w] \in {"post", "commit"}
        /\ mAdded'[w] = mAdded[w] + 1 /\ mAlert' = mAlert
        /\ UNCHANGED <<records, rounds, faults>>
    BY <1>4 DEF Post, alertVars, TypeOK, MainTypes
  <2>2. a \notin Raised => mAlert[w] # a
    BY DEF OnlyRaised
  <2> QED
    BY <1>0, <2>1, <2>2 DEF MainPays
<1>5. CASE CommitDispatch(w)
  <2>1. MainIdle(w) /\ faults' = faults
    BY <1>5 DEF CommitDispatch
  <2>2. CASE mAlert[w] \in rows
    <3>1. DispatchWrites(w)
      BY <1>5, <2>2 DEF CommitDispatch
    <3> QED
      BY <1>0, <2>1, <3>1, DispatchIsRecorded, MainIdlePays
  <2>3. CASE mAlert[w] \notin rows
    <3>1. UNCHANGED <<records, rounds>>
      BY <1>5, <2>3 DEF CommitDispatch, alertVars
    <3> QED
      BY <1>0, <2>1, <2>3, <3>1, MainIdlePays
  <2> QED
    BY <2>2, <2>3
<1>6. ASSUME NEW applied \in BOOLEAN, CommitDispatchFails(w, applied) PROVE MainPays(w, a)
  <2>1. faults' = faults + 1 /\ mainPc[w] = "commit"
    BY <1>6 DEF CommitDispatchFails
  <2>2. DispatchWrites(w) \/ UNCHANGED <<records, rounds>>
    BY <1>6 DEF CommitDispatchFails, alertVars
  <2>3. records[a] <= records'[a] /\ rounds[a] <= rounds'[a]
    BY <1>0, <2>2, DispatchIsRecorded
  <2>4. CASE MainIdle(w)
    BY <1>0, <2>1, <2>3, <2>4, MainIdlePays
  <2>5. CASE ~MainIdle(w)
    <3>1. UNCHANGED <<mAlert, mAdded>> /\ mainPc'[w] = "unrecorded"
      BY <1>6, <2>5 DEF CommitDispatchFails, TypeOK, MainTypes
    <3> QED
      BY <1>0, <2>1, <2>3, <3>1 DEF MainPays
  <2> QED
    BY <2>4, <2>5
<1>7. ASSUME NEW ok \in BOOLEAN, UnrecordedPost(w, ok) PROVE MainPays(w, a)
  <2>1. mainPc[w] = "unrecorded" /\ MainIdle(w) /\ UNCHANGED <<records, rounds, faults>>
    BY <1>7 DEF UnrecordedPost, alertVars
  <2> QED
    BY <1>0, <2>1, MainIdlePays
<1> QED
  BY <1>1, <1>2, <1>3, <1>4, <1>5, <1>6, <1>7 DEF MainStep

LEMMA SchedulerPays ==
    ASSUME TypeOK, TypeOK', OnlyRaised, NEW w \in Workers, Steady(w),
           RetryStep(w) \/ \E applied \in BOOLEAN : RetryCallFails(w, applied),
           NEW a \in Alerts
    PROVE  RetryPays(w, a)
<1> USE DEF Resending, ToResend, BeginsRetry
<1>0. /\ records[a] \in Nat /\ rounds[a] \in Nat /\ faults \in Nat
      /\ records'[a] \in Nat /\ rounds'[a] \in Nat /\ faults' \in Nat
  BY DEF TypeOK, TableTypes
<1>1. CASE Poll(w)
  <2>1. /\ rAlert[w] \notin Alerts /\ rAlert' = rAlert
        /\ UNCHANGED <<records, rounds, faults>>
    BY <1>1 DEF Poll, alertVars, history, TypeOK, RetryTypes
  <2> QED
    BY <1>0, <2>1 DEF RetryPays
<1>2. ASSUME NEW b \in Alerts, SkipBackedOff(w, b) PROVE RetryPays(w, a)
  <2>1. /\ rAlert[w] \notin Alerts /\ rAlert' = rAlert
        /\ UNCHANGED <<records, rounds, faults>>
    BY <1>2 DEF SkipBackedOff, alertVars, history, TypeOK, RetryTypes
  <2> QED
    BY <1>0, <2>1 DEF RetryPays
<1>3. ASSUME NEW b \in Alerts, StartRetry(w, b) PROVE RetryPays(w, a)
  <2>1. /\ rAlert[w] \notin Alerts /\ rAlert'[w] = b /\ rTodo'[w] = rChannels'[w]
        /\ UNCHANGED <<records, rounds, faults>>
    BY <1>3 DEF StartRetry, alertVars, history, TypeOK, RetryTypes
  <2>2. a \in Raised /\ a \notin rows => a # b
    BY <1>3 DEF StartRetry, OnlyRaised
  <2> QED
    BY <1>0, <2>1, <2>2 DEF RetryPays
<1>4. ASSUME NEW ok \in BOOLEAN, RetryPost(w, ok) PROVE RetryPays(w, a)
  <2>1. /\ rAlert' = rAlert /\ rChannels' = rChannels /\ rTodo'[w] \subseteq rTodo[w]
        /\ UNCHANGED <<records, rounds, faults>>
    BY <1>4 DEF RetryPost, alertVars, TypeOK, RetryTypes
  <2>2. rAlert[w] = a => rTodo[w] \subseteq rChannels[w]
    BY DEF Steady
  <2>3. rAlert[w] = a /\ rTodo[w] # rChannels[w] => rTodo'[w] # rChannels'[w]
    BY <2>1, <2>2
  <2>4. a \notin Raised => rAlert[w] # a
    BY DEF OnlyRaised
  <2> QED
    BY <1>0, <2>1, <2>3, <2>4 DEF RetryPays
<1>5. CASE CommitRetry(w)
  <2>1. /\ RetryWrites(w) /\ rAlert'[w] = NoAlert /\ faults' = faults
    BY <1>5 DEF CommitRetry, RetryDone, TypeOK, RetryTypes
  <2> QED
    BY <1>0, <2>1, RetryIsRecorded, RetryEndPays
<1>6. CASE RetryRowGone(w)
  <2>1. rAlert[w] \notin rows /\ rAlert'[w] = NoAlert /\ UNCHANGED <<records, rounds, faults>>
    BY <1>6 DEF RetryRowGone, PollAborted, alertVars, history, TypeOK, RetryTypes, TableTypes
  <2> QED
    BY <1>0, <2>1, RetryEndPays
<1>7. ASSUME NEW applied \in BOOLEAN, RetryCallFails(w, applied) PROVE RetryPays(w, a)
  <2>1. rAlert'[w] = NoAlert /\ faults' = faults + 1
    BY <1>7 DEF RetryCallFails, PollAborted, TypeOK, RetryTypes
  <2>2. RetryWrites(w) \/ UNCHANGED <<records, rounds>>
    BY <1>7 DEF RetryCallFails, alertVars
  <2>3. records[a] <= records'[a] /\ rounds[a] <= rounds'[a]
    BY <1>0, <2>2, RetryIsRecorded
  <2> QED
    BY <1>0, <2>1, <2>3, RetryEndPays
<1> QED
  BY <1>1, <1>2, <1>3, <1>4, <1>5, <1>6, <1>7 DEF RetryStep

\* A crash cuts off a round of each task: one fault pays for one of them and half
\* of the next, and the dispatch of the alert is over.
LEMMA CrashPays ==
    ASSUME TypeOK, TypeOK', SentTypes, NEW w \in Workers, Others(w), Count, NEW a \in Alerts,
           OnlyRaised, Crash(w)
    PROVE  Pays(w, a)
<1>1. /\ mAlert'[w] = NoAlert /\ rAlert'[w] = NoAlert /\ mAdded'[w] = 0
      /\ UNCHANGED <<records, rounds, createdAt>> /\ faults' = faults + 1
  BY DEF Crash, MainIdle, PollAborted, alertVars, TypeOK, MainTypes, RetryTypes
<1>2. /\ Sending(w, a)' = 0 /\ Resending(w, a)' = 0 /\ ToSend(w, a)' = 0 /\ ToResend(w, a)' = 0
      /\ ~BeginsDispatch(w, a) /\ ~BeginsRetry(w, a)
  BY <1>1, AlertsAssumption DEF Sending, Resending, ToSend, ToResend, BeginsDispatch, BeginsRetry,
     TypeOK, MainTypes
<1>3. sent'[a] = sent[a] /\ sent[a] \in Nat
  BY <1>2, SentGrows
<1>4. records[a] \in Nat /\ rounds[a] \in Nat /\ faults \in Nat
  BY DEF TypeOK, TableTypes
<1>5. /\ Sending(w, a) \in {0, 1} /\ Resending(w, a) \in {0, 1}
      /\ ToSend(w, a) \in {0, 1} /\ ToResend(w, a) \in {0, 1}
  BY DEF Sending, Resending, ToSend, ToResend
<1>6. a \in rows /\ Sending(w, a) = 1 => InDispatch(w, a) /\ ~InDispatch(w, a)'
  BY <1>1, AlertsAssumption DEF Sending, InDispatch, OnlyRaised, Raised
<1>7. a \notin Raised => sent[a] = 0
  BY DEF SentTypes
<1>8. Raised' = Raised
  BY <1>1 DEF Raised
<1> QED
  BY <1>1, <1>2, <1>3, <1>4, <1>5, <1>6, <1>7, <1>8 DEF Pays

LEMMA PaysStep ==
    ASSUME TypeOK, TypeOK', OnlyRaised, SentTypes, Count, NEW w \in Workers, Steady(w),
           WorkerStep(w), NEW a \in Alerts
    PROVE  Pays(w, a)
<1>1. Others(w) /\ Raised \subseteq Raised' /\ faults <= faults'
  BY OthersStand, Onward
<1>2. CASE MainStep(w)
  <2>1. UNCHANGED retryVars
    BY <1>2 DEF MainStep, InsertAlert, RefreshAlert, LoadRule, MainQueryFails, Post,
                CommitDispatch, CommitDispatchFails, UnrecordedPost
  <2> QED
    BY <1>1, <1>2, <2>1, MainLoopPays, MainStepPays
<1>3. CASE RetryStep(w) \/ \E applied \in BOOLEAN : RetryCallFails(w, applied)
  <2>1. UNCHANGED mainVars
    BY <1>3 DEF RetryStep, Poll, SkipBackedOff, StartRetry, RetryPost, CommitRetry, RetryRowGone,
                RetryCallFails
  <2> QED
    BY <1>1, <1>3, <2>1, SchedulerPays, RetryStepPays
<1>4. CASE Crash(w)
  BY <1>1, <1>4, CrashPays
<1> QED
  BY <1>2, <1>3, <1>4 DEF WorkerStep

-----------------------------------------------------------------------------
(***************************************************************************)
(* The audit trail.                                                        *)
(***************************************************************************)

\* A step of nobody: time passes, the API writes, or nothing happens.
QuietStep ==
    \/ \E a \in Alerts : BackoffElapses(a)
    \/ \E r \in Rules : DeleteRule(r)
    \/ \E r \in Rules, urls \in ChannelSets : UpdateRule(r, urls)

LEMMA QuietStands ==
    ASSUME TypeOK, QuietStep
    PROVE  /\ UNCHANGED <<mainVars, retryVars, records, rounds, attempts, status, faults, createdAt>>
           /\ rows' \subseteq rows
BY DEF QuietStep, BackoffElapses, DeleteRule, UpdateRule, alertVars, history, TypeOK, TableTypes

LEMMA StepIsOfOne ==
    ASSUME Next
    PROVE  QuietStep \/ \E w \in Workers : WorkerStep(w)
BY DEF Next, Environment, QuietStep, WorkerStep

LEMMA QuietSent ==
    ASSUME UNCHANGED mainVars, UNCHANGED retryVars, Count, SentTypes
    PROVE  sent' = sent
<1>1. ASSUME NEW a \in Alerts PROVE ~Begins(a)
  BY DEF Begins, BeginsDispatch, BeginsRetry, mainVars, retryVars
<1> QED
  BY <1>1 DEF Count, SentTypes

LEMMA SentStep ==
    ASSUME TypeOK, TypeOK', OnlyRaised, SentTypes, \A w \in Workers : Steady(w),
           [Next /\ Count]_<<vars, sent>>
    PROVE  SentTypes'
<1>1. CASE UNCHANGED <<vars, sent>>
  BY <1>1 DEF SentTypes, Raised, vars, alertVars
<1>2. CASE Next /\ Count
  <2>1. sent' \in [Alerts -> Nat]
    BY <1>2 DEF Count, SentTypes
  <2>2. ASSUME NEW a \in Alerts, a \notin Raised' PROVE sent'[a] = 0
    <3>1. CASE QuietStep
      <4>1. UNCHANGED <<mainVars, retryVars, createdAt>>
        BY <3>1, QuietStands
      <4>2. sent' = sent
        BY <1>2, <4>1, QuietSent
      <4> QED
        BY <2>2, <4>1, <4>2 DEF SentTypes, Raised
    <3>2. ASSUME NEW w \in Workers, WorkerStep(w) PROVE sent'[a] = 0
      BY <1>2, <2>2, <3>2, PaysStep DEF Pays
    <3> QED
      BY <1>2, <3>1, <3>2, StepIsOfOne
  <2> QED
    BY <2>1, <2>2 DEF SentTypes
<1> QED
  BY <1>1, <1>2

\* A set of workers is counted with one of them set apart.
LEMMA SetApart ==
    ASSUME NEW S, S \subseteq Workers, NEW w \in Workers
    PROVE  /\ Cardinality(S \ {w}) \in Nat
           /\ Cardinality(S) = Cardinality(S \ {w}) + (IF w \in S THEN 1 ELSE 0)
<1>1. IsFiniteSet(S) /\ Cardinality(S) \in Nat
  BY WorkersAssumption, FS_Subset, FS_CardinalityType
<1>2. IsFiniteSet(S \ {w}) /\ Cardinality(S \ {w}) \in Nat
  BY <1>1, FS_Subset, FS_CardinalityType
<1>3. CASE w \in S
  BY <1>1, <1>2, <1>3, FS_RemoveElement
<1>4. CASE w \notin S
  <2>1. S \ {w} = S
    BY <1>4
  <2> QED
    BY <1>1, <1>4, <2>1
<1> QED
  BY <1>3, <1>4

\* In a step of one worker the number of rounds under way changes by its own.
LEMMA UnderWay ==
    ASSUME NEW w \in Workers, Others(w), NEW a \in Alerts
    PROVE  \E d, r \in Nat :
             /\ Cardinality(Dispatching(a)) = d + Sending(w, a)
             /\ Cardinality(Dispatching(a))' = d + Sending(w, a)'
             /\ Cardinality(Retrying(a)) = r + Resending(w, a)
             /\ Cardinality(Retrying(a))' = r + Resending(w, a)'
<1>1. /\ Dispatching(a) \subseteq Workers /\ Dispatching(a)' \subseteq Workers
      /\ Retrying(a) \subseteq Workers /\ Retrying(a)' \subseteq Workers
  BY DEF Dispatching, Retrying
<1>2. /\ Dispatching(a)' \ {w} = Dispatching(a) \ {w}
      /\ Retrying(a)' \ {w} = Retrying(a) \ {w}
  BY DEF Dispatching, Retrying, Others
<1>3. /\ w \in Dispatching(a) <=> mAlert[w] = a /\ mAdded[w] > 0 /\ mainPc[w] # "unrecorded"
      /\ w \in Dispatching(a)' <=> mAlert'[w] = a /\ mAdded'[w] > 0 /\ mainPc'[w] # "unrecorded"
      /\ w \in Retrying(a) <=> rAlert[w] = a /\ rTodo[w] # rChannels[w]
      /\ w \in Retrying(a)' <=> rAlert'[w] = a /\ rTodo'[w] # rChannels'[w]
  BY DEF Dispatching, Retrying
<1>4. /\ Cardinality(Dispatching(a)) = Cardinality(Dispatching(a) \ {w}) + Sending(w, a)
      /\ Cardinality(Dispatching(a) \ {w}) \in Nat
  BY <1>1, <1>3, SetApart DEF Sending
<1>5. Cardinality(Dispatching(a)') = Cardinality(Dispatching(a)' \ {w}) + Sending(w, a)'
  BY <1>1, <1>3, SetApart DEF Sending
<1>6. /\ Cardinality(Retrying(a)) = Cardinality(Retrying(a) \ {w}) + Resending(w, a)
      /\ Cardinality(Retrying(a) \ {w}) \in Nat
  BY <1>1, <1>3, SetApart DEF Resending
<1>7. Cardinality(Retrying(a)') = Cardinality(Retrying(a)' \ {w}) + Resending(w, a)'
  BY <1>1, <1>3, SetApart DEF Resending
<1> QED
  BY <1>2, <1>4, <1>5, <1>6, <1>7

\* What the audit trail of one alert misses.
Misses(a) ==
    sent[a] <= records[a] + Cardinality(Dispatching(a)) + Cardinality(Retrying(a)) + 2 * faults

LEMMA AuditStep ==
    ASSUME DeliveryInv, DeliveryInv', SentTypes, SentTypes', \A w \in Workers : Steady(w),
           AuditIsComplete, [Next /\ Count]_<<vars, sent>>
    PROVE  AuditIsComplete'
<1>1. CASE UNCHANGED <<vars, sent>>
  BY <1>1 DEF AuditIsComplete, Dispatching, Retrying, vars, alertVars, mainVars, retryVars, history
<1>2. CASE Next /\ Count
  <2> SUFFICES ASSUME NEW a \in Alerts, a \in rows' PROVE Misses(a)'
    BY DEF AuditIsComplete, Misses, DeliveryInv, TypeOK, TableTypes
  <2> TypeOK /\ TypeOK' /\ OnlyRaised
    BY DEF DeliveryInv
  <2>1. CASE QuietStep
    <3>1. UNCHANGED <<mainVars, retryVars, records, faults>> /\ rows' \subseteq rows
      BY <2>1, QuietStands
    <3>2. sent' = sent
      BY <1>2, <3>1, QuietSent
    <3>3. Dispatching(a)' = Dispatching(a) /\ Retrying(a)' = Retrying(a)
      BY <3>1 DEF Dispatching, Retrying, mainVars, retryVars
    <3>4. Misses(a)
      BY <3>1 DEF AuditIsComplete, Misses
    <3> QED
      BY <3>1, <3>2, <3>3, <3>4 DEF Misses
  <2>2. ASSUME NEW w \in Workers, WorkerStep(w) PROVE Misses(a)'
    <3>1. Others(w) /\ Pays(w, a) /\ faults <= faults'
      BY <1>2, <2>2, OthersStand, PaysStep, Onward
    <3>2. PICK d \in Nat, r \in Nat :
             /\ Cardinality(Dispatching(a)) = d + Sending(w, a)
             /\ Cardinality(Dispatching(a))' = d + Sending(w, a)'
             /\ Cardinality(Retrying(a)) = r + Resending(w, a)
             /\ Cardinality(Retrying(a))' = r + Resending(w, a)'
      BY <3>1, UnderWay
    <3>3. /\ sent[a] \in Nat /\ sent'[a] \in Nat /\ records[a] \in Nat /\ records'[a] \in Nat
          /\ faults \in Nat /\ faults' \in Nat
      BY DEF SentTypes, TypeOK, TableTypes
    <3>4. /\ Sending(w, a) \in Nat /\ Sending(w, a)' \in Nat
          /\ Resending(w, a) \in Nat /\ Resending(w, a)' \in Nat
      BY DEF Sending, Resending
    <3>5. CASE a \in rows
      <4>1. sent[a] <= records[a] + (d + Sending(w, a)) + (r + Resending(w, a)) + 2 * faults
        BY <3>2, <3>5 DEF AuditIsComplete
      <4>2. sent'[a] + Sending(w, a) + Resending(w, a) + records[a] + 2 * faults
              <= sent[a] + Sending(w, a)' + Resending(w, a)' + records'[a] + 2 * faults'
        BY <3>1, <3>5 DEF Pays
      <4>3. sent'[a] <= records'[a] + (d + Sending(w, a)') + (r + Resending(w, a)') + 2 * faults'
        BY <3>3, <3>4, <4>1, <4>2
      <4> QED
        BY <3>2, <4>3 DEF Misses
    <3>6. CASE a \notin rows
      <4>1. a \notin Raised
        <5>1. CASE \E b \in Alerts : InsertAlert(w, b)
          <6> PICK b \in Alerts : InsertAlert(w, b)
            BY <5>1
          <6>1. a = b /\ RuleOf[b] \in rules
            BY <3>6 DEF InsertAlert, CanInsert
          <6> QED
            BY <3>6, <6>1 DEF OnlyRaised
        <5>2. CASE ~(\E b \in Alerts : InsertAlert(w, b))
          <6>1. rows' = rows
            BY <2>2, <5>2 DEF WorkerStep, MainStep, RetryStep, RefreshAlert, LoadRule,
               MainQueryFails, Post, CommitDispatch, CommitDispatchFails, UnrecordedPost, Poll,
               SkipBackedOff, StartRetry, RetryPost, CommitRetry, RetryRowGone, RetryCallFails,
               Crash, alertVars, DispatchWrites, RetryWrites, WriteRound
          <6> QED
            BY <3>6, <6>1
        <5> QED
          BY <5>1, <5>2
      <4>2. sent'[a] = 0
        BY <3>1, <4>1 DEF Pays
      <4> QED
        BY <3>2, <3>3, <3>4, <4>2 DEF Misses
    <3> QED
      BY <3>5, <3>6
  <2> QED
    BY <1>2, <2>1, <2>2, StepIsOfOne
<1> QED
  BY <1>1, <1>2

LEMMA HistoryInit ==
    ASSUME Init, sent = [a \in Alerts |-> 0]
    PROVE  SentTypes /\ AuditIsComplete /\ \A w \in Workers : Steady(w)
BY AlertsAssumption DEF Init, SentTypes, AuditIsComplete, Steady

\* README, "Per-attempt audit trail": however dispatch, schedulers, deletes and
\* faults interleave, every round somebody sent of an alert on record is in the
\* trail, but for those under way and two per fault.
THEOREM AuditStaysComplete == RoundsSpec => []AuditIsComplete
<1> DEFINE Books == SentTypes /\ AuditIsComplete /\ \A w \in Workers : Steady(w)
<1>1. Init /\ sent = [a \in Alerts |-> 0] => Books
  BY HistoryInit
<1>2. DeliveryInv /\ DeliveryInv' /\ Books /\ [Next /\ Count]_<<vars, sent>> => Books'
  <2> SUFFICES ASSUME DeliveryInv, DeliveryInv', Books, [Next /\ Count]_<<vars, sent>>
               PROVE  Books'
    OBVIOUS
  <2>1. TypeOK /\ TypeOK' /\ OnlyRaised /\ [Next]_vars
    BY DEF DeliveryInv
  <2>2. \A w \in Workers : Steady(w)'
    BY <2>1, SteadyStep
  <2>3. SentTypes'
    BY <2>1, SentStep
  <2>4. AuditIsComplete'
    BY <2>3, AuditStep
  <2> QED
    BY <2>2, <2>3, <2>4
<1>3. Books => AuditIsComplete
  OBVIOUS
<1> HIDE DEF Books
<1> QED
  BY <1>1, <1>2, <1>3, HistoryIsIdle, Invariance, PTL DEF RoundsSpec

-----------------------------------------------------------------------------
(***************************************************************************)
(* The rounds of one worker.                                               *)
(***************************************************************************)

Most == IF MaxAttempts = 1 THEN 2 ELSE 2 * MaxAttempts - 1

\* An alert the scheduler works on.
Held(w, a) == a \in batch[w] \/ rAlert[w] = a

\* Before the commit of dispatch every round is counted, and what dispatch has
\* loaded, if it is no longer pending, is what the table holds.
Counted(w, a) ==
    /\ rounds[a] = attempts[a] /\ attempts[a] <= MaxAttempts
    /\ attempts[a] = MaxAttempts => status[a] # "pending"
    /\ Held(w, a) => Retryable(a) /\ batchAttempts[w][a] = attempts[a]
    /\ mAlert[w] = a /\ mStatus[w] # "pending" => status[a] # "pending" /\ mAttempts[w] = attempts[a]

\* After it the rounds made and those that are left do not exceed the most.
Bounded(w, a) ==
    /\ rounds[a] <= Most
    /\ Retryable(a) => rounds[a] + MaxAttempts - attempts[a] <= Most
    /\ Held(w, a) => /\ batchAttempts[w][a] < MaxAttempts
                     /\ rounds[a] + MaxAttempts - batchAttempts[w][a] <= Most

\* Nothing is loaded before the refresh, and no alert is in a batch twice.
Fresh(w) ==
    /\ mainPc[w] \in {"idle", "inserted"} => mStatus[w] = "pending"
    /\ rAlert[w] \notin batch[w]

\* What is loaded and what is in a batch: one lemma for all steps.
LEMMA FreshStep ==
    ASSUME TypeOK, NEW w \in Workers, Workers = {w}, Fresh(w), Next
    PROVE  Fresh(w)'
<1>1. ASSUME NEW a \in Alerts, InsertAlert(w, a) PROVE Fresh(w)'
  BY <1>1 DEF Fresh, InsertAlert, retryVars, TypeOK, MainTypes
<1>2. CASE RefreshAlert(w) \/ LoadRule(w)
  BY <1>2 DEF Fresh, RefreshAlert, LoadRule, MainIdle, retryVars, TypeOK, MainTypes
<1>3. CASE MainQueryFails(w)
  BY <1>3 DEF Fresh, MainQueryFails, MainIdle, retryVars, TypeOK, MainTypes
<1>4. ASSUME NEW ok \in BOOLEAN, Post(w, ok) PROVE Fresh(w)'
  BY <1>4 DEF Fresh, Post, retryVars, TypeOK, MainTypes
<1>5. CASE CommitDispatch(w)
  BY <1>5 DEF Fresh, CommitDispatch, MainIdle, retryVars, TypeOK, MainTypes
<1>6. ASSUME NEW applied \in BOOLEAN, CommitDispatchFails(w, applied) PROVE Fresh(w)'
  BY <1>6 DEF Fresh, CommitDispatchFails, MainIdle, retryVars, TypeOK, MainTypes
<1>7. ASSUME NEW ok \in BOOLEAN, UnrecordedPost(w, ok) PROVE Fresh(w)'
  BY <1>7 DEF Fresh, UnrecordedPost, MainIdle, retryVars, TypeOK, MainTypes
<1>8. CASE Poll(w)
  <2>1. batch' = [batch EXCEPT ![w] = Oldest({a \in rows : Retryable(a)})]
        /\ UNCHANGED <<rAlert, mainPc, mStatus>> /\ retryPc[w] = "next"
    BY <1>8 DEF Poll, mainVars
  <2>2. rAlert[w] \notin Alerts /\ batch'[w] \subseteq Alerts
    BY <2>1 DEF TypeOK, RetryTypes, TableTypes, Oldest
  <2> QED
    BY <2>1, <2>2 DEF Fresh
<1>9. ASSUME NEW a \in Alerts, SkipBackedOff(w, a) \/ StartRetry(w, a) PROVE Fresh(w)'
  BY <1>9 DEF Fresh, SkipBackedOff, StartRetry, mainVars, TypeOK, RetryTypes
<1>10. ASSUME NEW ok \in BOOLEAN, RetryPost(w, ok) PROVE Fresh(w)'
  BY <1>10 DEF Fresh, RetryPost, mainVars
<1>11. CASE CommitRetry(w)
  <2>1. batch' = batch /\ rAlert' = [rAlert EXCEPT ![w] = NoAlert] /\ UNCHANGED <<mainPc, mStatus>>
    BY <1>11 DEF CommitRetry, RetryDone, mainVars
  <2>2. NoAlert \notin batch[w]
    BY AlertsAssumption DEF TypeOK, RetryTypes
  <2> QED
    BY <2>1, <2>2 DEF Fresh, TypeOK, RetryTypes
<1>12. CASE RetryRowGone(w)
  BY <1>12 DEF Fresh, RetryRowGone, PollAborted, mainVars, TypeOK, RetryTypes
<1>13. ASSUME NEW applied \in BOOLEAN, RetryCallFails(w, applied) PROVE Fresh(w)'
  BY <1>13 DEF Fresh, RetryCallFails, PollAborted, mainVars, TypeOK, RetryTypes
<1>14. CASE Crash(w)
  BY <1>14 DEF Fresh, Crash, MainIdle, PollAborted, TypeOK, MainTypes, RetryTypes
<1>15. ASSUME \/ \E a \in Alerts : BackoffElapses(a)
              \/ \E r \in Rules : DeleteRule(r)
              \/ \E r \in Rules, urls \in ChannelSets : UpdateRule(r, urls)
       PROVE  Fresh(w)'
  BY <1>15 DEF Fresh, BackoffElapses, DeleteRule, UpdateRule, mainVars, retryVars
<1> QED
  BY <1>1, <1>2, <1>3, <1>4, <1>5, <1>6, <1>7, <1>8, <1>9, <1>10, <1>11, <1>12,
     <1>13, <1>14, <1>15 DEF Next, Environment, MainStep, RetryStep

\* A step keeps what is known of an alert, or it is the commit of its dispatch.
Kept(w, a) ==
    /\ Counted(w, a) => Counted(w, a)'
    /\ Bounded(w, a) => Bounded(w, a)'
    /\ InDispatch(w, a)' => InDispatch(w, a)

Concluded(w, a) ==
    /\ InDispatch(w, a) /\ ~InDispatch(w, a)'
    /\ Counted(w, a) => Bounded(w, a)'
    /\ rounds'[a] # rounds[a]

Goes(w, a) == Kept(w, a) \/ Concluded(w, a)

\* Steps that commit no round of the alert and do not poll it.
LEMMA QuietRounds ==
    ASSUME TypeOK, NEW w \in Workers, NEW a \in Alerts,
           attempts'[a] = attempts[a], status'[a] = status[a], rounds'[a] = rounds[a],
           Held(w, a)' => Held(w, a) /\ batchAttempts'[w][a] = batchAttempts[w][a],
           InDispatch(w, a)' => InDispatch(w, a),
           mAlert'[w] = a => \/ mStatus'[w] \in {"pending", status[a]} /\ mAttempts'[w] = attempts[a]
                             \/ mStatus'[w] = "pending"
                             \/ mAlert[w] = a /\ mStatus'[w] = mStatus[w] /\ mAttempts'[w] = mAttempts[w]
    PROVE  Kept(w, a)
<1>1. Counted(w, a) => Counted(w, a)'
  BY DEF Counted, Retryable
<1>2. Bounded(w, a) => Bounded(w, a)'
  BY DEF Bounded, Retryable
<1> QED
  BY <1>1, <1>2 DEF Kept

\* The SELECT of the scheduler loads the count of the table.
LEMMA PollRounds ==
    ASSUME TypeOK, NEW w \in Workers, NEW a \in Alerts, Poll(w)
    PROVE  Kept(w, a)
<1> DEFINE found == Oldest({b \in rows : Retryable(b)})
<1>1. /\ UNCHANGED <<attempts, status, rounds, createdAt, mAlert, mainPc, mStatus, mAttempts, rAlert>>
      /\ batch' = [batch EXCEPT ![w] = found]
      /\ batchAttempts' = [batchAttempts EXCEPT ![w] =
                             [b \in Alerts |-> IF b \in found THEN attempts[b] ELSE 0]]
      /\ retryPc[w] = "next"
  BY DEF Poll, alertVars, mainVars, history
<1>2. rAlert'[w] # a
  BY <1>1 DEF TypeOK, RetryTypes
<1>3. InDispatch(w, a)' <=> InDispatch(w, a)
  BY <1>1 DEF InDispatch, Raised
<1>4. a \in found => Retryable(a)
  BY DEF Oldest
<1> HIDE DEF found
<1>5. batch'[w] = found /\ (a \in found => batchAttempts'[w][a] = attempts[a])
  BY <1>1 DEF TypeOK, RetryTypes
<1>6. Held(w, a)' => Retryable(a) /\ batchAttempts'[w][a] = attempts[a]
  BY <1>2, <1>4, <1>5 DEF Held
<1>7. Counted(w, a) => Counted(w, a)'
  BY <1>1, <1>6 DEF Counted, Retryable
<1>8. Bounded(w, a) => Bounded(w, a)'
  BY <1>1, <1>6 DEF Bounded, Retryable
<1> QED
  BY <1>3, <1>7, <1>8 DEF Kept

\* The round of dispatch: what its count hides is at most what retries made.
LEMMA DispatchRounds ==
    ASSUME TypeOK, CountsAreBehind, NEW w \in Workers, NEW a \in Alerts, Counted(w, a),
           mainPc[w] = "commit", mAlert[w] = a, DispatchWrites(w), UNCHANGED retryVars
    PROVE  Bounded(w, a)'
<1>1. Counted(w, a)
  OBVIOUS
<1>2. /\ attempts'[a] = mAttempts[w] + 1 /\ rounds'[a] = rounds[a] + 1
      /\ status'[a] = DispatchVerdict(w)
  BY DEF DispatchWrites, WriteRound, TypeOK, TableTypes
<1>3. /\ attempts[a] \in Nat /\ rounds[a] \in Nat /\ MaxAttempts \in Nat \ {0}
      /\ mAttempts[w] \in Nat /\ batchAttempts[w][a] \in Nat /\ mAttempts[w] <= rounds[a]
  BY LimitsAssumption DEF TypeOK, TableTypes, MainTypes, RetryTypes, CountsAreBehind
<1>4. UNCHANGED <<batch, rAlert, batchAttempts>>
  BY DEF retryVars
<1>5. Most \in Nat /\ MaxAttempts + 1 <= Most
  BY <1>3 DEF Most
<1>6. rounds'[a] <= Most
  BY <1>1, <1>2, <1>3, <1>5 DEF Counted
<1>7. ASSUME Retryable(a)' PROVE rounds'[a] + MaxAttempts - attempts'[a] <= Most
  <2>1. status'[a] = "pending" /\ attempts'[a] < MaxAttempts
    BY <1>7 DEF Retryable
  <2>2. CASE mStatus[w] = "pending"
    <3>1. status[a] = "pending"
      BY <1>2, <2>1, <2>2 DEF DispatchVerdict
    <3>2. rounds[a] <= MaxAttempts - 1 /\ MaxAttempts >= 2
      BY <1>1, <1>2, <1>3, <2>1, <3>1 DEF Counted
    <3> QED
      BY <1>2, <1>3, <3>2 DEF Most
  <2>3. CASE mStatus[w] # "pending"
    <3>1. mAttempts[w] = rounds[a]
      BY <1>1, <2>3 DEF Counted
    <3> QED
      BY <1>2, <1>3, <1>5, <3>1
  <2> QED
    BY <2>2, <2>3
<1>8. ASSUME Held(w, a)'
      PROVE  /\ batchAttempts'[w][a] < MaxAttempts
             /\ rounds'[a] + MaxAttempts - batchAttempts'[w][a] <= Most
  <2>1. Held(w, a)
    BY <1>4, <1>8 DEF Held
  <2>2. batchAttempts[w][a] = rounds[a] /\ rounds[a] < MaxAttempts
    BY <1>1, <2>1 DEF Counted, Retryable
  <2> QED
    BY <1>2, <1>3, <1>4, <1>5, <2>2
<1> QED
  BY <1>6, <1>7, <1>8 DEF Bounded

\* The round of a retry: counted from what the poll has loaded.
LEMMA RetryRounds ==
    ASSUME TypeOK, NEW w \in Workers, Fresh(w), NEW a \in Alerts,
           rAlert[w] = a, RetryWrites(w), rAlert'[w] = NoAlert, batch'[w] \subseteq batch[w],
           UNCHANGED mainVars
    PROVE  Kept(w, a)
<1>1. /\ attempts'[a] = batchAttempts[w][a] + 1 /\ rounds'[a] = rounds[a] + 1
      /\ status'[a] = RetryVerdict(w) /\ createdAt' = createdAt
  BY DEF RetryWrites, RetryCount, WriteRound, TypeOK, TableTypes
<1>2. /\ attempts[a] \in Nat /\ rounds[a] \in Nat /\ MaxAttempts \in Nat \ {0}
      /\ batchAttempts[w][a] \in Nat /\ Most \in Nat
  BY LimitsAssumption DEF TypeOK, TableTypes, RetryTypes, Most
<1>3. Held(w, a) /\ ~Held(w, a)'
  BY AlertsAssumption DEF Held, Fresh
<1>4. UNCHANGED <<mAlert, mainPc, mStatus, mAttempts>>
  BY DEF mainVars
<1>5. InDispatch(w, a)' <=> InDispatch(w, a)
  BY <1>1, <1>4 DEF InDispatch, Raised
<1>6. ASSUME Counted(w, a) PROVE Counted(w, a)'
  <2>1. /\ batchAttempts[w][a] = attempts[a] /\ attempts[a] = rounds[a]
        /\ status[a] = "pending" /\ attempts[a] < MaxAttempts
    BY <1>3, <1>6 DEF Counted, Retryable
  <2>2. attempts'[a] = MaxAttempts => status'[a] # "pending"
    BY <1>1, <1>2, <2>1 DEF RetryVerdict, GivesUp, RetryCount
  <2>3. ~(mAlert'[w] = a /\ mStatus'[w] # "pending")
    BY <1>4, <1>6, <2>1 DEF Counted
  <2> QED
    BY <1>1, <1>2, <1>3, <2>1, <2>2, <2>3 DEF Counted
<1>7. ASSUME Bounded(w, a) PROVE Bounded(w, a)'
  <2>1. batchAttempts[w][a] < MaxAttempts /\ rounds[a] + MaxAttempts - batchAttempts[w][a] <= Most
    BY <1>3, <1>7 DEF Bounded
  <2> QED
    BY <1>1, <1>2, <1>3, <2>1 DEF Bounded
<1> QED
  BY <1>5, <1>6, <1>7 DEF Kept

\* Rounds of one worker, step by step.
LEMMA RoundsStep ==
    ASSUME TypeOK, OnlyRaised, CountsAreBehind, NEW w \in Workers, Workers = {w},
           Fresh(w), NEW a \in Alerts, Next
    PROVE  Goes(w, a)
<1> DEFINE KeepsTable == attempts'[a] = attempts[a] /\ status'[a] = status[a] /\ rounds'[a] = rounds[a]
           KeepsMain == UNCHANGED <<mAlert, mStatus, mAttempts, mainPc>>
           Leaves == mAlert'[w] = NoAlert
           LeavesPoll == batch'[w] = {} /\ rAlert'[w] = NoAlert
<1>1. ASSUME KeepsTable, createdAt' = createdAt, KeepsMain \/ Leaves,
             Held(w, a)' => Held(w, a) /\ batchAttempts'[w][a] = batchAttempts[w][a]
      PROVE  Goes(w, a)
  <2>1. InDispatch(w, a)' => InDispatch(w, a)
    BY <1>1, AlertsAssumption DEF InDispatch, Raised
  <2>2. mAlert'[w] = a => mAlert[w] = a /\ mStatus'[w] = mStatus[w] /\ mAttempts'[w] = mAttempts[w]
    BY <1>1, AlertsAssumption
  <2> QED
    BY <1>1, <2>1, <2>2, QuietRounds DEF Goes
<1>2. ASSUME UNCHANGED retryVars PROVE Held(w, a)' => Held(w, a) /\ batchAttempts'[w][a] = batchAttempts[w][a]
  BY <1>2 DEF Held, retryVars
<1>3. ASSUME LeavesPoll PROVE ~Held(w, a)'
  BY <1>3, AlertsAssumption DEF Held
<1>4. ASSUME MainIdle(w) PROVE Leaves
  BY <1>4 DEF MainIdle, TypeOK, MainTypes
<1>5. ASSUME PollAborted(w) PROVE LeavesPoll
  BY <1>5 DEF PollAborted, TypeOK, RetryTypes
<1>6. ASSUME UNCHANGED mainVars PROVE KeepsMain
  BY <1>6 DEF mainVars
<1>7. ASSUME DispatchWrites(w), mAlert[w] # a PROVE KeepsTable /\ createdAt' = createdAt
  BY <1>7 DEF DispatchWrites, WriteRound, TypeOK, TableTypes
<1>8. ASSUME RetryWrites(w), rAlert[w] # a PROVE KeepsTable /\ createdAt' = createdAt
  BY <1>8 DEF RetryWrites, WriteRound, TypeOK, TableTypes
<1>9. ASSUME DispatchWrites(w), mainPc[w] = "commit", UNCHANGED retryVars,
             Leaves \/ (mAlert' = mAlert /\ mainPc' = [mainPc EXCEPT ![w] = "unrecorded"])
      PROVE  Goes(w, a)
  <2>1. CASE mAlert[w] = a
    <3>1. createdAt' = createdAt /\ a \in Raised
      BY <1>9, <2>1 DEF DispatchWrites, WriteRound, OnlyRaised
    <3>2. ~InDispatch(w, a)'
      BY <1>9, <3>1, AlertsAssumption DEF InDispatch, Raised, TypeOK, MainTypes
    <3>3. InDispatch(w, a)
      BY <1>9, <2>1 DEF InDispatch
    <3>4. rounds'[a] # rounds[a]
      BY <1>9, <2>1 DEF DispatchWrites, WriteRound, TypeOK, TableTypes
    <3> QED
      BY <1>9, <2>1, <3>2, <3>3, <3>4, DispatchRounds DEF Goes, Concluded
  <2>2. CASE mAlert[w] # a
    <3>1. InDispatch(w, a)' => InDispatch(w, a)
      BY <1>7, <1>9, <2>2, AlertsAssumption DEF InDispatch, Raised
    <3>2. mAlert'[w] # a
      BY <1>9, <2>2, AlertsAssumption
    <3> QED
      BY <1>2, <1>7, <1>9, <2>2, <3>1, <3>2, QuietRounds DEF Goes
  <2> QED
    BY <2>1, <2>2
<1>10. ASSUME RetryWrites(w), rAlert'[w] = NoAlert, batch'[w] \subseteq batch[w], UNCHANGED mainVars,
              \A b \in Alerts : b # rAlert[w] /\ b \in batch'[w] => batchAttempts'[w][b] = batchAttempts[w][b]
       PROVE  Goes(w, a)
  <2>1. CASE rAlert[w] = a
    BY <1>10, <2>1, RetryRounds DEF Goes
  <2>2. CASE rAlert[w] # a
    <3>1. Held(w, a)' => Held(w, a) /\ batchAttempts'[w][a] = batchAttempts[w][a]
      BY <1>10, <2>2, AlertsAssumption DEF Held
    <3> QED
      BY <1>1, <1>6, <1>8, <1>10, <2>2, <3>1
  <2> QED
    BY <2>1, <2>2
<1> HIDE DEF KeepsTable, KeepsMain, Leaves, LeavesPoll
<1>11. ASSUME NEW b \in Alerts, InsertAlert(w, b) PROVE Goes(w, a)
  <2>1. b \notin Raised /\ UNCHANGED <<attempts, status, rounds, retryVars, mStatus, mAttempts>>
        /\ mStatus[w] = "pending" /\ mAlert[w] \notin Alerts
    BY <1>11 DEF InsertAlert, CanInsert, OnlyRaised, Fresh, history, TypeOK, MainTypes
  <2>2. mAlert'[w] = b /\ \A c \in Alerts : c \notin Raised' => c \notin Raised
    <3> DEFINE serial == 1 + Cardinality({c \in Alerts : createdAt[c] > 0})
    <3>1. createdAt' = [createdAt EXCEPT ![b] = serial] /\ serial > 0
      BY <1>11, SerialIsPositive DEF InsertAlert
    <3>2. mAlert'[w] = b
      BY <1>11 DEF InsertAlert, TypeOK, MainTypes
    <3> HIDE DEF serial
    <3> QED
      BY <3>1, <3>2 DEF Raised, TypeOK, TableTypes
  <2>3. InDispatch(w, a)' => InDispatch(w, a)
    BY <2>1, <2>2 DEF InDispatch
  <2>4. Held(w, a)' => Held(w, a) /\ batchAttempts'[w][a] = batchAttempts[w][a]
    BY <1>2, <2>1
  <2> QED
    BY <2>1, <2>3, <2>4, QuietRounds DEF Goes
<1>12. CASE RefreshAlert(w)
  <2>1. UNCHANGED <<attempts, status, rounds, createdAt, retryVars>> /\ mainPc[w] = "inserted"
    BY <1>12 DEF RefreshAlert, alertVars, history
  <2>2. CASE mAlert[w] \in rows
    <3>1. /\ mAlert' = mAlert
          /\ mStatus'[w] = status[mAlert[w]] /\ mAttempts'[w] = attempts[mAlert[w]]
      BY <1>12, <2>2 DEF RefreshAlert, TypeOK, MainTypes
    <3>2. InDispatch(w, a)' => InDispatch(w, a)
      BY <2>1, <3>1 DEF InDispatch, Raised
    <3>3. Held(w, a)' => Held(w, a) /\ batchAttempts'[w][a] = batchAttempts[w][a]
      BY <1>2, <2>1
    <3> QED
      BY <2>1, <3>1, <3>2, <3>3, QuietRounds DEF Goes
  <2>3. CASE mAlert[w] \notin rows
    BY <1>1, <1>2, <1>4, <1>12, <2>1, <2>3 DEF RefreshAlert, KeepsTable
  <2> QED
    BY <2>2, <2>3
<1>13. CASE LoadRule(w)
  <2>1. UNCHANGED <<attempts, status, rounds, createdAt, retryVars>>
    BY <1>13 DEF LoadRule, alertVars, history
  <2>2. CASE RuleOf[mAlert[w]] \in rules
    <3>1. UNCHANGED <<mAlert, mStatus, mAttempts>> /\ mainPc[w] = "loaded"
      BY <1>13, <2>2 DEF LoadRule
    <3>2. InDispatch(w, a)' => InDispatch(w, a)
      BY <2>1, <3>1 DEF InDispatch, Raised
    <3>3. Held(w, a)' => Held(w, a) /\ batchAttempts'[w][a] = batchAttempts[w][a]
      BY <1>2, <2>1
    <3> QED
      BY <2>1, <3>1, <3>2, <3>3, QuietRounds DEF Goes
  <2>3. CASE RuleOf[mAlert[w]] \notin rules
    BY <1>1, <1>2, <1>4, <1>13, <2>1, <2>3 DEF LoadRule, KeepsTable
  <2> QED
    BY <2>2, <2>3
<1>14. CASE MainQueryFails(w)
  BY <1>1, <1>2, <1>4, <1>14 DEF MainQueryFails, alertVars, KeepsTable
<1>15. ASSUME NEW ok \in BOOLEAN, Post(w, ok) PROVE Goes(w, a)
  <2>1. UNCHANGED <<attempts, status, rounds, createdAt, retryVars, mAlert, mStatus, mAttempts>>
        /\ mainPc[w] = "post"
    BY <1>15 DEF Post, alertVars
  <2>2. InDispatch(w, a)' => InDispatch(w, a)
    BY <2>1 DEF InDispatch, Raised
  <2>3. Held(w, a)' => Held(w, a) /\ batchAttempts'[w][a] = batchAttempts[w][a]
    BY <1>2, <2>1
  <2> QED
    BY <2>1, <2>2, <2>3, QuietRounds DEF Goes
<1>16. CASE CommitDispatch(w)
  <2>1. mainPc[w] = "commit" /\ UNCHANGED retryVars /\ Leaves
    BY <1>4, <1>16 DEF CommitDispatch
  <2>2. CASE mAlert[w] \in rows
    BY <1>9, <1>16, <2>1, <2>2 DEF CommitDispatch
  <2>3. CASE mAlert[w] \notin rows
    BY <1>1, <1>2, <1>16, <2>1, <2>3 DEF CommitDispatch, alertVars, KeepsTable
  <2> QED
    BY <2>2, <2>3
<1>17. ASSUME NEW applied \in BOOLEAN, CommitDispatchFails(w, applied) PROVE Goes(w, a)
  <2>1. /\ mainPc[w] = "commit" /\ UNCHANGED retryVars
        /\ \/ Leaves
           \/ /\ mAlert' = mAlert /\ mainPc' = [mainPc EXCEPT ![w] = "unrecorded"]
              /\ UNCHANGED <<mStatus, mAttempts>>
    BY <1>4, <1>17 DEF CommitDispatchFails
  <2>2. CASE applied /\ mAlert[w] \in rows
    BY <1>9, <1>17, <2>1, <2>2 DEF CommitDispatchFails
  <2>3. CASE ~(applied /\ mAlert[w] \in rows)
    <3>1. UNCHANGED <<attempts, status, rounds, createdAt>>
      BY <1>17, <2>3 DEF CommitDispatchFails, alertVars
    <3>2. InDispatch(w, a)' => InDispatch(w, a)
      BY <2>1, <3>1, AlertsAssumption DEF InDispatch, Raised, Leaves
    <3>3. mAlert'[w] = a => mAlert[w] = a /\ mStatus'[w] = mStatus[w] /\ mAttempts'[w] = mAttempts[w]
      BY <2>1, AlertsAssumption DEF Leaves
    <3>4. Held(w, a)' => Held(w, a) /\ batchAttempts'[w][a] = batchAttempts[w][a]
      BY <1>2, <2>1
    <3> QED
      BY <3>1, <3>2, <3>3, <3>4, QuietRounds DEF Goes
  <2> QED
    BY <2>2, <2>3
<1>18. ASSUME NEW ok \in BOOLEAN, UnrecordedPost(w, ok) PROVE Goes(w, a)
  BY <1>1, <1>2, <1>4, <1>18 DEF UnrecordedPost, alertVars, KeepsTable
<1>19. CASE Poll(w)
  BY <1>19, PollRounds DEF Goes
<1>20. ASSUME NEW b \in Alerts, SkipBackedOff(w, b) PROVE Goes(w, a)
  <2>1. /\ UNCHANGED <<alertVars, rounds, mainVars, rAlert>>
        /\ batch' = [batch EXCEPT ![w] = @ \ {b}]
        /\ batchAttempts' = [batchAttempts EXCEPT ![w][b] = 0]
        /\ retryPc[w] = "next"
    BY <1>20 DEF SkipBackedOff, history
  <2>2. Held(w, a)' => Held(w, a) /\ batchAttempts'[w][a] = batchAttempts[w][a]
    BY <2>1 DEF Held, TypeOK, RetryTypes
  <2> QED
    BY <1>1, <1>6, <2>1, <2>2 DEF alertVars, KeepsTable
<1>21. ASSUME NEW b \in Alerts, StartRetry(w, b) PROVE Goes(w, a)
  <2>1. /\ UNCHANGED <<alertVars, rounds, mainVars, batchAttempts>>
        /\ batch' = [batch EXCEPT ![w] = @ \ {b}]
        /\ rAlert' = [rAlert EXCEPT ![w] = b] /\ b \in batch[w]
    BY <1>21 DEF StartRetry, IsFirst, history
  <2>2. Held(w, a)' => Held(w, a)
    BY <2>1 DEF Held, TypeOK, RetryTypes
  <2> QED
    BY <1>1, <1>6, <2>1, <2>2 DEF alertVars, KeepsTable
<1>22. ASSUME NEW ok \in BOOLEAN, RetryPost(w, ok) PROVE Goes(w, a)
  <2>1. UNCHANGED <<alertVars, rounds, mainVars, batch, batchAttempts, rAlert>>
    BY <1>22 DEF RetryPost
  <2>2. Held(w, a)' => Held(w, a) /\ batchAttempts'[w][a] = batchAttempts[w][a]
    BY <2>1 DEF Held
  <2> QED
    BY <1>1, <1>6, <2>1, <2>2 DEF alertVars, KeepsTable
<1>23. CASE CommitRetry(w)
  <2>1. /\ RetryWrites(w) /\ UNCHANGED mainVars /\ batch' = batch
        /\ rAlert' = [rAlert EXCEPT ![w] = NoAlert]
        /\ batchAttempts' = [batchAttempts EXCEPT ![w][rAlert[w]] = 0]
        /\ rAlert[w] \in Alerts
    BY <1>23 DEF CommitRetry, RetryDone, TypeOK, TableTypes
  <2>2. rAlert'[w] = NoAlert /\ \A b \in Alerts : b # rAlert[w] => batchAttempts'[w][b] = batchAttempts[w][b]
    BY <2>1 DEF TypeOK, RetryTypes
  <2> QED
    BY <1>10, <2>1, <2>2
<1>24. CASE RetryRowGone(w)
  BY <1>1, <1>3, <1>5, <1>6, <1>24 DEF RetryRowGone, alertVars, history, KeepsTable
<1>25. ASSUME NEW applied \in BOOLEAN, RetryCallFails(w, applied) PROVE Goes(w, a)
  <2>1. UNCHANGED mainVars /\ LeavesPoll
    BY <1>5, <1>25 DEF RetryCallFails
  <2>2. CASE applied /\ retryPc[w] = "commit" /\ rAlert[w] \in rows
    BY <1>10, <1>25, <2>1, <2>2 DEF RetryCallFails, LeavesPoll
  <2>3. CASE ~(applied /\ retryPc[w] = "commit" /\ rAlert[w] \in rows)
    BY <1>1, <1>3, <1>6, <1>25, <2>1, <2>3 DEF RetryCallFails, alertVars, KeepsTable
  <2> QED
    BY <2>2, <2>3
<1>26. CASE Crash(w)
  BY <1>1, <1>3, <1>4, <1>5, <1>26 DEF Crash, alertVars, KeepsTable
<1>27. ASSUME \/ \E b \in Alerts : BackoffElapses(b)
              \/ \E r \in Rules : DeleteRule(r)
              \/ \E r \in Rules, urls \in ChannelSets : UpdateRule(r, urls)
       PROVE  Goes(w, a)
  <2>1. UNCHANGED <<attempts, status, rounds, createdAt, mainVars, retryVars>>
    BY <1>27 DEF BackoffElapses, DeleteRule, UpdateRule, alertVars, history
  <2> QED
    BY <1>1, <1>2, <1>6, <2>1 DEF KeepsTable
<1> QED
  BY <1>11, <1>12, <1>13, <1>14, <1>15, <1>16, <1>17, <1>18, <1>19, <1>20, <1>21, <1>22,
     <1>23, <1>24, <1>25, <1>26, <1>27 DEF Next, Environment, MainStep, RetryStep

\* What one worker has sent of an alert: while it is on record, what is counted,
\* what is under way, what faults cut off, and once dispatch is over without a
\* commit, its own round.  An alert that is gone is at its end.
OnRecord(w, a) ==
    \/ /\ Counted(w, a)
       /\ sent[a] <= rounds[a] + Sending(w, a) + Resending(w, a) + faults
                       + (IF InDispatch(w, a) THEN 0 ELSE 1)
    \/ /\ ~InDispatch(w, a) /\ Bounded(w, a)
       /\ sent[a] <= rounds[a] + Sending(w, a) + Resending(w, a) + faults

SentOf(w, a) ==
    IF a \in Raised /\ a \notin rows
    THEN sent[a] + ToSend(w, a) + ToResend(w, a) <= Most + faults
    ELSE OnRecord(w, a)

\* The numbers of the bound.
LEMMA BoundNumbers ==
    ASSUME TypeOK, SentTypes, NEW w \in Workers, NEW a \in Alerts
    PROVE  /\ sent[a] \in Nat /\ rounds[a] \in Nat /\ attempts[a] \in Nat /\ faults \in Nat
           /\ batchAttempts[w][a] \in Nat
           /\ MaxAttempts \in Nat \ {0} /\ Most \in Nat /\ MaxAttempts + 1 <= Most
           /\ Sending(w, a) \in {0, 1} /\ Resending(w, a) \in {0, 1}
           /\ ToSend(w, a) \in {0, 1} /\ ToResend(w, a) \in {0, 1}
           /\ Sending(w, a) + ToSend(w, a) \in {0, 1}
           /\ Resending(w, a) + ToResend(w, a) \in {0, 1}
           /\ Sending(w, a) + ToSend(w, a) = 1 => InDispatch(w, a)
           /\ Resending(w, a) + ToResend(w, a) = 1 => Held(w, a)
<1>1. /\ sent[a] \in Nat /\ rounds[a] \in Nat /\ attempts[a] \in Nat /\ faults \in Nat
      /\ batchAttempts[w][a] \in Nat /\ mAdded[w] \in Nat
  BY DEF SentTypes, TypeOK, TableTypes, MainTypes, RetryTypes
<1>2. MaxAttempts \in Nat \ {0} /\ Most \in Nat /\ MaxAttempts + 1 <= Most
  BY LimitsAssumption DEF Most
<1>3. /\ Sending(w, a) \in {0, 1} /\ ToSend(w, a) \in {0, 1}
      /\ Sending(w, a) + ToSend(w, a) \in {0, 1}
      /\ Sending(w, a) + ToSend(w, a) = 1 => InDispatch(w, a)
  BY <1>1 DEF Sending, ToSend, InDispatch
<1>4. /\ Resending(w, a) \in {0, 1} /\ ToResend(w, a) \in {0, 1}
      /\ Resending(w, a) + ToResend(w, a) \in {0, 1}
      /\ Resending(w, a) + ToResend(w, a) = 1 => Held(w, a)
  BY DEF Resending, ToResend, Held
<1> QED
  BY <1>1, <1>2, <1>3, <1>4

\* Nobody has more to come than the most.
LEMMA OnRecordIsBounded ==
    ASSUME TypeOK, SentTypes, NEW w \in Workers, NEW a \in Alerts, OnRecord(w, a)
    PROVE  sent[a] + ToSend(w, a) + ToResend(w, a) <= Most + faults
<1>0. /\ sent[a] \in Nat /\ rounds[a] \in Nat /\ attempts[a] \in Nat /\ faults \in Nat
      /\ batchAttempts[w][a] \in Nat
      /\ MaxAttempts \in Nat \ {0} /\ Most \in Nat /\ MaxAttempts + 1 <= Most
      /\ Sending(w, a) \in {0, 1} /\ Resending(w, a) \in {0, 1}
      /\ ToSend(w, a) \in {0, 1} /\ ToResend(w, a) \in {0, 1}
      /\ Sending(w, a) + ToSend(w, a) \in {0, 1}
      /\ Resending(w, a) + ToResend(w, a) \in {0, 1}
      /\ Sending(w, a) + ToSend(w, a) = 1 => InDispatch(w, a)
      /\ Resending(w, a) + ToResend(w, a) = 1 => Held(w, a)
  BY BoundNumbers
<1>1. CASE /\ Counted(w, a)
           /\ sent[a] <= rounds[a] + Sending(w, a) + Resending(w, a) + faults
                           + (IF InDispatch(w, a) THEN 0 ELSE 1)
  <2>1. rounds[a] + (Resending(w, a) + ToResend(w, a)) <= MaxAttempts
    BY <1>0, <1>1 DEF Counted, Retryable
  <2>2. (Sending(w, a) + ToSend(w, a)) + (IF InDispatch(w, a) THEN 0 ELSE 1) <= 1
    BY <1>0
  <2> QED
    BY <1>0, <1>1, <2>1, <2>2
<1>2. CASE /\ ~InDispatch(w, a) /\ Bounded(w, a)
           /\ sent[a] <= rounds[a] + Sending(w, a) + Resending(w, a) + faults
  <2>1. rounds[a] + (Resending(w, a) + ToResend(w, a)) <= Most
    BY <1>0, <1>2 DEF Bounded
  <2>2. Sending(w, a) + ToSend(w, a) = 0
    BY <1>0, <1>2
  <2> QED
    BY <1>0, <1>2, <2>1, <2>2
<1> QED
  BY <1>1, <1>2 DEF OnRecord

\* A step of the worker on an alert that is on record, before and after.
LEMMA OnRecordStep ==
    ASSUME TypeOK, TypeOK', SentTypes, SentTypes', NEW w \in Workers, NEW a \in Alerts,
           OnRecord(w, a), Goes(w, a), a \in rows, a \in rows', Pays(w, a)
    PROVE  OnRecord(w, a)'
<1>0. /\ sent[a] \in Nat /\ rounds[a] \in Nat /\ faults \in Nat
      /\ Sending(w, a) \in {0, 1} /\ Resending(w, a) \in {0, 1}
  BY BoundNumbers
<1>1. /\ sent'[a] \in Nat /\ rounds'[a] \in Nat /\ faults' \in Nat
  BY DEF SentTypes, TypeOK, TableTypes
<1>2. Sending(w, a)' \in {0, 1} /\ Resending(w, a)' \in {0, 1}
  BY DEF Sending, Resending
<1>3. CASE sent'[a] + Sending(w, a) + Resending(w, a) + rounds[a] + faults
             <= sent[a] + Sending(w, a)' + Resending(w, a)' + rounds'[a] + faults'
  <2>1. CASE Kept(w, a)
    BY <1>0, <1>1, <1>2, <1>3, <2>1 DEF OnRecord, Kept
  <2>2. CASE Concluded(w, a)
    BY <1>0, <1>1, <1>2, <1>3, <2>2 DEF OnRecord, Concluded
  <2> QED
    BY <2>1, <2>2 DEF Goes
<1>4. CASE /\ sent'[a] + Sending(w, a) + Resending(w, a) + rounds[a] + faults
                <= sent[a] + Sending(w, a)' + Resending(w, a)' + rounds'[a] + faults' + 1
           /\ InDispatch(w, a) /\ ~InDispatch(w, a)' /\ rounds'[a] = rounds[a]
  <2>1. Kept(w, a)
    BY <1>4 DEF Goes, Concluded
  <2> QED
    BY <1>0, <1>1, <1>2, <1>4, <2>1 DEF OnRecord, Kept
<1> QED
  BY <1>3, <1>4 DEF Pays

\* Only an insert adds a row, and it raises an alert nobody has sent yet.
LEMMA RowsOf ==
    ASSUME TypeOK, OnlyRaised, NEW w \in Workers, WorkerStep(w)
    PROVE  \/ rows' = rows /\ createdAt' = createdAt
           \/ \E b \in Alerts : InsertAlert(w, b)
BY DEF WorkerStep, MainStep, RetryStep, RefreshAlert, LoadRule, MainQueryFails, Post,
       CommitDispatch, CommitDispatchFails, UnrecordedPost, Poll, SkipBackedOff, StartRetry,
       RetryPost, CommitRetry, RetryRowGone, RetryCallFails, Crash, alertVars,
       DispatchWrites, RetryWrites, WriteRound

LEMMA SentOfWorkerStep ==
    ASSUME DeliveryInv, DeliveryInv', SentTypes, SentTypes', NEW w \in Workers,
           Workers = {w}, Steady(w), Fresh(w), WorkerStep(w), Next, Count,
           NEW a \in Alerts, SentOf(w, a)
    PROVE  SentOf(w, a)'
<1> TypeOK /\ TypeOK' /\ OnlyRaised /\ OnlyRaised' /\ CountsAreBehind
  BY DEF DeliveryInv
<1>1. Goes(w, a) /\ Pays(w, a) /\ Raised \subseteq Raised' /\ faults <= faults'
  BY RoundsStep, PaysStep, Onward
<1>2. CASE a \in Raised /\ a \notin rows
  <2>1. RuleOf[a] \notin rules
    BY <1>2 DEF OnlyRaised
  <2>2. a \notin rows' /\ a \in Raised'
    BY <1>1, <1>2, <2>1, RowsOf DEF InsertAlert, CanInsert
  <2>3. sent[a] + ToSend(w, a) + ToResend(w, a) <= Most + faults
    BY <1>2 DEF SentOf
  <2>4. sent'[a] + ToSend(w, a)' + ToResend(w, a)' + faults
          <= sent[a] + ToSend(w, a) + ToResend(w, a) + faults'
    BY <1>1, <1>2 DEF Pays
  <2>5. sent'[a] + ToSend(w, a)' + ToResend(w, a)' <= Most + faults'
    <3>1. ToSend(w, a)' \in Nat /\ ToResend(w, a)' \in Nat
      BY DEF ToSend, ToResend
    <3>2. sent'[a] \in Nat /\ faults' \in Nat
      BY DEF SentTypes, TypeOK, TableTypes
    <3>3. /\ sent[a] \in Nat /\ faults \in Nat /\ Most \in Nat
          /\ ToSend(w, a) \in {0, 1} /\ ToResend(w, a) \in {0, 1}
      BY BoundNumbers
    <3> QED
      BY <2>3, <2>4, <3>1, <3>2, <3>3
  <2> QED
    BY <2>2, <2>5 DEF SentOf
<1>3. CASE a \in rows
  <2>1. a \in rows'
    BY <1>3, RowsOf DEF InsertAlert
  <2> QED
    BY <1>1, <1>3, <2>1, OnRecordStep DEF SentOf
<1>4. CASE a \notin Raised
  <2>1. OnRecord(w, a) /\ InDispatch(w, a)
    BY <1>4 DEF SentOf, InDispatch
  <2>2. sent'[a] = 0
    BY <1>1, <1>4 DEF Pays
  <2>3. Counted(w, a)
    BY <2>1 DEF OnRecord
  <2>4. /\ rounds'[a] \in Nat /\ faults' \in Nat
        /\ Sending(w, a)' \in Nat /\ Resending(w, a)' \in Nat
    BY DEF TypeOK, TableTypes, Sending, Resending
  <2>5. OnRecord(w, a)'
    BY <1>1, <2>2, <2>3, <2>4 DEF Goes, Kept, Concluded, OnRecord
  <2>6. a \in Raised' => a \in rows'
    <3>1. CASE createdAt' = createdAt
      BY <1>4, <3>1 DEF Raised
    <3>2. ASSUME NEW b \in Alerts, InsertAlert(w, b) PROVE a \in Raised' => a \in rows'
      <4>1. a # b => createdAt'[a] = createdAt[a]
        BY <3>2 DEF InsertAlert, TypeOK, TableTypes
      <4>2. a = b => a \in rows'
        BY <3>2 DEF InsertAlert
      <4> QED
        BY <1>4, <4>1, <4>2 DEF Raised
    <3> QED
      BY <3>1, <3>2, RowsOf
  <2> QED
    BY <2>5, <2>6 DEF SentOf
<1> QED
  BY <1>2, <1>3, <1>4 DEF SentOf

LEMMA SentOfQuietStep ==
    ASSUME DeliveryInv, SentTypes, NEW w \in Workers, Workers = {w}, QuietStep, Count,
           NEW a \in Alerts, SentOf(w, a)
    PROVE  SentOf(w, a)'
<1> TypeOK
  BY DEF DeliveryInv
<1>1. /\ UNCHANGED <<mainVars, retryVars, records, rounds, attempts, status, faults, createdAt>>
      /\ rows' \subseteq rows
  BY QuietStands
<1>2. sent' = sent
  BY <1>1, QuietSent
<1>3. OnRecord(w, a) => OnRecord(w, a)'
  BY <1>1, <1>2 DEF OnRecord, Counted, Bounded, Held, Retryable, InDispatch, Raised, Sending,
     Resending, mainVars, retryVars
<1>4. /\ ToSend(w, a)' = ToSend(w, a) /\ ToResend(w, a)' = ToResend(w, a) /\ Raised' = Raised
  BY <1>1 DEF ToSend, ToResend, Raised, mainVars, retryVars
<1> QED
  BY <1>1, <1>2, <1>3, <1>4, OnRecordIsBounded DEF SentOf

\* The invariant of a worker that is alone.
RoundsInv ==
    /\ SentTypes
    /\ \A w \in Workers : Steady(w)
    /\ \A w \in Workers :
         Workers = {w} => Fresh(w) /\ \A a \in Alerts : SentOf(w, a)

LEMMA RoundsInit ==
    ASSUME Init, sent = [a \in Alerts |-> 0]
    PROVE  RoundsInv
<1>1. SentTypes /\ \A w \in Workers : Steady(w)
  BY HistoryInit
<1>2. ASSUME NEW w \in Workers PROVE Fresh(w)
  BY DEF Init, Fresh
<1>3. ASSUME NEW w \in Workers, NEW a \in Alerts PROVE SentOf(w, a)
  <2>1. a \notin Raised /\ a \notin rows
    BY DEF Init, Raised
  <2>2. Counted(w, a)
    BY LimitsAssumption, AlertsAssumption DEF Init, Counted, Held
  <2>3. Sending(w, a) \in Nat /\ Resending(w, a) \in Nat
    BY DEF Sending, Resending
  <2>4. sent[a] = 0 /\ rounds[a] = 0 /\ faults = 0
    BY DEF Init
  <2>5. OnRecord(w, a)
    BY <2>2, <2>3, <2>4 DEF OnRecord
  <2> QED
    BY <2>1, <2>5 DEF SentOf
<1> QED
  BY <1>1, <1>2, <1>3 DEF RoundsInv

LEMMA RoundsInvStep ==
    ASSUME DeliveryInv, DeliveryInv', RoundsInv, [Next /\ Count]_<<vars, sent>>
    PROVE  RoundsInv'
<1> TypeOK /\ TypeOK' /\ OnlyRaised /\ CountsAreBehind /\ [Next]_vars
  BY DEF DeliveryInv
<1>1. \A w \in Workers : Steady(w)'
  BY SteadyStep DEF RoundsInv
<1>2. SentTypes /\ SentTypes'
  BY SentStep DEF RoundsInv
<1>3. ASSUME NEW w \in Workers, Workers = {w}
      PROVE  Fresh(w)' /\ \A a \in Alerts : SentOf(w, a)'
  <2>0. Fresh(w) /\ Steady(w) /\ \A a \in Alerts : SentOf(w, a)
    BY <1>3 DEF RoundsInv
  <2>1. CASE Next /\ Count
    <3>1. Fresh(w)'
      BY <1>3, <2>0, <2>1, FreshStep
    <3>2. ASSUME NEW a \in Alerts PROVE SentOf(w, a)'
      <4>1. CASE QuietStep
        BY <1>2, <1>3, <2>0, <2>1, <4>1, SentOfQuietStep
      <4>2. CASE WorkerStep(w)
        BY <1>2, <1>3, <2>0, <2>1, <4>2, SentOfWorkerStep
      <4> QED
        BY <1>3, <2>1, <4>1, <4>2, StepIsOfOne
    <3> QED
      BY <3>1, <3>2
  <2>2. CASE UNCHANGED <<vars, sent>>
    <3>1. Fresh(w)'
      BY <2>0, <2>2 DEF vars, mainVars, retryVars, Fresh
    <3>2. ASSUME NEW a \in Alerts PROVE SentOf(w, a)'
      BY <2>0, <2>2 DEF vars, alertVars, mainVars, retryVars, history, SentOf, OnRecord,
         InDispatch, Raised, Counted, Bounded, Held, Retryable, Sending, Resending, ToSend,
         ToResend
    <3> QED
      BY <3>1, <3>2
  <2> QED
    BY <2>1, <2>2
<1> QED
  BY <1>1, <1>2, <1>3 DEF RoundsInv

\* With one worker no alert costs its recipients more than 2 * MaxAttempts - 1
\* rounds (dispatch overwrites the count of its own scheduler) and one for every
\* fault: a crash, a lost answer of a commit or a failed one, after which a round
\* that was sent is sent again.
THEOREM RoundsAreBounded == RoundsSpec => []RoundsOfOneWorker
<1>1. DeliveryInv /\ RoundsInv => RoundsOfOneWorker
  <2> SUFFICES ASSUME DeliveryInv, RoundsInv, Cardinality(Workers) = 1, NEW a \in Alerts
               PROVE  sent[a] <= Most + faults
    BY DEF RoundsOfOneWorker, Most
  <2>1. PICK w : Workers = {w}
    BY WorkersAssumption, FS_Singleton
  <2>2. TypeOK /\ SentTypes /\ SentOf(w, a) /\ w \in Workers
    BY <2>1 DEF RoundsInv, DeliveryInv
  <2>3. sent[a] + ToSend(w, a) + ToResend(w, a) <= Most + faults
    BY <2>2, OnRecordIsBounded DEF SentOf
  <2>4. /\ sent[a] \in Nat /\ faults \in Nat /\ Most \in Nat
        /\ ToSend(w, a) \in {0, 1} /\ ToResend(w, a) \in {0, 1}
    BY <2>2, BoundNumbers
  <2> QED
    BY <2>3, <2>4
<1>2. Init /\ sent = [a \in Alerts |-> 0] => RoundsInv
  BY RoundsInit
<1>3. DeliveryInv /\ DeliveryInv' /\ RoundsInv /\ [Next /\ Count]_<<vars, sent>> => RoundsInv'
  BY RoundsInvStep
<1> QED
  BY <1>1, <1>2, <1>3, HistoryIsIdle, Invariance, PTL DEF RoundsSpec
=============================================================================
