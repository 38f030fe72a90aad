--------------------------- MODULE Delivery_proofs ---------------------------
(***************************************************************************)
(* Theorems about Delivery, for every number of workers, rules and alerts, *)
(* every retry budget and every number of faults.                          *)
(***************************************************************************)
EXTENDS Delivery, FiniteSetTheorems, TLAPS

-----------------------------------------------------------------------------
(***************************************************************************)
(* What the shared pieces of the actions do to the types.                  *)
(***************************************************************************)

\* The alerts created so far can be counted: what InsertAlert assigns to
\* createdAt (the place in the order of created_at) is a positive natural.
LEMMA SerialIsPositive ==
    1 + Cardinality({b \in Alerts : createdAt[b] > 0}) \in Nat \ {0}
<1>1. IsFiniteSet({b \in Alerts : createdAt[b] > 0})
  BY AlertsAssumption, FS_Subset
<1>2. Cardinality({b \in Alerts : createdAt[b] > 0}) \in Nat
  BY <1>1, FS_CardinalityType
<1> QED
  BY <1>2

\* A main loop that gives up (the end of dispatch, main_loop's rollback, a crash)
\* holds nothing any more.
LEMMA MainIdleTypes ==
    ASSUME MainTypes, NEW w \in Workers, MainIdle(w)
    PROVE  MainTypes'
  BY AlertsAssumption DEF MainTypes, MainIdle, MainPcs, Verdicts

\* Neither does a scheduler whose poll ends with an error.
LEMMA PollAbortedTypes ==
    ASSUME RetryTypes, NEW w \in Workers, PollAborted(w)
    PROVE  RetryTypes'
  BY AlertsAssumption DEF RetryTypes, PollAborted, RetryPcs

\* Nor one that is done with an alert.
LEMMA RetryDoneTypes ==
    ASSUME RetryTypes, NEW w \in Workers, rAlert[w] \in Alerts, RetryDone(w)
    PROVE  RetryTypes'
  BY AlertsAssumption DEF RetryTypes, RetryDone, RuleKept, RetryPcs

\* A POST changes nothing but who was reached.
LEMMA SendTypes ==
    ASSUME TableTypes, NEW a \in Alerts, NEW ok \in BOOLEAN, Send(a, ok)
    PROVE  /\ reached' \subseteq Alerts
           /\ reached \subseteq reached'
           /\ ok => a \in reached'
  BY DEF TableTypes, Send

\* The commit of a delivery round keeps the types of the tables.
LEMMA WriteRoundTypes ==
    ASSUME TableTypes, NEW a \in Alerts, NEW count \in Nat, NEW verdict \in Verdicts,
           NEW added \in Nat, NEW ok \in BOOLEAN,
           WriteRound(a, count, verdict, added, ok),
           UNCHANGED <<ruleVars, reached>>, faults' \in Nat
    PROVE  TableTypes'
  BY DEF TableTypes, WriteRound, ruleVars

\* dispatch commits a round of the alert it holds.
LEMMA DispatchWritesTypes ==
    ASSUME TypeOK, NEW w \in Workers, mAlert[w] \in Alerts, DispatchWrites(w),
           UNCHANGED <<ruleVars, reached>>, faults' \in Nat
    PROVE  TableTypes'
<1>1. DispatchVerdict(w) \in Verdicts
  BY DEF DispatchVerdict, TypeOK, TableTypes, Verdicts
<1> QED
  BY <1>1, WriteRoundTypes DEF DispatchWrites, TypeOK, MainTypes

\* So does the scheduler.
LEMMA RetryWritesTypes ==
    ASSUME TypeOK, NEW w \in Workers, rAlert[w] \in Alerts, RetryWrites(w),
           UNCHANGED <<ruleVars, reached>>, faults' \in Nat
    PROVE  TableTypes'
<1>1. RetryVerdict(w) \in Verdicts
  BY DEF RetryVerdict, TypeOK, TableTypes, Verdicts
<1>2. RetryCount(w) \in Nat
  BY DEF RetryCount, TypeOK, RetryTypes
<1> QED
  BY <1>1, <1>2, WriteRoundTypes DEF RetryWrites, TypeOK, RetryTypes

-----------------------------------------------------------------------------
(***************************************************************************)
(* Type correctness.                                                       *)
(***************************************************************************)

\* A step of any task, of the API or of time keeps the types.
LEMMA TypeStep == TypeOK /\ [Next]_vars => TypeOK'
<1> SUFFICES ASSUME TypeOK, [Next]_vars PROVE TypeOK'
  OBVIOUS
<1>1. ASSUME NEW w \in Workers, NEW a \in Alerts, InsertAlert(w, a)
      PROVE  TypeOK'
  <2>1. TableTypes'
    BY <1>1, SerialIsPositive DEF InsertAlert, TypeOK, TableTypes, ruleVars,
       history
  <2>2. MainTypes'
    BY <1>1, AlertsAssumption DEF InsertAlert, TypeOK, MainTypes, MainPcs
  <2>3. RetryTypes'
    BY <1>1 DEF InsertAlert, TypeOK, RetryTypes, retryVars
  <2> QED
    BY <2>1, <2>2, <2>3 DEF TypeOK
<1>2. ASSUME NEW w \in Workers, RefreshAlert(w)
      PROVE  TypeOK'
  <2>1. TableTypes'
    BY <1>2 DEF RefreshAlert, TypeOK, TableTypes, ruleVars, alertVars, history
  <2>2. MainTypes'
    BY <1>2, MainIdleTypes DEF RefreshAlert, TypeOK, TableTypes, MainTypes,
       MainPcs
  <2>3. RetryTypes'
    BY <1>2 DEF RefreshAlert, TypeOK, RetryTypes, retryVars
  <2> QED
    BY <2>1, <2>2, <2>3 DEF TypeOK
<1>3. ASSUME NEW w \in Workers, LoadRule(w)
      PROVE  TypeOK'
  <2>1. TableTypes'
    BY <1>3 DEF LoadRule, TypeOK, TableTypes, ruleVars, alertVars, history
  <2>2. MainTypes'
    BY <1>3, RulesAssumption, MainIdleTypes DEF LoadRule, TypeOK, TableTypes,
       MainTypes, MainPcs
  <2>3. RetryTypes'
    BY <1>3 DEF LoadRule, TypeOK, RetryTypes, retryVars
  <2> QED
    BY <2>1, <2>2, <2>3 DEF TypeOK
<1>4. ASSUME NEW w \in Workers, MainQueryFails(w)
      PROVE  TypeOK'
  <2>1. TableTypes'
    BY <1>4 DEF MainQueryFails, TypeOK, TableTypes, ruleVars, alertVars, history
  <2>2. MainTypes'
    BY <1>4, MainIdleTypes DEF MainQueryFails, TypeOK
  <2>3. RetryTypes'
    BY <1>4 DEF MainQueryFails, TypeOK, RetryTypes, retryVars
  <2> QED
    BY <2>1, <2>2, <2>3 DEF TypeOK
<1>5. ASSUME NEW w \in Workers, NEW ok \in BOOLEAN, Post(w, ok)
      PROVE  TypeOK'
  <2>1. TableTypes'
    BY <1>5, SendTypes DEF Post, TypeOK, TableTypes, MainTypes, ruleVars,
       alertVars
  <2>2. MainTypes'
    BY <1>5 DEF Post, TypeOK, MainTypes, MainPcs
  <2>3. RetryTypes'
    BY <1>5 DEF Post, TypeOK, RetryTypes, retryVars
  <2> QED
    BY <2>1, <2>2, <2>3 DEF TypeOK
<1>6. ASSUME NEW w \in Workers, CommitDispatch(w)
      PROVE  TypeOK'
  <2>1. TableTypes'
    BY <1>6, DispatchWritesTypes DEF CommitDispatch, TypeOK, TableTypes,
       MainTypes, ruleVars, alertVars
  <2>2. MainTypes'
    BY <1>6, MainIdleTypes DEF CommitDispatch, TypeOK
  <2>3. RetryTypes'
    BY <1>6 DEF CommitDispatch, TypeOK, RetryTypes, retryVars
  <2> QED
    BY <2>1, <2>2, <2>3 DEF TypeOK
<1>7. ASSUME NEW w \in Workers, NEW applied \in BOOLEAN, CommitDispatchFails(w, applied)
      PROVE  TypeOK'
  <2>1. TableTypes'
    BY <1>7, DispatchWritesTypes DEF CommitDispatchFails, TypeOK, TableTypes,
       MainTypes, ruleVars, alertVars
  <2>2. MainTypes'
    BY <1>7, MainIdleTypes DEF CommitDispatchFails, TypeOK, MainTypes, MainPcs
  <2>3. RetryTypes'
    BY <1>7 DEF CommitDispatchFails, TypeOK, RetryTypes, retryVars
  <2> QED
    BY <2>1, <2>2, <2>3 DEF TypeOK
<1>8. ASSUME NEW w \in Workers, NEW ok \in BOOLEAN, UnrecordedPost(w, ok)
      PROVE  TypeOK'
  <2>1. TableTypes'
    BY <1>8, SendTypes DEF UnrecordedPost, TypeOK, TableTypes, MainTypes,
       ruleVars, alertVars
  <2>2. MainTypes'
    BY <1>8, MainIdleTypes DEF UnrecordedPost, TypeOK
  <2>3. RetryTypes'
    BY <1>8 DEF UnrecordedPost, TypeOK, RetryTypes, retryVars
  <2> QED
    BY <2>1, <2>2, <2>3 DEF TypeOK
<1>9. ASSUME NEW w \in Workers, Poll(w)
      PROVE  TypeOK'
  <2>1. TableTypes'
    BY <1>9 DEF Poll, TypeOK, TableTypes, ruleVars, alertVars, history
  <2>2. MainTypes'
    BY <1>9 DEF Poll, TypeOK, MainTypes, mainVars
  <2>3. RetryTypes'
    BY <1>9 DEF Poll, Oldest, TypeOK, TableTypes, RetryTypes
  <2> QED
    BY <2>1, <2>2, <2>3 DEF TypeOK
<1>10. ASSUME NEW w \in Workers, NEW a \in Alerts, SkipBackedOff(w, a)
      PROVE  TypeOK'
  <2>1. TableTypes'
    BY <1>10 DEF SkipBackedOff, TypeOK, TableTypes, ruleVars, alertVars, history
  <2>2. MainTypes'
    BY <1>10 DEF SkipBackedOff, TypeOK, MainTypes, mainVars
  <2>3. RetryTypes'
    BY <1>10 DEF SkipBackedOff, RuleKept, TypeOK, RetryTypes
  <2> QED
    BY <2>1, <2>2, <2>3 DEF TypeOK
<1>11. ASSUME NEW w \in Workers, NEW a \in Alerts, StartRetry(w, a)
      PROVE  TypeOK'
  <2>1. TableTypes'
    BY <1>11 DEF StartRetry, TypeOK, TableTypes, ruleVars, alertVars, history
  <2>2. MainTypes'
    BY <1>11 DEF StartRetry, TypeOK, MainTypes, mainVars
  <2>3. RetryTypes'
    BY <1>11, RulesAssumption DEF StartRetry, RetryUrls, TypeOK, TableTypes,
       RetryTypes, RetryPcs
  <2> QED
    BY <2>1, <2>2, <2>3 DEF TypeOK
<1>12. ASSUME NEW w \in Workers, NEW ok \in BOOLEAN, RetryPost(w, ok)
      PROVE  TypeOK'
  <2>0. reached' \subseteq Alerts
    BY <1>12, SendTypes DEF RetryPost, TypeOK, RetryTypes
  <2>1. TableTypes'
    BY <1>12, <2>0 DEF RetryPost, TypeOK, TableTypes, ruleVars, alertVars
  <2>2. MainTypes'
    BY <1>12 DEF RetryPost, TypeOK, MainTypes, mainVars
  <2>3. RetryTypes'
    BY <1>12 DEF RetryPost, TypeOK, RetryTypes, RetryPcs
  <2> QED
    BY <2>1, <2>2, <2>3 DEF TypeOK
<1>13. ASSUME NEW w \in Workers, CommitRetry(w)
      PROVE  TypeOK'
  <2>1. TableTypes'
    BY <1>13, RetryWritesTypes DEF CommitRetry, TypeOK, TableTypes, RetryTypes,
       ruleVars, alertVars
  <2>2. MainTypes'
    BY <1>13 DEF CommitRetry, TypeOK, MainTypes, mainVars
  <2>3. RetryTypes'
    BY <1>13, RetryDoneTypes DEF CommitRetry, TypeOK, RetryTypes
  <2> QED
    BY <2>1, <2>2, <2>3 DEF TypeOK
<1>14. ASSUME NEW w \in Workers, RetryRowGone(w)
      PROVE  TypeOK'
  <2>1. TableTypes'
    BY <1>14 DEF RetryRowGone, TypeOK, TableTypes, ruleVars, alertVars, history
  <2>2. MainTypes'
    BY <1>14 DEF RetryRowGone, TypeOK, MainTypes, mainVars
  <2>3. RetryTypes'
    BY <1>14, PollAbortedTypes DEF RetryRowGone, TypeOK
  <2> QED
    BY <2>1, <2>2, <2>3 DEF TypeOK
<1>15. ASSUME NEW w \in Workers, NEW applied \in BOOLEAN, RetryCallFails(w, applied)
      PROVE  TypeOK'
  <2>1. TableTypes'
    BY <1>15, RetryWritesTypes DEF RetryCallFails, TypeOK, TableTypes,
       RetryTypes, ruleVars, alertVars
  <2>2. MainTypes'
    BY <1>15 DEF RetryCallFails, TypeOK, MainTypes, mainVars
  <2>3. RetryTypes'
    BY <1>15, PollAbortedTypes DEF RetryCallFails, TypeOK
  <2> QED
    BY <2>1, <2>2, <2>3 DEF TypeOK
<1>16. ASSUME NEW w \in Workers, Crash(w)
      PROVE  TypeOK'
  <2>1. TableTypes'
    BY <1>16 DEF Crash, TypeOK, TableTypes, ruleVars, alertVars, history
  <2>2. MainTypes'
    BY <1>16, MainIdleTypes DEF Crash, TypeOK
  <2>3. RetryTypes'
    BY <1>16, PollAbortedTypes DEF Crash, TypeOK
  <2> QED
    BY <2>1, <2>2, <2>3 DEF TypeOK
<1>17. ASSUME NEW a \in Alerts, BackoffElapses(a)
      PROVE  TypeOK'
  <2>1. TableTypes'
    BY <1>17 DEF BackoffElapses, TypeOK, TableTypes, ruleVars, alertVars,
       history
  <2>2. MainTypes'
    BY <1>17 DEF BackoffElapses, TypeOK, MainTypes, mainVars
  <2>3. RetryTypes'
    BY <1>17 DEF BackoffElapses, TypeOK, RetryTypes, retryVars
  <2> QED
    BY <2>1, <2>2, <2>3 DEF TypeOK
<1>18. ASSUME NEW r \in Rules, DeleteRule(r)
      PROVE  TypeOK'
  <2>1. TableTypes'
    BY <1>18 DEF DeleteRule, TypeOK, TableTypes, ruleVars, alertVars, history
  <2>2. MainTypes'
    BY <1>18 DEF DeleteRule, TypeOK, MainTypes, mainVars
  <2>3. RetryTypes'
    BY <1>18 DEF DeleteRule, TypeOK, RetryTypes, retryVars
  <2> QED
    BY <2>1, <2>2, <2>3 DEF TypeOK
<1>19. ASSUME NEW r \in Rules, NEW urls \in ChannelSets, UpdateRule(r, urls)
      PROVE  TypeOK'
  <2>1. TableTypes'
    BY <1>19, ChannelsAssumption DEF UpdateRule, TypeOK, TableTypes, alertVars,
       history
  <2>2. MainTypes'
    BY <1>19 DEF UpdateRule, TypeOK, MainTypes, mainVars
  <2>3. RetryTypes'
    BY <1>19 DEF UpdateRule, TypeOK, RetryTypes, retryVars
  <2> QED
    BY <2>1, <2>2, <2>3 DEF TypeOK
<1>20. CASE UNCHANGED vars
  BY <1>20 DEF vars, ruleVars, alertVars, mainVars, retryVars, history, TypeOK,
     TableTypes, MainTypes, RetryTypes
<1> QED
  BY <1>1, <1>2, <1>3, <1>4, <1>5, <1>6, <1>7, <1>8, <1>9, <1>10, <1>11, <1>12,
     <1>13, <1>14, <1>15, <1>16, <1>17, <1>18, <1>19, <1>20 DEF Next, Environment,
     MainStep, RetryStep

\* The worker starts with the types right.
LEMMA TypeInit == Init => TypeOK
<1> SUFFICES ASSUME Init PROVE TypeOK
  OBVIOUS
<1>1. TableTypes
  BY ChannelsAssumption DEF Init, TableTypes, Verdicts
<1>2. MainTypes
  BY AlertsAssumption DEF Init, MainTypes, MainPcs, Verdicts
<1>3. RetryTypes
  BY AlertsAssumption DEF Init, RetryTypes, RetryPcs
<1> QED
  BY <1>1, <1>2, <1>3 DEF TypeOK

\* Every variable keeps its type, and a program counter tells whether its task
\* holds an alert (the local `alert` of main_loop and of process_pending_alerts).
THEOREM TypeCorrect == Spec => []TypeOK
  BY TypeInit, TypeStep, PTL DEF Spec

-----------------------------------------------------------------------------
(***************************************************************************)
(* The inductive invariant, one conjunct (or two that need each other) at  *)
(* a time.                                                                 *)
(***************************************************************************)

\* Only InsertAlert gives a main loop an alert, and only one that the unique
\* constraint and the foreign key let in; DeleteRule cascades.
LEMMA OnlyRaisedStep ==
    TypeOK /\ OnlyRaised /\ [Next]_vars => OnlyRaised'
<1> SUFFICES ASSUME TypeOK, OnlyRaised, [Next]_vars PROVE OnlyRaised'
  OBVIOUS
<1>1. ASSUME NEW w \in Workers, NEW a \in Alerts, InsertAlert(w, a)
      PROVE  OnlyRaised'
  <2> DEFINE serial == 1 + Cardinality({b \in Alerts : createdAt[b] > 0})
  <2>1. createdAt' = [createdAt EXCEPT ![a] = serial] /\ serial > 0
    BY <1>1, SerialIsPositive DEF InsertAlert
  <2> HIDE DEF serial
  <2>2. Raised' = Raised \cup {a}
    BY <2>1 DEF Raised, TypeOK, TableTypes
  <2> QED
    BY <1>1, <2>2, AlertsAssumption DEF InsertAlert, CanInsert, ruleVars, retryVars,
       OnlyRaised, TypeOK, MainTypes, RetryTypes
<1>2. ASSUME NEW w \in Workers, RefreshAlert(w)
      PROVE  OnlyRaised'
  <2>1. \A v \in Workers : mAlert'[v] \in {mAlert[v], NoAlert}
    BY <1>2 DEF RefreshAlert, MainIdle, TypeOK, MainTypes
  <2> QED
    BY <1>2, <2>1, AlertsAssumption DEF RefreshAlert, ruleVars, alertVars, retryVars,
       OnlyRaised, Raised
<1>3. ASSUME NEW w \in Workers, LoadRule(w)
      PROVE  OnlyRaised'
  BY <1>3, AlertsAssumption DEF LoadRule, MainIdle, ruleVars, alertVars,
     retryVars, history, OnlyRaised, Raised, TypeOK, TableTypes, MainTypes,
     RetryTypes
<1>4. ASSUME NEW w \in Workers, MainQueryFails(w)
      PROVE  OnlyRaised'
  BY <1>4, AlertsAssumption DEF MainQueryFails, MainIdle, ruleVars, alertVars,
     retryVars, OnlyRaised, Raised, TypeOK, TableTypes, MainTypes, RetryTypes
<1>5. ASSUME NEW w \in Workers, NEW ok \in BOOLEAN, Post(w, ok)
      PROVE  OnlyRaised'
  BY <1>5 DEF Post, Send, ruleVars, alertVars, retryVars, OnlyRaised, Raised,
     TypeOK, TableTypes, MainTypes, RetryTypes
<1>6. ASSUME NEW w \in Workers, CommitDispatch(w)
      PROVE  OnlyRaised'
  BY <1>6, AlertsAssumption DEF CommitDispatch, DispatchWrites, WriteRound,
     MainIdle, ruleVars, retryVars, alertVars, OnlyRaised, Raised, TypeOK,
     TableTypes, MainTypes, RetryTypes
<1>7. ASSUME NEW w \in Workers, NEW applied \in BOOLEAN, CommitDispatchFails(w, applied)
      PROVE  OnlyRaised'
  BY <1>7, AlertsAssumption DEF CommitDispatchFails, DispatchWrites, WriteRound,
     MainIdle, ruleVars, retryVars, alertVars, OnlyRaised, Raised, TypeOK,
     TableTypes, MainTypes, RetryTypes
<1>8. ASSUME NEW w \in Workers, NEW ok \in BOOLEAN, UnrecordedPost(w, ok)
      PROVE  OnlyRaised'
  BY <1>8, AlertsAssumption DEF UnrecordedPost, Send, MainIdle, ruleVars,
     alertVars, retryVars, OnlyRaised, Raised, TypeOK, TableTypes, MainTypes,
     RetryTypes
<1>9. ASSUME NEW w \in Workers, Poll(w)
      PROVE  OnlyRaised'
  BY <1>9 DEF Poll, Oldest, ruleVars, alertVars, mainVars, history, OnlyRaised,
     Raised, TypeOK, TableTypes, MainTypes, RetryTypes
<1>10. ASSUME NEW w \in Workers, NEW a \in Alerts, SkipBackedOff(w, a)
      PROVE  OnlyRaised'
  BY <1>10 DEF SkipBackedOff, ruleVars, alertVars, mainVars, history,
     OnlyRaised, Raised, TypeOK, TableTypes, MainTypes, RetryTypes
<1>11. ASSUME NEW w \in Workers, NEW a \in Alerts, StartRetry(w, a)
      PROVE  OnlyRaised'
  BY <1>11 DEF StartRetry, IsFirst, ruleVars, alertVars, mainVars, history,
     OnlyRaised, Raised, TypeOK, TableTypes, MainTypes, RetryTypes
<1>12. ASSUME NEW w \in Workers, NEW ok \in BOOLEAN, RetryPost(w, ok)
      PROVE  OnlyRaised'
  BY <1>12 DEF RetryPost, Send, ruleVars, alertVars, mainVars, OnlyRaised,
     Raised, TypeOK, TableTypes, MainTypes, RetryTypes
<1>13. ASSUME NEW w \in Workers, CommitRetry(w)
      PROVE  OnlyRaised'
  BY <1>13, AlertsAssumption DEF CommitRetry, RetryWrites, WriteRound,
     RetryDone, ruleVars, mainVars, OnlyRaised, Raised, TypeOK, TableTypes,
     MainTypes, RetryTypes
<1>14. ASSUME NEW w \in Workers, RetryRowGone(w)
      PROVE  OnlyRaised'
  BY <1>14, AlertsAssumption DEF RetryRowGone, PollAborted, ruleVars, alertVars,
     mainVars, history, OnlyRaised, Raised, TypeOK, TableTypes, MainTypes,
     RetryTypes
<1>15. ASSUME NEW w \in Workers, NEW applied \in BOOLEAN, RetryCallFails(w, applied)
      PROVE  OnlyRaised'
  BY <1>15, AlertsAssumption DEF RetryCallFails, RetryWrites, WriteRound,
     PollAborted, ruleVars, mainVars, alertVars, OnlyRaised, Raised, TypeOK,
     TableTypes, MainTypes, RetryTypes
<1>16. ASSUME NEW w \in Workers, Crash(w)
      PROVE  OnlyRaised'
  BY <1>16, AlertsAssumption DEF Crash, MainIdle, PollAborted, ruleVars,
     alertVars, OnlyRaised, Raised, TypeOK, TableTypes, MainTypes, RetryTypes
<1>17. ASSUME NEW a \in Alerts, BackoffElapses(a)
      PROVE  OnlyRaised'
  BY <1>17 DEF BackoffElapses, ruleVars, mainVars, retryVars, history,
     OnlyRaised, Raised, TypeOK, TableTypes, MainTypes, RetryTypes
<1>18. ASSUME NEW r \in Rules, DeleteRule(r)
      PROVE  OnlyRaised'
  BY <1>18 DEF DeleteRule, mainVars, retryVars, history, OnlyRaised, Raised,
     TypeOK, TableTypes, MainTypes, RetryTypes
<1>19. ASSUME NEW r \in Rules, NEW urls \in ChannelSets, UpdateRule(r, urls)
      PROVE  OnlyRaised'
  BY <1>19 DEF UpdateRule, alertVars, mainVars, retryVars, history, OnlyRaised,
     Raised, TypeOK, TableTypes, MainTypes, RetryTypes
<1>20. CASE UNCHANGED vars
  BY <1>20 DEF vars, ruleVars, alertVars, mainVars, retryVars, history,
     OnlyRaised, Raised, TypeOK, TableTypes, MainTypes, RetryTypes
<1> QED
  BY <1>1, <1>2, <1>3, <1>4, <1>5, <1>6, <1>7, <1>8, <1>9, <1>10, <1>11, <1>12,
     <1>13, <1>14, <1>15, <1>16, <1>17, <1>18, <1>19, <1>20 DEF Next,
     Environment, MainStep, RetryStep
\* A row is inserted only while no row with its rule and window exists, and
\* whoever dispatches an alert has inserted it.
LEMMA DispatchedByOneStep ==
    TypeOK /\ OnlyRaised /\ DispatchedByOne /\ [Next]_vars => DispatchedByOne'
<1> SUFFICES ASSUME TypeOK, OnlyRaised, DispatchedByOne, [Next]_vars
             PROVE  DispatchedByOne'
  OBVIOUS
<1>0. ASSUME NEW a \in Alerts, CanInsert(a), NEW v \in Workers PROVE mAlert[v] # a
  BY <1>0 DEF CanInsert, OnlyRaised, Raised
<1>1. ASSUME NEW w \in Workers, NEW a \in Alerts, InsertAlert(w, a)
      PROVE  DispatchedByOne'
  BY <1>1, <1>0 DEF InsertAlert, DispatchedByOne, TypeOK, MainTypes
<1>2. ASSUME NEW w \in Workers, RefreshAlert(w)
      PROVE  DispatchedByOne'
  BY <1>2, AlertsAssumption DEF RefreshAlert, MainIdle, ruleVars, alertVars,
     retryVars, history, DispatchedByOne, TypeOK, MainTypes
<1>3. ASSUME NEW w \in Workers, LoadRule(w)
      PROVE  DispatchedByOne'
  BY <1>3, AlertsAssumption DEF LoadRule, MainIdle, ruleVars, alertVars,
     retryVars, history, DispatchedByOne, TypeOK, MainTypes
<1>4. ASSUME NEW w \in Workers, MainQueryFails(w)
      PROVE  DispatchedByOne'
  BY <1>4, AlertsAssumption DEF MainQueryFails, MainIdle, ruleVars, alertVars,
     retryVars, DispatchedByOne, TypeOK, MainTypes
<1>5. ASSUME NEW w \in Workers, NEW ok \in BOOLEAN, Post(w, ok)
      PROVE  DispatchedByOne'
  BY <1>5 DEF Post, Send, ruleVars, alertVars, retryVars, DispatchedByOne,
     TypeOK, MainTypes
<1>6. ASSUME NEW w \in Workers, CommitDispatch(w)
      PROVE  DispatchedByOne'
  BY <1>6, AlertsAssumption DEF CommitDispatch, DispatchWrites, WriteRound,
     MainIdle, ruleVars, retryVars, alertVars, DispatchedByOne, TypeOK,
     MainTypes
<1>7. ASSUME NEW w \in Workers, NEW applied \in BOOLEAN, CommitDispatchFails(w, applied)
      PROVE  DispatchedByOne'
  BY <1>7, AlertsAssumption DEF CommitDispatchFails, DispatchWrites, WriteRound,
     MainIdle, ruleVars, retryVars, alertVars, DispatchedByOne, TypeOK,
     MainTypes
<1>8. ASSUME NEW w \in Workers, NEW ok \in BOOLEAN, UnrecordedPost(w, ok)
      PROVE  DispatchedByOne'
  BY <1>8, AlertsAssumption DEF UnrecordedPost, Send, MainIdle, ruleVars,
     alertVars, retryVars, DispatchedByOne, TypeOK, MainTypes
<1>9. ASSUME NEW w \in Workers, Poll(w)
      PROVE  DispatchedByOne'
  BY <1>9 DEF Poll, Oldest, ruleVars, alertVars, mainVars, history,
     DispatchedByOne, TypeOK, MainTypes
<1>10. ASSUME NEW w \in Workers, NEW a \in Alerts, SkipBackedOff(w, a)
      PROVE  DispatchedByOne'
  BY <1>10 DEF SkipBackedOff, ruleVars, alertVars, mainVars, history,
     DispatchedByOne, TypeOK, MainTypes
<1>11. ASSUME NEW w \in Workers, NEW a \in Alerts, StartRetry(w, a)
      PROVE  DispatchedByOne'
  BY <1>11 DEF StartRetry, IsFirst, ruleVars, alertVars, mainVars, history,
     DispatchedByOne, TypeOK, MainTypes
<1>12. ASSUME NEW w \in Workers, NEW ok \in BOOLEAN, RetryPost(w, ok)
      PROVE  DispatchedByOne'
  BY <1>12 DEF RetryPost, Send, ruleVars, alertVars, mainVars, DispatchedByOne,
     TypeOK, MainTypes
<1>13. ASSUME NEW w \in Workers, CommitRetry(w)
      PROVE  DispatchedByOne'
  BY <1>13 DEF CommitRetry, RetryWrites, WriteRound, RetryDone, ruleVars,
     mainVars, DispatchedByOne, TypeOK, MainTypes
<1>14. ASSUME NEW w \in Workers, RetryRowGone(w)
      PROVE  DispatchedByOne'
  BY <1>14 DEF RetryRowGone, PollAborted, ruleVars, alertVars, mainVars,
     history, DispatchedByOne, TypeOK, MainTypes
<1>15. ASSUME NEW w \in Workers, NEW applied \in BOOLEAN, RetryCallFails(w, applied)
      PROVE  DispatchedByOne'
  BY <1>15 DEF RetryCallFails, RetryWrites, WriteRound, PollAborted, ruleVars,
     mainVars, alertVars, DispatchedByOne, TypeOK, MainTypes
<1>16. ASSUME NEW w \in Workers, Crash(w)
      PROVE  DispatchedByOne'
  BY <1>16, AlertsAssumption DEF Crash, MainIdle, PollAborted, ruleVars,
     alertVars, DispatchedByOne, TypeOK, MainTypes
<1>17. ASSUME NEW a \in Alerts, BackoffElapses(a)
      PROVE  DispatchedByOne'
  BY <1>17 DEF BackoffElapses, ruleVars, mainVars, retryVars, history,
     DispatchedByOne, TypeOK, MainTypes
<1>18. ASSUME NEW r \in Rules, DeleteRule(r)
      PROVE  DispatchedByOne'
  BY <1>18 DEF DeleteRule, mainVars, retryVars, history, DispatchedByOne,
     TypeOK, MainTypes
<1>19. ASSUME NEW r \in Rules, NEW urls \in ChannelSets, UpdateRule(r, urls)
      PROVE  DispatchedByOne'
  BY <1>19 DEF UpdateRule, alertVars, mainVars, retryVars, history,
     DispatchedByOne, TypeOK, MainTypes
<1>20. CASE UNCHANGED vars
  BY <1>20 DEF vars, ruleVars, alertVars, mainVars, retryVars, history,
     DispatchedByOne, TypeOK, MainTypes
<1> QED
  BY <1>1, <1>2, <1>3, <1>4, <1>5, <1>6, <1>7, <1>8, <1>9, <1>10, <1>11, <1>12,
     <1>13, <1>14, <1>15, <1>16, <1>17, <1>18, <1>19, <1>20 DEF Next,
     Environment, MainStep, RetryStep

\* Success is what Send reported, the verdict "delivered" is what it led to.
LEMMA SuccessStep ==
    TypeOK /\ SuccessIsTrue /\ DeliveredIsTrue /\ [Next]_vars
      => SuccessIsTrue' /\ DeliveredIsTrue'
<1> SUFFICES ASSUME TypeOK, SuccessIsTrue, DeliveredIsTrue, [Next]_vars
             PROVE  (SuccessIsTrue /\ DeliveredIsTrue)'
  OBVIOUS
<1> DEFINE Truth == SuccessIsTrue /\ DeliveredIsTrue
<1>1. ASSUME NEW w \in Workers, NEW a \in Alerts, InsertAlert(w, a)
      PROVE  Truth'
  BY <1>1, AlertsAssumption DEF InsertAlert, CanInsert, ruleVars, retryVars,
     history, SuccessIsTrue, DeliveredIsTrue, TypeOK, TableTypes, MainTypes,
     RetryTypes
<1>2. ASSUME NEW w \in Workers, RefreshAlert(w)
      PROVE  Truth'
  BY <1>2, AlertsAssumption DEF RefreshAlert, MainIdle, ruleVars, alertVars,
     retryVars, history, SuccessIsTrue, DeliveredIsTrue, TypeOK, TableTypes,
     MainTypes, RetryTypes
<1>3. ASSUME NEW w \in Workers, LoadRule(w)
      PROVE  Truth'
  BY <1>3, AlertsAssumption DEF LoadRule, MainIdle, ruleVars, alertVars,
     retryVars, history, SuccessIsTrue, DeliveredIsTrue, TypeOK, TableTypes,
     MainTypes, RetryTypes
<1>4. ASSUME NEW w \in Workers, MainQueryFails(w)
      PROVE  Truth'
  BY <1>4, AlertsAssumption DEF MainQueryFails, MainIdle, ruleVars, alertVars,
     retryVars, SuccessIsTrue, DeliveredIsTrue, TypeOK, TableTypes, MainTypes,
     RetryTypes
<1>5. ASSUME NEW w \in Workers, NEW ok \in BOOLEAN, Post(w, ok)
      PROVE  Truth'
  BY <1>5, AlertsAssumption DEF Post, Send, ruleVars, alertVars, retryVars,
     SuccessIsTrue, DeliveredIsTrue, TypeOK, TableTypes, MainTypes, RetryTypes
<1>6. ASSUME NEW w \in Workers, CommitDispatch(w)
      PROVE  Truth'
  BY <1>6, AlertsAssumption DEF CommitDispatch, DispatchWrites, WriteRound,
     MainIdle, DispatchVerdict, ruleVars, retryVars, alertVars, SuccessIsTrue,
     DeliveredIsTrue, TypeOK, TableTypes, MainTypes, RetryTypes
<1>7. ASSUME NEW w \in Workers, NEW applied \in BOOLEAN, CommitDispatchFails(w, applied)
      PROVE  Truth'
  BY <1>7, AlertsAssumption DEF CommitDispatchFails, DispatchWrites, WriteRound,
     MainIdle, DispatchVerdict, ruleVars, retryVars, alertVars, SuccessIsTrue,
     DeliveredIsTrue, TypeOK, TableTypes, MainTypes, RetryTypes
<1>8. ASSUME NEW w \in Workers, NEW ok \in BOOLEAN, UnrecordedPost(w, ok)
      PROVE  Truth'
  BY <1>8, AlertsAssumption DEF UnrecordedPost, Send, MainIdle, ruleVars,
     alertVars, retryVars, SuccessIsTrue, DeliveredIsTrue, TypeOK, TableTypes,
     MainTypes, RetryTypes
<1>9. ASSUME NEW w \in Workers, Poll(w)
      PROVE  Truth'
  BY <1>9 DEF Poll, Oldest, ruleVars, alertVars, mainVars, history,
     SuccessIsTrue, DeliveredIsTrue, TypeOK, TableTypes, MainTypes, RetryTypes
<1>10. ASSUME NEW w \in Workers, NEW a \in Alerts, SkipBackedOff(w, a)
      PROVE  Truth'
  BY <1>10 DEF SkipBackedOff, ruleVars, alertVars, mainVars, history,
     SuccessIsTrue, DeliveredIsTrue, TypeOK, TableTypes, MainTypes, RetryTypes
<1>11. ASSUME NEW w \in Workers, NEW a \in Alerts, StartRetry(w, a)
      PROVE  Truth'
  BY <1>11 DEF StartRetry, IsFirst, ruleVars, alertVars, mainVars, history,
     SuccessIsTrue, DeliveredIsTrue, TypeOK, TableTypes, MainTypes, RetryTypes
<1>12. ASSUME NEW w \in Workers, NEW ok \in BOOLEAN, RetryPost(w, ok)
      PROVE  Truth'
  BY <1>12 DEF RetryPost, Send, ruleVars, alertVars, mainVars, SuccessIsTrue,
     DeliveredIsTrue, TypeOK, TableTypes, MainTypes, RetryTypes
<1>13. ASSUME NEW w \in Workers, CommitRetry(w)
      PROVE  Truth'
  BY <1>13, AlertsAssumption DEF CommitRetry, RetryWrites, WriteRound,
     RetryDone, RetryVerdict, ruleVars, mainVars, SuccessIsTrue,
     DeliveredIsTrue, TypeOK, TableTypes, MainTypes, RetryTypes
<1>14. ASSUME NEW w \in Workers, RetryRowGone(w)
      PROVE  Truth'
  BY <1>14 DEF RetryRowGone, PollAborted, ruleVars, alertVars, mainVars,
     history, SuccessIsTrue, DeliveredIsTrue, TypeOK, TableTypes, MainTypes,
     RetryTypes
<1>15. ASSUME NEW w \in Workers, NEW applied \in BOOLEAN, RetryCallFails(w, applied)
      PROVE  Truth'
  BY <1>15, AlertsAssumption DEF RetryCallFails, RetryWrites, WriteRound,
     PollAborted, RetryVerdict, ruleVars, mainVars, alertVars, SuccessIsTrue,
     DeliveredIsTrue, TypeOK, TableTypes, MainTypes, RetryTypes
<1>16. ASSUME NEW w \in Workers, Crash(w)
      PROVE  Truth'
  BY <1>16, AlertsAssumption DEF Crash, MainIdle, PollAborted, ruleVars,
     alertVars, SuccessIsTrue, DeliveredIsTrue, TypeOK, TableTypes, MainTypes,
     RetryTypes
<1>17. ASSUME NEW a \in Alerts, BackoffElapses(a)
      PROVE  Truth'
  BY <1>17 DEF BackoffElapses, ruleVars, mainVars, retryVars, history,
     SuccessIsTrue, DeliveredIsTrue, TypeOK, TableTypes, MainTypes, RetryTypes
<1>18. ASSUME NEW r \in Rules, DeleteRule(r)
      PROVE  Truth'
  BY <1>18 DEF DeleteRule, mainVars, retryVars, history, SuccessIsTrue,
     DeliveredIsTrue, TypeOK, TableTypes, MainTypes, RetryTypes
<1>19. ASSUME NEW r \in Rules, NEW urls \in ChannelSets, UpdateRule(r, urls)
      PROVE  Truth'
  BY <1>19 DEF UpdateRule, alertVars, mainVars, retryVars, history,
     SuccessIsTrue, DeliveredIsTrue, TypeOK, TableTypes, MainTypes, RetryTypes
<1>20. CASE UNCHANGED vars
  BY <1>20 DEF vars, ruleVars, alertVars, mainVars, retryVars, history,
     SuccessIsTrue, DeliveredIsTrue, TypeOK, TableTypes, MainTypes, RetryTypes
<1> QED
  BY <1>1, <1>2, <1>3, <1>4, <1>5, <1>6, <1>7, <1>8, <1>9, <1>10, <1>11, <1>12,
     <1>13, <1>14, <1>15, <1>16, <1>17, <1>18, <1>19, <1>20 DEF Next,
     Environment, MainStep, RetryStep

\* What a round does for the counters: it is counted, no counter gets ahead of
\* it, and a verdict "failed" it brings is due.
RoundsGrow ==
    /\ \A a \in Alerts : rounds[a] <= rounds'[a] /\ attempts'[a] <= rounds'[a]
    /\ NoEarlyGiveUp'

\* So does a commit that writes a count read earlier, plus one.
LEMMA WriteRoundGrows ==
    ASSUME TypeOK, CountsAreBehind, NoEarlyGiveUp, NEW a \in Alerts,
           NEW count \in Nat, count <= rounds[a] + 1, NEW verdict,
           verdict = "failed" => status[a] = "failed" \/ rounds[a] + 1 >= MaxAttempts,
           NEW added, NEW ok, WriteRound(a, count, verdict, added, ok)
    PROVE  RoundsGrow
  BY LimitsAssumption
     DEF WriteRound, RoundsGrow, CountsAreBehind, NoEarlyGiveUp, TypeOK, TableTypes

\* dispatch writes the count it loaded, plus one, and never "failed".
LEMMA DispatchGrows ==
    ASSUME TypeOK, CountsAreBehind, NoEarlyGiveUp,
           NEW w \in Workers, mAlert[w] \in Alerts, DispatchWrites(w)
    PROVE  RoundsGrow
<1>1. mAttempts[w] + 1 \in Nat /\ mAttempts[w] + 1 <= rounds[mAlert[w]] + 1
  BY DEF CountsAreBehind, TypeOK, TableTypes, MainTypes
<1>2. DispatchVerdict(w) = "failed" => status[mAlert[w]] = "failed"
  BY DEF DispatchVerdict
<1> QED
  BY <1>1, <1>2, WriteRoundGrows DEF DispatchWrites

\* A retry writes the count of its poll, plus one, and "failed" when that count
\* has reached the limit.
LEMMA RetryGrows ==
    ASSUME TypeOK, CountsAreBehind, NoEarlyGiveUp,
           NEW w \in Workers, rAlert[w] \in Alerts, RetryWrites(w)
    PROVE  RoundsGrow
<1>1. RetryCount(w) \in Nat /\ RetryCount(w) <= rounds[rAlert[w]] + 1
  BY DEF RetryCount, CountsAreBehind, TypeOK, TableTypes, RetryTypes
<1>2. RetryVerdict(w) = "failed" => \/ status[rAlert[w]] = "failed"
                                   \/ rounds[rAlert[w]] + 1 >= MaxAttempts
  BY <1>1, LimitsAssumption DEF RetryVerdict, GivesUp, TypeOK, TableTypes
<1> QED
  BY <1>1, <1>2, WriteRoundGrows DEF RetryWrites

\* So does a step that makes no round.
LEMMA NoRoundGrows ==
    ASSUME TypeOK, CountsAreBehind, NoEarlyGiveUp, UNCHANGED <<alertVars, rounds>>
    PROVE  RoundsGrow
  BY DEF alertVars, RoundsGrow, CountsAreBehind, NoEarlyGiveUp, TypeOK, TableTypes

\* Counters that are only kept or forgotten stay behind growing rounds.
LEMMA CountsKept ==
    ASSUME TypeOK, TypeOK', CountsAreBehind, RoundsGrow,
           \A w \in Workers : \/ mAlert'[w] = mAlert[w] /\ mAttempts'[w] = mAttempts[w]
                             \/ mAttempts'[w] = 0,
           \A w \in Workers, a \in Alerts :
              batchAttempts'[w][a] \in {batchAttempts[w][a], 0}
    PROVE  CountsAreBehind' /\ NoEarlyGiveUp'
<1>1. \A a \in Alerts : rounds[a] \in Nat /\ rounds'[a] \in Nat /\ rounds[a] <= rounds'[a]
  BY DEF RoundsGrow, TypeOK, TableTypes
<1>2. ASSUME NEW w \in Workers, NEW a \in Alerts
      PROVE  batchAttempts'[w][a] <= rounds'[a]
  <2>1. batchAttempts[w][a] \in Nat /\ batchAttempts[w][a] <= rounds[a]
    BY DEF CountsAreBehind, TypeOK, RetryTypes
  <2>2. batchAttempts'[w][a] = batchAttempts[w][a] \/ batchAttempts'[w][a] = 0
    OBVIOUS
  <2> QED
    BY <1>1, <2>1, <2>2
<1>3. \A w \in Workers :
         mAttempts'[w] <= IF mAlert'[w] \in Alerts THEN rounds'[mAlert'[w]] ELSE 0
  BY <1>1 DEF CountsAreBehind, TypeOK, MainTypes
<1> QED
  BY <1>2, <1>3 DEF CountsAreBehind, RoundsGrow

\* Every commit adds one round and writes a count read earlier, plus one.
LEMMA CountsStep ==
    TypeOK /\ CountsAreBehind /\ NoEarlyGiveUp /\ [Next]_vars
      => CountsAreBehind' /\ NoEarlyGiveUp'
<1> SUFFICES ASSUME TypeOK, CountsAreBehind, NoEarlyGiveUp, [Next]_vars
             PROVE  (CountsAreBehind /\ NoEarlyGiveUp)'
  OBVIOUS
<1> TypeOK'
  BY TypeStep
<1> DEFINE Counts == CountsAreBehind /\ NoEarlyGiveUp
<1>1. ASSUME NEW w \in Workers, NEW a \in Alerts, InsertAlert(w, a)
      PROVE  Counts'
  <2>1. mAttempts[w] = 0
    BY <1>1, AlertsAssumption DEF InsertAlert, CountsAreBehind, TypeOK, MainTypes
  <2> QED
    BY <1>1, <2>1 DEF InsertAlert, retryVars, history, CountsAreBehind, NoEarlyGiveUp,
       TypeOK, TableTypes, MainTypes
<1>2. ASSUME NEW w \in Workers, RefreshAlert(w)
      PROVE  Counts'
  <2>1. RoundsGrow
    BY <1>2, NoRoundGrows DEF RefreshAlert, history
  <2>2. CASE mAlert[w] \in rows
    BY <1>2, <2>1, <2>2 DEF RefreshAlert, retryVars, history, CountsAreBehind,
       RoundsGrow, TypeOK, TableTypes, MainTypes
  <2>3. CASE mAlert[w] \notin rows
    BY <1>2, <2>1, <2>3, CountsKept DEF RefreshAlert, MainIdle, retryVars, TypeOK, MainTypes
  <2> QED
    BY <2>2, <2>3
<1>3. ASSUME NEW w \in Workers, LoadRule(w)
      PROVE  Counts'
  <2>1. RoundsGrow
    BY <1>3, NoRoundGrows DEF LoadRule, history
  <2>2. \A v \in Workers : \/ mAlert'[v] = mAlert[v] /\ mAttempts'[v] = mAttempts[v]
                           \/ mAttempts'[v] = 0
    BY <1>3 DEF LoadRule, MainIdle, TypeOK, MainTypes
  <2> QED
    BY <1>3, <2>1, <2>2, CountsKept DEF LoadRule, retryVars
<1>4. ASSUME NEW w \in Workers, MainQueryFails(w)
      PROVE  Counts'
  BY <1>4, AlertsAssumption DEF MainQueryFails, MainIdle, ruleVars, alertVars,
     retryVars, CountsAreBehind, NoEarlyGiveUp, TypeOK, TableTypes, MainTypes,
     RetryTypes
<1>5. ASSUME NEW w \in Workers, NEW ok \in BOOLEAN, Post(w, ok)
      PROVE  Counts'
  BY <1>5, AlertsAssumption DEF Post, Send, ruleVars, alertVars, retryVars,
     CountsAreBehind, NoEarlyGiveUp, TypeOK, TableTypes, MainTypes, RetryTypes
<1>6. ASSUME NEW w \in Workers, CommitDispatch(w)
      PROVE  Counts'
  <2>1. RoundsGrow
    BY <1>6, DispatchGrows, NoRoundGrows DEF CommitDispatch, TypeOK, MainTypes
  <2>2. \A v \in Workers : \/ mAlert'[v] = mAlert[v] /\ mAttempts'[v] = mAttempts[v]
                           \/ mAttempts'[v] = 0
    BY <1>6 DEF CommitDispatch, MainIdle, TypeOK, MainTypes
  <2> QED
    BY <1>6, <2>1, <2>2, CountsKept DEF CommitDispatch, retryVars
<1>7. ASSUME NEW w \in Workers, NEW applied \in BOOLEAN, CommitDispatchFails(w, applied)
      PROVE  Counts'
  <2>1. RoundsGrow
    BY <1>7, DispatchGrows, NoRoundGrows DEF CommitDispatchFails, TypeOK, MainTypes
  <2>2. \A v \in Workers : \/ mAlert'[v] = mAlert[v] /\ mAttempts'[v] = mAttempts[v]
                           \/ mAttempts'[v] = 0
    BY <1>7 DEF CommitDispatchFails, MainIdle, TypeOK, MainTypes
  <2> QED
    BY <1>7, <2>1, <2>2, CountsKept DEF CommitDispatchFails, retryVars
<1>8. ASSUME NEW w \in Workers, NEW ok \in BOOLEAN, UnrecordedPost(w, ok)
      PROVE  Counts'
  BY <1>8, AlertsAssumption DEF UnrecordedPost, Send, MainIdle, ruleVars,
     alertVars, retryVars, CountsAreBehind, NoEarlyGiveUp, TypeOK, TableTypes,
     MainTypes, RetryTypes
<1>9. ASSUME NEW w \in Workers, Poll(w)
      PROVE  Counts'
  BY <1>9 DEF Poll, Oldest, ruleVars, alertVars, mainVars, history,
     CountsAreBehind, NoEarlyGiveUp, TypeOK, TableTypes, MainTypes, RetryTypes
<1>10. ASSUME NEW w \in Workers, NEW a \in Alerts, SkipBackedOff(w, a)
      PROVE  Counts'
  BY <1>10 DEF SkipBackedOff, ruleVars, alertVars, mainVars, history,
     CountsAreBehind, NoEarlyGiveUp, TypeOK, TableTypes, MainTypes, RetryTypes
<1>11. ASSUME NEW w \in Workers, NEW a \in Alerts, StartRetry(w, a)
      PROVE  Counts'
  BY <1>11 DEF StartRetry, IsFirst, ruleVars, alertVars, mainVars, history,
     CountsAreBehind, NoEarlyGiveUp, TypeOK, TableTypes, MainTypes, RetryTypes
<1>12. ASSUME NEW w \in Workers, NEW ok \in BOOLEAN, RetryPost(w, ok)
      PROVE  Counts'
  BY <1>12 DEF RetryPost, Send, ruleVars, alertVars, mainVars, CountsAreBehind,
     NoEarlyGiveUp, TypeOK, TableTypes, MainTypes, RetryTypes
<1>13. ASSUME NEW w \in Workers, CommitRetry(w)
      PROVE  Counts'
  <2>1. RoundsGrow
    BY <1>13, RetryGrows DEF CommitRetry, TypeOK, RetryTypes
  <2>2. \A v \in Workers, a \in Alerts :
           batchAttempts'[v][a] \in {batchAttempts[v][a], 0}
    BY <1>13 DEF CommitRetry, RetryDone, TypeOK, RetryTypes
  <2> QED
    BY <1>13, <2>1, <2>2, CountsKept DEF CommitRetry, mainVars
<1>14. ASSUME NEW w \in Workers, RetryRowGone(w)
      PROVE  Counts'
  BY <1>14 DEF RetryRowGone, PollAborted, ruleVars, alertVars, mainVars,
     history, CountsAreBehind, NoEarlyGiveUp, TypeOK, TableTypes, MainTypes,
     RetryTypes
<1>15. ASSUME NEW w \in Workers, NEW applied \in BOOLEAN, RetryCallFails(w, applied)
      PROVE  Counts'
  <2>1. RoundsGrow
    BY <1>15, RetryGrows, NoRoundGrows DEF RetryCallFails, TypeOK, RetryTypes
  <2>2. \A v \in Workers, a \in Alerts :
           batchAttempts'[v][a] \in {batchAttempts[v][a], 0}
    BY <1>15 DEF RetryCallFails, PollAborted, TypeOK, RetryTypes
  <2> QED
    BY <1>15, <2>1, <2>2, CountsKept DEF RetryCallFails, mainVars
<1>16. ASSUME NEW w \in Workers, Crash(w)
      PROVE  Counts'
  BY <1>16, AlertsAssumption DEF Crash, MainIdle, PollAborted, ruleVars,
     alertVars, CountsAreBehind, NoEarlyGiveUp, TypeOK, TableTypes, MainTypes,
     RetryTypes
<1>17. ASSUME NEW a \in Alerts, BackoffElapses(a)
      PROVE  Counts'
  BY <1>17 DEF BackoffElapses, ruleVars, mainVars, retryVars, history,
     CountsAreBehind, NoEarlyGiveUp, TypeOK, TableTypes, MainTypes, RetryTypes
<1>18. ASSUME NEW r \in Rules, DeleteRule(r)
      PROVE  Counts'
  BY <1>18 DEF DeleteRule, mainVars, retryVars, history, CountsAreBehind,
     NoEarlyGiveUp, TypeOK, TableTypes, MainTypes, RetryTypes
<1>19. ASSUME NEW r \in Rules, NEW urls \in ChannelSets, UpdateRule(r, urls)
      PROVE  Counts'
  BY <1>19 DEF UpdateRule, alertVars, mainVars, retryVars, history,
     CountsAreBehind, NoEarlyGiveUp, TypeOK, TableTypes, MainTypes, RetryTypes
<1>20. CASE UNCHANGED vars
  BY <1>20 DEF vars, ruleVars, alertVars, mainVars, retryVars, history,
     CountsAreBehind, NoEarlyGiveUp, TypeOK, TableTypes, MainTypes, RetryTypes
<1> QED
  BY <1>1, <1>2, <1>3, <1>4, <1>5, <1>6, <1>7, <1>8, <1>9, <1>10, <1>11, <1>12,
     <1>13, <1>14, <1>15, <1>16, <1>17, <1>18, <1>19, <1>20 DEF Next,
     Environment, MainStep, RetryStep

-----------------------------------------------------------------------------
(***************************************************************************)
(* The theorems.                                                           *)
(***************************************************************************)

\* The inductive invariant: every conjunct needs the types, and to know who
\* dispatches what one needs to know what was raised.
THEOREM Invariance == Spec => []DeliveryInv
<1>1. Init => DeliveryInv
  <2> SUFFICES ASSUME Init PROVE DeliveryInv
    OBVIOUS
  <2>1. TypeOK
    BY TypeInit
  <2>2. OnlyRaised /\ DispatchedByOne
    BY AlertsAssumption DEF Init, OnlyRaised, DispatchedByOne, Raised
  <2>3. SuccessIsTrue /\ DeliveredIsTrue
    BY DEF Init, SuccessIsTrue, DeliveredIsTrue
  <2>4. CountsAreBehind /\ NoEarlyGiveUp
    BY AlertsAssumption DEF Init, CountsAreBehind, NoEarlyGiveUp
  <2> QED
    BY <2>1, <2>2, <2>3, <2>4 DEF DeliveryInv
<1>2. DeliveryInv /\ [Next]_vars => DeliveryInv'
  BY TypeStep, OnlyRaisedStep, DispatchedByOneStep, SuccessStep, CountsStep
     DEF DeliveryInv
<1> QED
  BY <1>1, <1>2, PTL DEF Spec

\* "delivered" is never written for an alert nobody got or without its audit row.
THEOREM DeliveredIsAlwaysTrue == Spec => []DeliveredIsTrue
<1>1. DeliveryInv => DeliveredIsTrue
  BY DEF DeliveryInv
<1> QED
  BY <1>1, Invariance, PTL

\* No overlap of dispatch and schedulers, and no crash, makes an alert "failed"
\* before retry_backoff_max rounds were made.
THEOREM NeverGivesUpEarly == Spec => []NoEarlyGiveUp
<1>1. DeliveryInv => NoEarlyGiveUp
  BY DEF DeliveryInv
<1> QED
  BY <1>1, Invariance, PTL

\* Apart from the insert, a main loop only keeps or forgets its alert.
LEMMA OnlyInsertGives ==
    ASSUME TypeOK, [Next]_vars, NEW w \in Workers, NEW a \in Alerts,
           mAlert'[w] = a, mAlert[w] # a
    PROVE  InsertAlert(w, a)
<1> DEFINE Kept == \A v \in Workers : mAlert'[v] \in {mAlert[v], NoAlert}
<1> SUFFICES ASSUME ~InsertAlert(w, a) PROVE Kept
  BY AlertsAssumption
<1>1. ASSUME NEW u \in Workers, NEW b \in Alerts, InsertAlert(u, b)
      PROVE  Kept
  BY <1>1 DEF InsertAlert, TypeOK, MainTypes
<1>2. ASSUME NEW u \in Workers, RefreshAlert(u)
      PROVE  Kept
  BY <1>2 DEF RefreshAlert, MainIdle, ruleVars, alertVars, retryVars, history,
     TypeOK, MainTypes
<1>3. ASSUME NEW u \in Workers, LoadRule(u)
      PROVE  Kept
  BY <1>3 DEF LoadRule, MainIdle, ruleVars, alertVars, retryVars, history,
     TypeOK, MainTypes
<1>4. ASSUME NEW u \in Workers, MainQueryFails(u)
      PROVE  Kept
  BY <1>4 DEF MainQueryFails, MainIdle, ruleVars, alertVars, retryVars, TypeOK,
     MainTypes
<1>5. ASSUME NEW u \in Workers, NEW ok \in BOOLEAN, Post(u, ok)
      PROVE  Kept
  BY <1>5 DEF Post, Send, ruleVars, alertVars, retryVars, TypeOK, MainTypes
<1>6. ASSUME NEW u \in Workers, CommitDispatch(u)
      PROVE  Kept
  BY <1>6 DEF CommitDispatch, DispatchWrites, WriteRound, MainIdle, ruleVars,
     retryVars, alertVars, TypeOK, MainTypes
<1>7. ASSUME NEW u \in Workers, NEW applied \in BOOLEAN, CommitDispatchFails(u, applied)
      PROVE  Kept
  BY <1>7 DEF CommitDispatchFails, DispatchWrites, WriteRound, MainIdle,
     ruleVars, retryVars, alertVars, TypeOK, MainTypes
<1>8. ASSUME NEW u \in Workers, NEW ok \in BOOLEAN, UnrecordedPost(u, ok)
      PROVE  Kept
  BY <1>8 DEF UnrecordedPost, Send, MainIdle, ruleVars, alertVars, retryVars,
     TypeOK, MainTypes
<1>9. ASSUME NEW u \in Workers, Poll(u)
      PROVE  Kept
  BY <1>9 DEF Poll, Oldest, ruleVars, alertVars, mainVars, history, TypeOK,
     MainTypes
<1>10. ASSUME NEW u \in Workers, NEW b \in Alerts, SkipBackedOff(u, b)
      PROVE  Kept
  BY <1>10 DEF SkipBackedOff, ruleVars, alertVars, mainVars, history, TypeOK,
     MainTypes
<1>11. ASSUME NEW u \in Workers, NEW b \in Alerts, StartRetry(u, b)
      PROVE  Kept
  BY <1>11 DEF StartRetry, IsFirst, ruleVars, alertVars, mainVars, history,
     TypeOK, MainTypes
<1>12. ASSUME NEW u \in Workers, NEW ok \in BOOLEAN, RetryPost(u, ok)
      PROVE  Kept
  BY <1>12 DEF RetryPost, Send, ruleVars, alertVars, mainVars, TypeOK, MainTypes
<1>13. ASSUME NEW u \in Workers, CommitRetry(u)
      PROVE  Kept
  BY <1>13 DEF CommitRetry, RetryWrites, WriteRound, RetryDone, ruleVars,
     mainVars, TypeOK, MainTypes
<1>14. ASSUME NEW u \in Workers, RetryRowGone(u)
      PROVE  Kept
  BY <1>14 DEF RetryRowGone, PollAborted, ruleVars, alertVars, mainVars,
     history, TypeOK, MainTypes
<1>15. ASSUME NEW u \in Workers, NEW applied \in BOOLEAN, RetryCallFails(u, applied)
      PROVE  Kept
  BY <1>15 DEF RetryCallFails, RetryWrites, WriteRound, PollAborted, ruleVars,
     mainVars, alertVars, TypeOK, MainTypes
<1>16. ASSUME NEW u \in Workers, Crash(u)
      PROVE  Kept
  BY <1>16 DEF Crash, MainIdle, PollAborted, ruleVars, alertVars, TypeOK,
     MainTypes
<1>17. ASSUME NEW b \in Alerts, BackoffElapses(b)
      PROVE  Kept
  BY <1>17 DEF BackoffElapses, ruleVars, mainVars, retryVars, history, TypeOK,
     MainTypes
<1>18. ASSUME NEW r \in Rules, DeleteRule(r)
      PROVE  Kept
  BY <1>18 DEF DeleteRule, mainVars, retryVars, history, TypeOK, MainTypes
<1>19. ASSUME NEW r \in Rules, NEW urls \in ChannelSets, UpdateRule(r, urls)
      PROVE  Kept
  BY <1>19 DEF UpdateRule, alertVars, mainVars, retryVars, history, TypeOK,
     MainTypes
<1>20. CASE UNCHANGED vars
  BY <1>20 DEF vars, ruleVars, alertVars, mainVars, retryVars, history, TypeOK,
     MainTypes
<1> QED
  BY <1>1, <1>2, <1>3, <1>4, <1>5, <1>6, <1>7, <1>8, <1>9, <1>10, <1>11, <1>12,
     <1>13, <1>14, <1>15, <1>16, <1>17, <1>18, <1>19, <1>20 DEF Next,
     Environment, MainStep, RetryStep

\* An alert gets to a main loop once in its life, on one worker.
THEOREM RaisedOnlyOnce == Spec => RaisedOnce
<1>1. DeliveryInv /\ [Next]_vars =>
        [\A w \in Workers, a \in Alerts :
           (mAlert'[w] = a /\ mAlert[w] # a) => createdAt[a] = 0]_vars
  <2> SUFFICES ASSUME DeliveryInv, [Next]_vars, NEW w \in Workers, NEW a \in Alerts,
                      mAlert'[w] = a, mAlert[w] # a
               PROVE  createdAt[a] = 0
    OBVIOUS
  <2>1. CanInsert(a)
    BY OnlyInsertGives DEF InsertAlert, DeliveryInv
  <2> QED
    BY <2>1 DEF CanInsert, DeliveryInv, OnlyRaised, Raised, TypeOK, TableTypes
<1> QED
  BY <1>1, Invariance, PTL DEF Spec, RaisedOnce

-----------------------------------------------------------------------------
(***************************************************************************)
(* Delivery implements Outbox.                                             *)
(***************************************************************************)

\* The outbox is not touched by a step that leaves its variables alone.
LEMMA OutboxStutter ==
    ASSUME UNCHANGED <<rows, status, createdAt, reached, rounds>>
    PROVE  UNCHANGED AtLeastOnce!vars
  BY DEF AtLeastOnce!vars, Raised

\* A POST of a raised alert reaches its recipient or nobody.
LEMMA SendReaches ==
    ASSUME NEW a \in Raised, NEW ok, Send(a, ok),
           UNCHANGED <<rows, status, createdAt, rounds>>
    PROVE  [AtLeastOnce!Next]_(AtLeastOnce!vars)
<1>1. Raised' = Raised /\ a \in Alerts
  BY DEF Raised
<1>2. CASE reached' = reached
  BY <1>2, OutboxStutter
<1>3. CASE reached' = reached \cup {a}
  BY <1>1, <1>3 DEF AtLeastOnce!Next, AtLeastOnce!Reach
<1> QED
  BY <1>2, <1>3 DEF Send

\* The commit of a round goes on record, with a verdict that is due.
LEMMA WriteRoundRecords ==
    ASSUME NEW a \in rows, a \in Alerts, NEW count, NEW verdict \in Verdicts,
           NEW added, NEW ok, WriteRound(a, count, verdict, added, ok), reached' = reached,
           verdict = "delivered" /\ status[a] # verdict => a \in reached,
           verdict = "failed" /\ status[a] # verdict => rounds[a] + 1 >= MaxAttempts
    PROVE  [AtLeastOnce!Next]_(AtLeastOnce!vars)
<1>1. Raised' = Raised
  BY DEF WriteRound, Raised
<1>2. AtLeastOnce!Record(a, verdict)
  BY <1>1 DEF AtLeastOnce!Record, WriteRound
<1> QED
  BY <1>2 DEF AtLeastOnce!Next, Verdicts

\* dispatch's round: "delivered" after a 2xx, else the verdict stays or is
\* "pending" again.
LEMMA DispatchRecords ==
    ASSUME DeliveryInv, NEW w \in Workers, mAlert[w] \in rows, DispatchWrites(w),
           reached' = reached
    PROVE  [AtLeastOnce!Next]_(AtLeastOnce!vars)
<1>1. mAlert[w] \in Alerts /\ DispatchVerdict(w) \in Verdicts
  BY DEF DeliveryInv, TypeOK, TableTypes, DispatchVerdict, Verdicts
<1>2. DispatchVerdict(w) = "delivered" /\ status[mAlert[w]] # DispatchVerdict(w)
        => mAlert[w] \in reached
  BY DEF DeliveryInv, SuccessIsTrue, DispatchVerdict
<1>3. DispatchVerdict(w) = "failed" => status[mAlert[w]] = DispatchVerdict(w)
  BY DEF DispatchVerdict
<1> QED
  BY <1>1, <1>2, <1>3, WriteRoundRecords DEF DispatchWrites

\* The round of a retry: "failed" when its count, which is never ahead of the
\* rounds, has reached the limit.
LEMMA RetryRecords ==
    ASSUME DeliveryInv, NEW w \in Workers, rAlert[w] \in rows, RetryWrites(w),
           reached' = reached
    PROVE  [AtLeastOnce!Next]_(AtLeastOnce!vars)
<1>1. rAlert[w] \in Alerts /\ RetryVerdict(w) \in Verdicts
  BY DEF DeliveryInv, TypeOK, TableTypes, RetryVerdict, Verdicts
<1>2. RetryVerdict(w) = "delivered" /\ status[rAlert[w]] # RetryVerdict(w)
        => rAlert[w] \in reached
  BY DEF DeliveryInv, SuccessIsTrue, RetryVerdict
<1>3. /\ batchAttempts[w][rAlert[w]] <= rounds[rAlert[w]]
      /\ batchAttempts[w][rAlert[w]] \in Nat /\ rounds[rAlert[w]] \in Nat
  BY <1>1 DEF DeliveryInv, CountsAreBehind, TypeOK, TableTypes, RetryTypes
<1>4. RetryVerdict(w) = "failed" /\ status[rAlert[w]] # RetryVerdict(w)
        => rounds[rAlert[w]] + 1 >= MaxAttempts
  BY <1>3, LimitsAssumption DEF RetryVerdict, GivesUp, RetryCount
<1> QED
  BY <1>1, <1>2, <1>4, WriteRoundRecords DEF RetryWrites

\* Every step of the workers, the API, crashes and time is a step of the outbox
\* or leaves it unchanged.
LEMMA OutboxStep ==
    DeliveryInv /\ DeliveryInv' /\ [Next]_vars => [AtLeastOnce!Next]_(AtLeastOnce!vars)
<1> SUFFICES ASSUME DeliveryInv, DeliveryInv', [Next]_vars
             PROVE  [AtLeastOnce!Next]_(AtLeastOnce!vars)
  OBVIOUS
<1> DEFINE Allowed == [AtLeastOnce!Next]_(AtLeastOnce!vars)
<1>1. ASSUME NEW w \in Workers, NEW a \in Alerts, InsertAlert(w, a)
      PROVE  Allowed
  <2>1. a \notin Raised
    BY <1>1 DEF InsertAlert, CanInsert, DeliveryInv, OnlyRaised
  <2>2. Raised' = Raised \cup {a}
    <3> DEFINE serial == 1 + Cardinality({b \in Alerts : createdAt[b] > 0})
    <3>1. createdAt' = [createdAt EXCEPT ![a] = serial] /\ serial > 0
      BY <1>1, SerialIsPositive DEF InsertAlert
    <3> HIDE DEF serial
    <3> QED
      BY <3>1 DEF Raised, DeliveryInv, TypeOK, TableTypes
  <2>3. AtLeastOnce!Raise(a)
    BY <1>1, <2>1, <2>2 DEF InsertAlert, history, AtLeastOnce!Raise
  <2> QED
    BY <2>3 DEF AtLeastOnce!Next
<1>2. ASSUME NEW w \in Workers, RefreshAlert(w)
      PROVE  Allowed
  BY <1>2, OutboxStutter DEF RefreshAlert, ruleVars, alertVars, history
<1>3. ASSUME NEW w \in Workers, LoadRule(w)
      PROVE  Allowed
  BY <1>3, OutboxStutter DEF LoadRule, ruleVars, alertVars, history
<1>4. ASSUME NEW w \in Workers, MainQueryFails(w)
      PROVE  Allowed
  BY <1>4, OutboxStutter DEF MainQueryFails, alertVars
<1>5. ASSUME NEW w \in Workers, NEW ok \in BOOLEAN, Post(w, ok)
      PROVE  Allowed
  <2>1. mAlert[w] \in Raised
    BY <1>5 DEF Post, DeliveryInv, TypeOK, MainTypes, OnlyRaised
  <2> QED
    BY <1>5, <2>1, SendReaches DEF Post, alertVars
<1>6. ASSUME NEW w \in Workers, CommitDispatch(w)
      PROVE  Allowed
  BY <1>6, DispatchRecords, OutboxStutter DEF CommitDispatch, alertVars
<1>7. ASSUME NEW w \in Workers, NEW applied \in BOOLEAN, CommitDispatchFails(w, applied)
      PROVE  Allowed
  BY <1>7, DispatchRecords, OutboxStutter DEF CommitDispatchFails, alertVars
<1>8. ASSUME NEW w \in Workers, NEW ok \in BOOLEAN, UnrecordedPost(w, ok)
      PROVE  Allowed
  <2>1. mAlert[w] \in Raised
    BY <1>8 DEF UnrecordedPost, DeliveryInv, TypeOK, MainTypes, OnlyRaised
  <2> QED
    BY <1>8, <2>1, SendReaches DEF UnrecordedPost, alertVars
<1>9. ASSUME NEW w \in Workers, Poll(w)
      PROVE  Allowed
  BY <1>9, OutboxStutter DEF Poll, ruleVars, alertVars, history
<1>10. ASSUME NEW w \in Workers, NEW a \in Alerts, SkipBackedOff(w, a)
      PROVE  Allowed
  BY <1>10, OutboxStutter DEF SkipBackedOff, ruleVars, alertVars, history
<1>11. ASSUME NEW w \in Workers, NEW a \in Alerts, StartRetry(w, a)
      PROVE  Allowed
  BY <1>11, OutboxStutter DEF StartRetry, ruleVars, alertVars, history
<1>12. ASSUME NEW w \in Workers, NEW ok \in BOOLEAN, RetryPost(w, ok)
      PROVE  Allowed
  <2>1. rAlert[w] \in Raised
    BY <1>12 DEF RetryPost, DeliveryInv, TypeOK, RetryTypes, OnlyRaised
  <2> QED
    BY <1>12, <2>1, SendReaches DEF RetryPost, alertVars
<1>13. ASSUME NEW w \in Workers, CommitRetry(w)
      PROVE  Allowed
  BY <1>13, RetryRecords DEF CommitRetry
<1>14. ASSUME NEW w \in Workers, RetryRowGone(w)
      PROVE  Allowed
  BY <1>14, OutboxStutter DEF RetryRowGone, ruleVars, alertVars, history
<1>15. ASSUME NEW w \in Workers, NEW applied \in BOOLEAN, RetryCallFails(w, applied)
      PROVE  Allowed
  BY <1>15, RetryRecords, OutboxStutter DEF RetryCallFails, alertVars
<1>16. ASSUME NEW w \in Workers, Crash(w)
      PROVE  Allowed
  BY <1>16, OutboxStutter DEF Crash, ruleVars, alertVars, history
<1>17. ASSUME NEW a \in Alerts, BackoffElapses(a)
      PROVE  Allowed
  BY <1>17, OutboxStutter DEF BackoffElapses, history
<1>18. ASSUME NEW r \in Rules, DeleteRule(r)
      PROVE  Allowed
  <2> DEFINE gone == {a \in rows : RuleOf[a] = r}
  <2>1. rows' = rows \ gone /\ Raised' = Raised
    BY <1>18 DEF DeleteRule, Raised
  <2>2. AtLeastOnce!Remove(gone)
    BY <1>18, <2>1 DEF DeleteRule, history, AtLeastOnce!Remove
  <2> QED
    BY <2>2 DEF AtLeastOnce!Next
<1>19. ASSUME NEW r \in Rules, NEW urls \in ChannelSets, UpdateRule(r, urls)
      PROVE  Allowed
  BY <1>19, OutboxStutter DEF UpdateRule, ruleVars, alertVars, history
<1>20. CASE UNCHANGED vars
  BY <1>20, OutboxStutter DEF vars, ruleVars, alertVars, history
<1> QED
  BY <1>1, <1>2, <1>3, <1>4, <1>5, <1>6, <1>7, <1>8, <1>9, <1>10, <1>11, <1>12,
     <1>13, <1>14, <1>15, <1>16, <1>17, <1>18, <1>19, <1>20 DEF Next,
     Environment, MainStep, RetryStep

\* The workers and the API implement the at-least-once outbox.
THEOREM DeliveryIsOutbox == Spec => OutboxSpec
<1>1. Init => AtLeastOnce!Init
  BY DEF Init, AtLeastOnce!Init, Raised
<1> QED
  BY <1>1, OutboxStep, Invariance, PTL DEF Spec, OutboxSpec, AtLeastOnce!Spec

=============================================================================
