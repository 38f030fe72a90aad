--------------------------- MODULE Evaluate_proofs ---------------------------
(***************************************************************************)
(* Theorems about Evaluate, for any workers, rules, cooldowns, edits and   *)
(* faults.                                                                 *)
(***************************************************************************)
EXTENDS Evaluate, FiniteSetTheorems, WellFoundedInduction, TLAPS

-----------------------------------------------------------------------------
(***************************************************************************)
(* Types.                                                                  *)
(***************************************************************************)

LEMMA SnapshotDomain ==
    ASSUME NEW s \in Snapshot
    PROVE  /\ DOMAIN s \subseteq Rules
           /\ \A r \in DOMAIN s : s[r] \in Cooldowns
  BY DEF Snapshot

LEMMA SnapshotMade ==
    ASSUME NEW S \in SUBSET Rules, NEW f \in [S -> Cooldowns]
    PROVE  f \in Snapshot
  BY DEF Snapshot

LEMMA NoRulesKnown == NoRules \in Snapshot /\ DOMAIN NoRules = {}
<1>1. NoRules \in [{} -> Cooldowns] /\ DOMAIN NoRules = {}
  BY DEF NoRules
<1> QED
  BY <1>1, SnapshotMade

\* What a worker is doing.
WorkerOK ==
    \A w \in Workers : /\ todo[w] \subseteq DOMAIN snap[w]
                       /\ rule[w] \in (IF pc[w] = "evaluate" THEN todo[w] ELSE {Null})
                       /\ pc[w] # "down" => cur[w] = cursor[w]
                       /\ pc[w] = "down" => DOMAIN snap[w] = {} /\ ~failed[w]
                       /\ todo[w] # {} => cur[w] > 0

LEMMA StartTyped ==
    ASSUME TypeOK, NEW w \in Workers, Start(w)
    PROVE  TypeOK'
<1> DEFINE known == {s \in Rules : Loadable(s)}
<1>1. [r \in known |-> cooldown[r]] \in [known -> Cooldowns] /\ known \in SUBSET Rules
  BY DEF TypeOK
<1>2. [r \in known |-> cooldown[r]] \in Snapshot
  BY <1>1, SnapshotMade
<1> HIDE DEF known
<1>3. snap' = [snap EXCEPT ![w] = [r \in known |-> cooldown[r]]]
  BY DEF Start, known
<1>4. snap' \in [Workers -> Snapshot]
  BY <1>2, <1>3 DEF TypeOK
<1>5. todo[w] = {}
  BY DEF TypeOK, Start
<1>6. ASSUME NEW v \in Workers
      PROVE  /\ todo'[v] \subseteq DOMAIN snap'[v]
             /\ rule'[v] \in (IF pc'[v] = "evaluate" THEN todo'[v] ELSE {Null})
             /\ pc'[v] # "down" => cur'[v] = cursor'[v]
             /\ pc'[v] = "down" => DOMAIN snap'[v] = {} /\ ~failed'[v]
             /\ todo'[v] # {} => cur'[v] > 0
  <2>1. CASE v = w
    BY <1>5, <2>1 DEF TypeOK, Start, Seed
  <2>2. CASE v # w
    <3>1. snap'[v] = snap[v] /\ pc'[v] = pc[v] /\ cur'[v] = cur[v]
      BY <1>3, <2>2 DEF TypeOK, Start
    <3> QED
      BY <3>1 DEF TypeOK, Start
  <2> QED
    BY <2>1, <2>2
<1>7. cur' \in [Workers -> 0 .. MaxTime] /\ pc' \in [Workers -> {"down", "rules", "evaluate"}]
  BY DEF TypeOK, Start, Seed
<1> QED
  BY <1>4, <1>6, <1>7 DEF TypeOK, Start, table

LEMMA DeathTyped ==
    ASSUME TypeOK, NEW w \in Workers, Dies(w)
    PROVE  /\ snap' \in [Workers -> Snapshot] /\ todo' \in [Workers -> SUBSET Rules]
           /\ rule' \in [Workers -> Rules \cup {Null}]
           /\ pc' \in [Workers -> {"down", "rules", "evaluate"}]
           /\ cur' \in [Workers -> 0 .. MaxTime]
           /\ failed' \in [Workers -> BOOLEAN]
           /\ WorkerOK'
<1>1. snap' \in [Workers -> Snapshot]
  BY NoRulesKnown DEF TypeOK, Dies
<1>2. 0 \in 0 .. MaxTime
  BY BoundsAssumption
<1>3. WorkerOK'
  BY NoRulesKnown, SetsAssumption DEF TypeOK, Dies, WorkerOK
<1> QED
  BY <1>1, <1>2, <1>3 DEF TypeOK, Dies

LEMMA SaveTyped ==
    ASSUME TypeOK, NEW w \in Workers, NEW k \in 1 .. MaxTime, SaveCandle(w, k)
    PROVE  TypeOK'
<1>1. CASE failed[w]
  BY <1>1, DeathTyped DEF TypeOK, SaveCandle, Dies, table, WorkerOK
<1>2. CASE ~failed[w]
  <2>1. DOMAIN snap[w] \in SUBSET Rules /\ k \in 0 .. MaxTime /\ k > 0
    BY SnapshotDomain DEF TypeOK
  <2>2. WorkerOK'
    BY <1>2, <2>1 DEF TypeOK, SaveCandle, Ready, Take, WorkerOK
  <2> QED
    BY <1>2, <2>1, <2>2 DEF TypeOK, SaveCandle, Take, table, WorkerOK
<1> QED
  BY <1>1, <1>2

LEMMA CrashTyped ==
    ASSUME TypeOK, NEW w \in Workers, Crash(w)
    PROVE  TypeOK'
<1>1. faults' \in 0 .. MaxFaults
  BY BoundsAssumption DEF TypeOK, Crash
<1>2. lost' \subseteq Workers \X (1 .. MaxTime)
  BY DEF TypeOK, Crash
<1> QED
  BY <1>1, <1>2, DeathTyped DEF TypeOK, Crash, Dies, table, WorkerOK

\* The worker's candle, once it evaluates rules on it.
LEMMA AtCandle ==
    ASSUME TypeOK, NEW w \in Workers, todo[w] # {}
    PROVE  <<w, cur[w]>> \in Workers \X (1 .. MaxTime)
  BY BoundsAssumption DEF TypeOK

LEMMA CheckTyped ==
    ASSUME TypeOK, NEW w \in Workers, NEW r \in Rules,
           CheckCooldown(w, r) \/ CooldownQueryFails(w, r)
    PROVE  TypeOK'
<1>1. r \in todo[w] /\ pc[w] = "rules"
  BY DEF CheckCooldown, CooldownQueryFails
<1>2. lost' \subseteq Workers \X (1 .. MaxTime)
  BY <1>1, AtCandle DEF TypeOK, CheckCooldown, CooldownQueryFails
<1>3. faults' \in 0 .. MaxFaults
  BY BoundsAssumption DEF TypeOK, CheckCooldown, CooldownQueryFails
<1>4. \/ Handled(w, r) /\ UNCHANGED <<pc, rule>>
      \/ todo' = [todo EXCEPT ![w] = @ \ {r}] /\ UNCHANGED <<pc, rule, failed>>
      \/ /\ pc' = [pc EXCEPT ![w] = "evaluate"]
         /\ rule' = [rule EXCEPT ![w] = r]
         /\ UNCHANGED <<todo, failed>>
  BY DEF CheckCooldown, CooldownQueryFails
<1>5. UNCHANGED <<now, table, alerts, cursor, cur, snap, edits>>
  BY DEF CheckCooldown, CooldownQueryFails
<1>6. WorkerOK'
  <2> SUFFICES ASSUME NEW v \in Workers
               PROVE  /\ todo'[v] \subseteq DOMAIN snap'[v]
                      /\ rule'[v] \in (IF pc'[v] = "evaluate" THEN todo'[v] ELSE {Null})
                      /\ pc'[v] # "down" => cur'[v] = cursor'[v]
                      /\ pc'[v] = "down" => DOMAIN snap'[v] = {} /\ ~failed'[v]
                      /\ todo'[v] # {} => cur'[v] > 0
    BY DEF WorkerOK
  <2>1. CASE v # w
    BY <1>1, <1>4, <1>5, <2>1 DEF TypeOK, Handled
  <2>2. CASE v = w
    BY <1>1, <1>4, <1>5, <2>2 DEF TypeOK, Handled
  <2> QED
    BY <2>1, <2>2
<1>7. pc' \in [Workers -> {"down", "rules", "evaluate"}] /\ rule' \in [Workers -> Rules \cup {Null}]
  BY <1>4 DEF TypeOK, Handled
<1>8. todo' \in [Workers -> SUBSET Rules]
  <2>1. todo' = todo \/ todo' = [todo EXCEPT ![w] = todo[w] \ {r}]
    BY <1>4 DEF Handled
  <2> QED
    BY <2>1 DEF TypeOK
<1>9. failed' \in [Workers -> BOOLEAN]
  BY <1>4 DEF TypeOK, Handled
<1> QED
  BY <1>2, <1>3, <1>5, <1>6, <1>7, <1>8, <1>9 DEF TypeOK, table, WorkerOK

LEMMA NewAlertTyped ==
    ASSUME TypeOK, NEW w \in Workers, pc[w] = "evaluate"
    PROVE  NewAlert(w) \in Alert
<1>1. rule[w] \in Rules /\ rule[w] \in DOMAIN snap[w] /\ cur[w] \in 1 .. MaxTime
  <2>1. rule[w] \in todo[w] /\ todo[w] \subseteq DOMAIN snap[w] /\ todo[w] \in SUBSET Rules
    BY DEF TypeOK
  <2> QED
    BY <2>1, BoundsAssumption DEF TypeOK
<1>2. snap[w][rule[w]] \in Cooldowns
  BY <1>1, SnapshotDomain DEF TypeOK
<1>3. Opens(cur[w]) \in 0 .. MaxTime
  BY <1>1, BoundsAssumption DEF Opens
<1>4. {a.triggered : a \in AlertsOf(rule[w])} \in SUBSET (0 .. MaxTime)
  BY DEF TypeOK, AlertsOf, Alert
<1> QED
  BY <1>1, <1>2, <1>3, <1>4 DEF TypeOK, NewAlert, Alert

LEMMA EvaluateTyped ==
    ASSUME TypeOK, NEW w \in Workers,
           NoMatch(w) \/ Match(w) \/ SwallowedAgain(w) \/ Swallowed(w)
    PROVE  TypeOK'
<1>1. pc[w] = "evaluate" /\ Return(w) /\ todo[w] # {}
  BY DEF TypeOK, NoMatch, Match, SwallowedAgain, Swallowed
<1>2. /\ pc' \in [Workers -> {"down", "rules", "evaluate"}]
      /\ todo' \in [Workers -> SUBSET Rules]
      /\ rule' \in [Workers -> Rules \cup {Null}]
  BY <1>1 DEF TypeOK, Return
<1>3. lost' \subseteq Workers \X (1 .. MaxTime)
  BY <1>1, AtCandle DEF TypeOK, NoMatch, Match, SwallowedAgain, Swallowed
<1>4. faults' \in 0 .. MaxFaults
  BY BoundsAssumption DEF TypeOK, NoMatch, Match, SwallowedAgain, Swallowed
<1>5. alerts' \subseteq Alert
  BY <1>1, NewAlertTyped DEF TypeOK, NoMatch, Match, SwallowedAgain, Swallowed
<1>6. failed' \in [Workers -> BOOLEAN]
  BY DEF TypeOK, NoMatch, Match, SwallowedAgain, Swallowed
<1>7. UNCHANGED <<now, table, cursor, cur, snap, edits>>
  BY DEF NoMatch, Match, SwallowedAgain, Swallowed
<1>8. WorkerOK'
  <2> SUFFICES ASSUME NEW v \in Workers
               PROVE  /\ todo'[v] \subseteq DOMAIN snap'[v]
                      /\ rule'[v] \in (IF pc'[v] = "evaluate" THEN todo'[v] ELSE {Null})
                      /\ pc'[v] # "down" => cur'[v] = cursor'[v]
                      /\ pc'[v] = "down" => DOMAIN snap'[v] = {} /\ ~failed'[v]
                      /\ todo'[v] # {} => cur'[v] > 0
    BY DEF WorkerOK
  <2>1. CASE v # w
    <3>1. pc'[v] = pc[v] /\ todo'[v] = todo[v] /\ rule'[v] = rule[v] /\ failed'[v] = failed[v]
      BY <1>1, <2>1 DEF TypeOK, Return, NoMatch, Match, SwallowedAgain, Swallowed
    <3> QED
      BY <1>7, <3>1 DEF TypeOK
  <2>2. CASE v = w
    BY <1>1, <1>7, <2>2 DEF TypeOK, Return
  <2> QED
    BY <2>1, <2>2
<1> QED
  BY <1>2, <1>3, <1>4, <1>5, <1>6, <1>7, <1>8 DEF TypeOK, table, WorkerOK

LEMMA EditTyped ==
    ASSUME TypeOK, NEW r \in Rules, CreateRule(r) \/ UpdateRule(r) \/ DeleteRule(r)
    PROVE  TypeOK'
<1>1. state' \in [Rules -> {"new", "on", "off", "gone"}] /\ cooldown' \in [Rules -> Cooldowns]
  BY DEF TypeOK, CreateRule, UpdateRule, DeleteRule
<1>2. alerts' \subseteq Alert
  BY DEF TypeOK, CreateRule, UpdateRule, DeleteRule
<1>3. Edit(r)
  BY DEF CreateRule, UpdateRule, DeleteRule
<1>4. edits' \in 0 .. MaxEdits
  BY <1>3, BoundsAssumption DEF TypeOK, Edit
<1>5. UNCHANGED <<now, worker, lost, faults>>
  BY <1>3 DEF Edit
<1> QED
  BY <1>1, <1>2, <1>4, <1>5 DEF TypeOK, worker

LEMMA InitTyped ==
    ASSUME Init
    PROVE  TypeOK
<1>1. 0 \in 0 .. MaxTime /\ 0 \in 0 .. MaxEdits /\ 0 \in 0 .. MaxFaults
  BY BoundsAssumption
<1>2. snap \in [Workers -> Snapshot]
  BY NoRulesKnown DEF Init
<1>3. state \in [Rules -> {"new", "on", "off", "gone"}] /\ cooldown \in [Rules -> Cooldowns]
  BY DEF Init
<1>4. \A w \in Workers : /\ todo[w] = {} /\ pc[w] = "down" /\ rule[w] = Null /\ ~failed[w]
                        /\ DOMAIN snap[w] = {}
  BY NoRulesKnown DEF Init
<1> QED
  BY <1>1, <1>2, <1>3, <1>4 DEF Init, TypeOK

LEMMA StepTyped ==
    ASSUME TypeOK, [Next]_vars
    PROVE  TypeOK'
<1>1. CASE UNCHANGED vars
  BY <1>1 DEF TypeOK, vars, table, worker
<1>2. CASE Tick
  <2>1. now' \in 0 .. MaxTime
    BY <1>2, BoundsAssumption DEF TypeOK, Tick
  <2> QED
    BY <1>2, <2>1 DEF TypeOK, Tick, table, worker
<1>3. ASSUME NEW w \in Workers, Step(w) \/ Fault(w)
      PROVE  TypeOK'
  BY <1>3, StartTyped, SaveTyped, CheckTyped, EvaluateTyped, CrashTyped DEF Step, Fault
<1> QED
  BY <1>1, <1>2, <1>3, EditTyped DEF Next

\* Type correctness: what a worker evaluates is a rule that it knows, on a candle
\* that its cursor has passed.
THEOREM TypeCorrect == Spec => []TypeOK
  BY InitTyped, StepTyped, PTL DEF Spec

-----------------------------------------------------------------------------
(***************************************************************************)
(* What errors cost.                                                       *)
(***************************************************************************)

\* A session that is failed has failed on the candle its worker is at.
FailedIsLost == \A w \in Workers : failed[w] => <<w, cur[w]>> \in lost

LossCounted == IsFiniteSet(lost) /\ Cardinality(lost) <= faults

LEMMA LossStep ==
    ASSUME TypeOK, FailedIsLost, [Next]_vars
    PROVE  /\ \/ lost' = lost /\ faults <= faults'
              \/ /\ faults' = faults + 1
                 /\ \E c \in Workers \X (1 .. MaxTime) : lost' = lost \cup {c}
           /\ FailedIsLost'
<1> DEFINE Same == lost' = lost /\ faults <= faults'
           Grows == /\ faults' = faults + 1
                    /\ \E c \in Workers \X (1 .. MaxTime) : lost' = lost \cup {c}
<1>0. faults \in Nat
  BY DEF TypeOK
<1>1. CASE UNCHANGED vars \/ Tick
  BY <1>0, <1>1 DEF vars, worker, Tick, FailedIsLost
<1>2. ASSUME NEW r \in Rules, CreateRule(r) \/ UpdateRule(r) \/ DeleteRule(r)
      PROVE  Same /\ FailedIsLost'
  BY <1>0, <1>2 DEF CreateRule, UpdateRule, DeleteRule, Edit, worker, FailedIsLost
<1>3. ASSUME NEW w \in Workers, Start(w) PROVE Same /\ FailedIsLost'
  BY <1>0, <1>3 DEF TypeOK, Start, FailedIsLost
<1>4. ASSUME NEW w \in Workers, NEW k \in 1 .. MaxTime, SaveCandle(w, k)
      PROVE  Same /\ FailedIsLost'
  BY <1>0, <1>4 DEF TypeOK, SaveCandle, Dies, Take, FailedIsLost
<1>5. ASSUME NEW w \in Workers, NEW r \in Rules, CheckCooldown(w, r)
      PROVE  Same /\ FailedIsLost'
  <2>1. lost' = lost
    BY <1>5 DEF CheckCooldown, FailedIsLost
  <2>2. \A v \in Workers : failed'[v] => failed[v]
    BY <1>5 DEF TypeOK, CheckCooldown, Handled
  <2> QED
    BY <1>0, <1>5, <2>1, <2>2 DEF CheckCooldown, FailedIsLost
<1>6. ASSUME NEW w \in Workers, NoMatch(w) \/ Match(w) PROVE Same /\ FailedIsLost'
  BY <1>0, <1>6 DEF NoMatch, Match, FailedIsLost
<1>7. ASSUME NEW w \in Workers, SwallowedAgain(w) PROVE Same /\ FailedIsLost'
  BY <1>0, <1>7 DEF SwallowedAgain, FailedIsLost
<1>8. ASSUME NEW w \in Workers, Crash(w) PROVE (Same \/ Grows) /\ FailedIsLost'
  <2>1. FailedIsLost'
    BY <1>8 DEF TypeOK, Crash, Dies, FailedIsLost
  <2>2. CASE todo[w] = {}
    BY <1>0, <1>8, <2>1, <2>2 DEF Crash
  <2>3. CASE todo[w] # {}
    BY <1>8, <2>1, <2>3, AtCandle DEF Crash
  <2> QED
    BY <2>2, <2>3
<1>9. ASSUME NEW w \in Workers, NEW r \in Rules, CooldownQueryFails(w, r)
      PROVE  Grows /\ FailedIsLost'
  <2>1. <<w, cur[w]>> \in Workers \X (1 .. MaxTime)
    BY <1>9, AtCandle DEF CooldownQueryFails
  <2>2. FailedIsLost'
    BY <1>9 DEF TypeOK, CooldownQueryFails, Handled, FailedIsLost
  <2> QED
    BY <1>9, <2>1, <2>2 DEF CooldownQueryFails
<1>10. ASSUME NEW w \in Workers, Swallowed(w) PROVE Grows /\ FailedIsLost'
  <2>1. <<w, cur[w]>> \in Workers \X (1 .. MaxTime)
    BY <1>10, AtCandle DEF TypeOK, Swallowed
  <2>2. \A v \in Workers : v # w => failed'[v] = failed[v]
    BY <1>10 DEF TypeOK, Swallowed
  <2>3. lost' = lost \cup {<<w, cur[w]>>} /\ cur' = cur /\ faults' = faults + 1
    BY <1>10 DEF Swallowed
  <2>4. FailedIsLost'
    BY <2>2, <2>3 DEF FailedIsLost
  <2> QED
    BY <2>1, <2>3, <2>4
<1> QED
  BY <1>1, <1>2, <1>3, <1>4, <1>5, <1>6, <1>7, <1>8, <1>9, <1>10 DEF Next, Step, Fault

\* Every error, handled or swallowed, and every crash costs rules of one candle at
\* most, however many rules are evaluated on the failed session.
THEOREM LossIsAlwaysOneCandle == Spec => []LossIsOneCandle
<1> DEFINE Inv == TypeOK /\ FailedIsLost /\ LossCounted
<1>1. Init => Inv
  BY InitTyped, FS_EmptySet DEF Init, FailedIsLost, LossCounted
<1>2. Inv /\ [Next]_vars => Inv'
  <2>1. SUFFICES ASSUME Inv, [Next]_vars PROVE Inv'
    OBVIOUS
  <2>2. TypeOK' /\ FailedIsLost'
    BY <2>1, StepTyped, LossStep
  <2>3. faults \in Nat /\ faults' \in Nat /\ Cardinality(lost) \in Nat /\ IsFiniteSet(lost)
    <3>1. IsFiniteSet(lost) /\ faults \in Nat /\ faults' \in Nat
      BY <2>1, <2>2 DEF TypeOK, LossCounted
    <3> QED
      BY <3>1, FS_CardinalityType
  <2>4. ASSUME lost' = lost, faults <= faults' PROVE LossCounted'
    BY <2>1, <2>3, <2>4 DEF LossCounted
  <2>5. ASSUME NEW c, lost' = lost \cup {c}, faults' = faults + 1 PROVE LossCounted'
    <3>1. IsFiniteSet(lost') /\ Cardinality(lost') <= Cardinality(lost) + 1
      <4>1. CASE c \in lost
        <5>1. lost' = lost
          BY <2>5, <4>1
        <5>2. Cardinality(lost) <= Cardinality(lost) + 1
          BY <2>3
        <5> QED
          BY <2>3, <5>1, <5>2, Zenon
      <4>2. CASE c \notin lost
        <5>1. /\ IsFiniteSet(lost \cup {c})
              /\ Cardinality(lost \cup {c}) = Cardinality(lost) + 1
          BY <2>3, <4>2, FS_AddElement
        <5>2. IsFiniteSet(lost') /\ Cardinality(lost') = Cardinality(lost) + 1
          BY <2>5, <5>1, Zenon
        <5> QED
          BY <2>3, <5>2
      <4> QED
        BY <4>1, <4>2
    <3>2. Cardinality(lost') \in Nat
      BY <3>1, FS_CardinalityType
    <3> QED
      BY <2>1, <2>3, <2>5, <3>1, <3>2 DEF LossCounted
  <2>6. LossCounted'
    BY <2>1, <2>4, <2>5, LossStep DEF LossCounted
  <2> QED
    BY <2>2, <2>6
<1>3. Inv => LossIsOneCandle
  BY DEF LossCounted, LossIsOneCandle
<1> QED
  BY <1>1, <1>2, <1>3, PTL DEF Spec

-----------------------------------------------------------------------------
(***************************************************************************)
(* Where alerts come from, and where they stay.                            *)
(***************************************************************************)

\* A new alert is the worker's that is evaluating a rule it knows.
LEMMA NewAlerts ==
    ASSUME TypeOK, [Next]_vars
    PROVE  \/ alerts' = alerts
           \/ \E r \in Rules : alerts' = {a \in alerts : a.rule # r}
           \/ \E w \in Workers : /\ pc[w] = "evaluate" /\ CanInsert(rule[w], cur[w])
                                 /\ alerts' = alerts \cup {NewAlert(w)}
                                 /\ Return(w)
                                 /\ UNCHANGED <<now, table, cursor, cur, snap, edits>>
<1> DEFINE Inserts(w) == /\ pc[w] = "evaluate" /\ CanInsert(rule[w], cur[w])
                         /\ alerts' = alerts \cup {NewAlert(w)}
                         /\ Return(w)
                         /\ UNCHANGED <<now, table, cursor, cur, snap, edits>>
<1>1. ASSUME NEW w \in Workers, Match(w) PROVE alerts' = alerts \/ Inserts(w)
  BY <1>1 DEF Match
<1>2. ASSUME NEW w \in Workers, Swallowed(w) PROVE alerts' = alerts \/ Inserts(w)
  BY <1>2 DEF Swallowed
<1>3. ASSUME NEW w \in Workers,
             \/ Start(w) \/ NoMatch(w) \/ SwallowedAgain(w) \/ Crash(w)
             \/ \E k \in 1 .. MaxTime : SaveCandle(w, k)
             \/ \E r \in Rules : CheckCooldown(w, r) \/ CooldownQueryFails(w, r)
      PROVE  alerts' = alerts
  BY <1>3 DEF Start, NoMatch, SwallowedAgain, Crash, SaveCandle, Dies, Take, CheckCooldown,
     CooldownQueryFails
<1>4. ASSUME NEW r \in Rules, CreateRule(r) \/ UpdateRule(r) \/ DeleteRule(r)
      PROVE  alerts' = alerts \/ alerts' = {a \in alerts : a.rule # r}
  BY <1>4 DEF CreateRule, UpdateRule, DeleteRule
<1>5. CASE UNCHANGED vars \/ Tick
  BY <1>5 DEF vars, Tick
<1> QED
  BY <1>1, <1>2, <1>3, <1>4, <1>5 DEF Next, Step, Fault

\* A rule that is deleted is silent from then on and takes its alerts along,
\* whoever still evaluates it.
THEOREM DeletedStaysSilent == Spec => []DeletedIsSilent
<1>1. Init => DeletedIsSilent
  BY DEF Init, DeletedIsSilent
<1>2. TypeOK /\ DeletedIsSilent /\ [Next]_vars => DeletedIsSilent'
  <2> SUFFICES ASSUME TypeOK, DeletedIsSilent, [Next]_vars, NEW a \in alerts'
               PROVE  state'[a.rule] \in {"on", "off"}
    BY DEF DeletedIsSilent
  <2>1. CASE \E r \in Rules : CreateRule(r) \/ UpdateRule(r) \/ DeleteRule(r)
    <3>1. PICK r \in Rules : CreateRule(r) \/ UpdateRule(r) \/ DeleteRule(r)
      BY <2>1
    <3>2. a \in alerts /\ a.rule \in Rules /\ state[a.rule] \in {"on", "off"}
      BY <3>1 DEF CreateRule, UpdateRule, DeleteRule, TypeOK, Alert, DeletedIsSilent
    <3>3. CASE a.rule # r
      BY <3>1, <3>2, <3>3 DEF CreateRule, UpdateRule, DeleteRule, TypeOK
    <3>4. CASE a.rule = r
      BY <3>1, <3>2, <3>4 DEF CreateRule, UpdateRule, DeleteRule, TypeOK
    <3> QED
      BY <3>3, <3>4
  <2>2. CASE ~\E r \in Rules : CreateRule(r) \/ UpdateRule(r) \/ DeleteRule(r)
    <3>1. state' = state
      BY <2>2 DEF Next, Step, Fault, Start, SaveCandle, Take, Dies, CheckCooldown, NoMatch, Match,
         SwallowedAgain, Crash, Swallowed, CooldownQueryFails, Tick, vars, table
    <3>2. CASE a \in alerts
      BY <3>1, <3>2 DEF DeletedIsSilent
    <3>3. CASE a \notin alerts
      <4>1. PICK w \in Workers : CanInsert(rule[w], cur[w]) /\ a = NewAlert(w)
        BY <3>3, NewAlerts
      <4> QED
        BY <3>1, <4>1 DEF CanInsert, NewAlert
    <3> QED
      BY <3>2, <3>3
  <2> QED
    BY <2>1, <2>2
<1> QED
  BY <1>1, <1>2, TypeCorrect, PTL DEF Spec

-----------------------------------------------------------------------------
(***************************************************************************)
(* The cooldown.                                                           *)
(***************************************************************************)

\* An alert's window is over before the alert is raised.
ClockAhead ==
    /\ \A w \in Workers : cur[w] <= now /\ cursor[w] <= now
    /\ \A a \in alerts : a.triggered <= now

WindowsDiffer ==
    \A a, b \in alerts : a.rule = b.rule /\ a.triggered = b.triggered => a = b

AfterIsKnown ==
    \A b \in alerts : \A t \in b.after : \E a \in alerts : a.rule = b.rule /\ a.triggered = t

\* A worker past its check that runs into a cooldown has been overtaken by another
\* worker's alert, and has not raised an early one after that yet.
OvertakenOnce ==
    \A w \in Workers : pc[w] = "evaluate" =>
        \A a \in AlertsOf(rule[w]) : Running(a, snap[w][rule[w]], now) =>
            /\ a.by # w
            /\ \A b \in alerts : b.by = w => ~Early(a, b)

\* An early alert is another worker's, and its only one.
EarlyOncePerWorker ==
    \A a, b \in alerts : Early(a, b) =>
        /\ b.by # a.by
        /\ \A c \in alerts : c.by = b.by /\ Early(a, c) => c = b

CooldownInv ==
    ClockAhead /\ WindowsDiffer /\ AfterIsKnown /\ OvertakenOnce /\ EarlyOncePerWorker

\* A set of numbers has a least one.
LEMMA LeastOf ==
    ASSUME NEW T \in SUBSET Nat, T # {}
    PROVE  \E n \in T : \A m \in T : n <= m
<1> DEFINE R == StrictSubsetOrdering(Nat)
           D == {0 .. n : n \in T}
<1>1. IsWellFoundedOn(R, FiniteSubsetsOf(Nat))
  BY FS_StrictSubsetOrderingWellFounded
<1>2. D \subseteq FiniteSubsetsOf(Nat) /\ D # {}
  <2>1. ASSUME NEW n \in T PROVE 0 .. n \in FiniteSubsetsOf(Nat)
    <3>1. n \in Int /\ 0 \in Int
      OBVIOUS
    <3>2. IsFiniteSet(0 .. n)
      BY <3>1, FS_Interval
    <3>3. 0 .. n \in SUBSET Nat
      OBVIOUS
    <3> QED
      BY <3>2, <3>3, Zenon DEF FiniteSubsetsOf
  <2> QED
    BY <2>1, Zenon
<1>3. \E d \in D : \A e \in D : ~(<<e, d>> \in R)
  <2> HIDE DEF R, D
  <2> QED
    BY <1>1, <1>2, WFMin
<1>4. PICK n \in T : \A e \in D : ~(<<e, 0 .. n>> \in R)
  BY <1>3
<1>5. ASSUME NEW m \in T, m < n PROVE FALSE
  <2>1. <<0 .. m, 0 .. n>> \in R
    BY <1>5 DEF StrictSubsetOrdering
  <2> QED
    BY <1>4, <2>1
<1> QED
  BY <1>5

LEMMA LastAlertIsLast ==
    ASSUME TypeOK, NEW r, AlertsOf(r) # {}
    PROVE  /\ LastAlert(r) \in AlertsOf(r)
           /\ \A a \in AlertsOf(r) : a.triggered <= LastAlert(r).triggered
<1> DEFINE T == {MaxTime - a.triggered : a \in AlertsOf(r)}
<1>1. \A a \in AlertsOf(r) : a.triggered \in 0 .. MaxTime
  BY DEF TypeOK, AlertsOf, Alert
<1>2. T \subseteq Nat /\ T # {} /\ MaxTime \in Nat
  BY <1>1, BoundsAssumption
<1>3. PICK n \in T : \A m \in T : n <= m
  BY <1>2, LeastOf
<1>4. PICK a \in AlertsOf(r) : n = MaxTime - a.triggered
  BY <1>3
<1>5. \A b \in AlertsOf(r) : a.triggered >= b.triggered
  <2> SUFFICES ASSUME NEW b \in AlertsOf(r) PROVE a.triggered >= b.triggered
    OBVIOUS
  <2>1. MaxTime - a.triggered <= MaxTime - b.triggered
    BY <1>3, <1>4
  <2>2. a.triggered \in Nat /\ b.triggered \in Nat
    BY <1>1, <1>4
  <2> QED
    BY <1>2, <2>1, <2>2
<1>6. \E c \in AlertsOf(r) : \A b \in AlertsOf(r) : c.triggered >= b.triggered
  BY <1>4, <1>5
<1>7. LastAlert(r) \in AlertsOf(r) /\ \A b \in AlertsOf(r) : LastAlert(r).triggered >= b.triggered
  BY <1>6, Zenon DEF LastAlert
<1>8. \A a_1 \in AlertsOf(r) : LastAlert(r).triggered \in Nat /\ a_1.triggered \in Nat
  BY <1>1, <1>7
<1> QED
  BY <1>7, <1>8

\* What passes the check meets no cooldown that is running.
LEMMA CheckIsExact ==
    ASSUME TypeOK, ClockAhead, NEW w \in Workers, NEW r \in Rules,
           CheckCooldown(w, r), pc'[w] = "evaluate"
    PROVE  /\ rule' = [rule EXCEPT ![w] = r]
           /\ \A a \in AlertsOf(r) : ~Running(a, snap[w][r], now)
<1> DEFINE cd == snap[w][r]
<1>1. /\ ~CheckRaises(w, r)
      /\ ~(cd \notin {0, Null} /\ Within(r, cd))
      /\ rule' = [rule EXCEPT ![w] = r]
  BY DEF TypeOK, CheckCooldown
<1>2. cd \in Cooldowns
  <2>1. r \in DOMAIN snap[w]
    BY DEF TypeOK, CheckCooldown
  <2> QED
    BY <2>1, SnapshotDomain DEF TypeOK
<1>3. SUFFICES ASSUME NEW a \in AlertsOf(r) PROVE ~Running(a, cd, now)
  BY <1>1
<1>4. a.triggered \in Nat /\ a.triggered <= now /\ now \in Nat
  BY BoundsAssumption DEF TypeOK, ClockAhead, AlertsOf, Alert
<1>5. cd # Null /\ cd \in Nat
  BY <1>1, <1>2, CooldownsAssumption DEF CheckRaises
<1> HIDE DEF cd
<1>6. CASE cd = 0
  BY <1>4, <1>5, <1>6 DEF Running
<1>7. CASE cd # 0
  <2>1. ~(now < LastAlert(r).triggered + cd)
    BY <1>1, <1>5, <1>7 DEF Within
  <2>2. a.triggered <= LastAlert(r).triggered
    BY LastAlertIsLast
  <2>3. LastAlert(r).triggered \in Nat
    <3>1. LastAlert(r) \in AlertsOf(r)
      BY LastAlertIsLast
    <3> QED
      BY <3>1, BoundsAssumption DEF TypeOK, AlertsOf, Alert
  <2> QED
    BY <1>4, <1>5, <2>1, <2>2, <2>3 DEF Running
<1> QED
  BY <1>6, <1>7

LEMMA CooldownInit ==
    ASSUME Init
    PROVE  CooldownInv
  BY DEF Init, CooldownInv, ClockAhead, WindowsDiffer, AfterIsKnown, OvertakenOnce,
     EarlyOncePerWorker

\* Workers that are evaluating after a step were doing so before it, or have just
\* passed their check.
LEMMA Evaluating ==
    ASSUME TypeOK, ClockAhead, [Next]_vars, NEW w \in Workers, pc'[w] = "evaluate"
    PROVE  /\ snap'[w] = snap[w]
           /\ \/ pc[w] = "evaluate" /\ rule'[w] = rule[w]
              \/ /\ alerts' = alerts /\ now' = now
                 /\ \A a \in AlertsOf(rule'[w]) : ~Running(a, snap[w][rule'[w]], now)
<1> DEFINE Goal == /\ snap'[w] = snap[w]
                   /\ \/ pc[w] = "evaluate" /\ rule'[w] = rule[w]
                      \/ /\ alerts' = alerts /\ now' = now
                         /\ \A a \in AlertsOf(rule'[w]) : ~Running(a, snap[w][rule'[w]], now)
<1>1. ASSUME NEW v \in Workers, Start(v) PROVE Goal
  BY <1>1 DEF TypeOK, Start
<1>2. ASSUME NEW v \in Workers, Dies(v) PROVE Goal
  BY <1>2 DEF TypeOK, Dies
<1>3. ASSUME NEW v \in Workers, NEW k \in 1 .. MaxTime, SaveCandle(v, k) PROVE Goal
  <2>1. Dies(v) \/ UNCHANGED <<pc, snap, rule>>
    BY <1>3 DEF SaveCandle, Take
  <2> QED
    BY <1>2, <2>1
<1>4. ASSUME NEW v \in Workers, NEW r \in Rules, CheckCooldown(v, r) PROVE Goal
  <2>1. CASE v = w
    <3>1. rule' = [rule EXCEPT ![v] = r]
      BY <1>4, <2>1, CheckIsExact
    <3>2. rule'[w] = r
      BY <2>1, <3>1 DEF TypeOK
    <3>3. \A a \in AlertsOf(r) : ~Running(a, snap[w][r], now)
      BY <1>4, <2>1, CheckIsExact
    <3> QED
      BY <1>4, <3>2, <3>3 DEF CheckCooldown
  <2>2. CASE v # w
    BY <1>4, <2>2 DEF TypeOK, CheckCooldown
  <2> QED
    BY <2>1, <2>2
<1>5. ASSUME NEW v \in Workers, NEW r \in Rules, CooldownQueryFails(v, r) PROVE Goal
  BY <1>5 DEF CooldownQueryFails
<1>6. ASSUME NEW v \in Workers, NoMatch(v) \/ Match(v) \/ SwallowedAgain(v) \/ Swallowed(v)
      PROVE  Goal
  <2>1. Return(v) /\ snap' = snap
    BY <1>6 DEF NoMatch, Match, SwallowedAgain, Swallowed
  <2> QED
    BY <2>1 DEF TypeOK, Return
<1>7. ASSUME NEW v \in Workers, Crash(v) PROVE Goal
  BY <1>2, <1>7 DEF Crash
<1>8. ASSUME NEW r \in Rules, CreateRule(r) \/ UpdateRule(r) \/ DeleteRule(r) PROVE Goal
  BY <1>8 DEF CreateRule, UpdateRule, DeleteRule, Edit, worker
<1>9. CASE UNCHANGED vars \/ Tick
  BY <1>9 DEF vars, worker, Tick
<1> QED
  BY <1>1, <1>3, <1>4, <1>5, <1>6, <1>7, <1>8, <1>9 DEF Next, Step, Fault

LEMMA ClockStaysAhead ==
    ASSUME TypeOK, ClockAhead, [Next]_vars
    PROVE  ClockAhead' /\ now <= now'
<1>0. now \in Nat /\ \A w \in Workers : cur[w] \in Nat /\ cursor[w] \in Nat
  BY BoundsAssumption DEF TypeOK
<1>1. now \in Nat /\ now' \in Nat /\ now <= now'
  <2>1. now' = now \/ Tick
    BY DEF Next, vars, Step, Fault, Start, SaveCandle, Dies, Take, CheckCooldown,
       CooldownQueryFails, NoMatch, Match, SwallowedAgain, Swallowed, Crash, CreateRule, UpdateRule,
       DeleteRule, Edit
  <2> QED
    BY <1>0, <2>1 DEF Tick
<1>2. ASSUME NEW w \in Workers PROVE cur'[w] <= now' /\ cursor'[w] <= now'
  <2>0. cur[w] <= now /\ cursor[w] <= now /\ cur[w] \in Nat /\ cursor[w] \in Nat
    BY <1>0 DEF ClockAhead
  <2>1. ASSUME NEW v \in Workers, Start(v) PROVE cur'[w] <= now' /\ cursor'[w] <= now'
    BY <1>1, <2>0, <2>1 DEF TypeOK, Start, Seed
  <2>2. ASSUME NEW v \in Workers, Dies(v) PROVE cur'[w] <= now' /\ cursor'[w] <= now'
    BY <1>1, <2>0, <2>2 DEF TypeOK, Dies
  <2>3. ASSUME NEW v \in Workers, NEW k \in 1 .. MaxTime, SaveCandle(v, k)
        PROVE  cur'[w] <= now' /\ cursor'[w] <= now'
    <3>1. k <= now
      BY <1>1, <2>3 DEF SaveCandle, Ready
    <3> QED
      BY <1>1, <2>0, <2>2, <2>3, <3>1 DEF TypeOK, SaveCandle, Take
  <2>4. ASSUME NEW v \in Workers, Crash(v) PROVE cur'[w] <= now' /\ cursor'[w] <= now'
    BY <2>2, <2>4 DEF Crash
  <2>5. ASSUME UNCHANGED <<cur, cursor>> PROVE cur'[w] <= now' /\ cursor'[w] <= now'
    BY <1>1, <2>0, <2>5
  <2>6. ASSUME NEW v \in Workers,
               \/ NoMatch(v) \/ Match(v) \/ SwallowedAgain(v) \/ Swallowed(v)
               \/ \E r \in Rules : CheckCooldown(v, r) \/ CooldownQueryFails(v, r)
        PROVE  UNCHANGED <<cur, cursor>>
    BY <2>6 DEF NoMatch, Match, SwallowedAgain, Swallowed, CheckCooldown, CooldownQueryFails
  <2>7. ASSUME NEW r \in Rules, CreateRule(r) \/ UpdateRule(r) \/ DeleteRule(r)
        PROVE  UNCHANGED <<cur, cursor>>
    BY <2>7 DEF CreateRule, UpdateRule, DeleteRule, Edit, worker
  <2>8. CASE UNCHANGED vars \/ Tick
    BY <2>5, <2>8 DEF vars, worker, Tick
  <2> QED
    BY <2>1, <2>3, <2>4, <2>5, <2>6, <2>7, <2>8 DEF Next, Step, Fault
<1>3. ASSUME NEW a \in alerts' PROVE a.triggered <= now'
  <2>1. CASE a \in alerts
    <3>1. a.triggered <= now /\ a.triggered \in Nat
      BY <2>1 DEF TypeOK, Alert, ClockAhead
    <3> QED
      BY <1>1, <3>1
  <2>2. ASSUME NEW w \in Workers, a = NewAlert(w) PROVE a.triggered <= now'
    <3>1. a.triggered = cur[w] - 1
      BY <2>2 DEF NewAlert, Opens
    <3> QED
      BY <1>0, <1>1, <3>1 DEF ClockAhead
  <2> QED
    BY <2>1, <2>2, NewAlerts
<1> QED
  BY <1>1, <1>2, <1>3 DEF ClockAhead

LEMMA RunningBefore ==
    ASSUME TypeOK, NEW a \in alerts, NEW cd \in Cooldowns, NEW s \in Nat, NEW t \in Nat,
           s <= t, Running(a, cd, t)
    PROVE  Running(a, cd, s)
<1>1. a.triggered \in Nat
  BY DEF TypeOK, Alert
<1>2. CASE cd = Null
  BY <1>2 DEF Running
<1>3. CASE cd \in Nat
  BY <1>1, <1>3, CooldownsAssumption DEF Running
<1> QED
  BY <1>2, <1>3, CooldownsAssumption

\* A worker that is evaluating after the step has been overtaken by the old alerts
\* whose cooldown runs.
LEMMA OvertakenBefore ==
    ASSUME TypeOK, CooldownInv, [Next]_vars, NEW w \in Workers, pc'[w] = "evaluate",
           NEW a \in alerts, a.rule = rule'[w], Running(a, snap'[w][rule'[w]], now')
    PROVE  /\ pc[w] = "evaluate" /\ rule'[w] = rule[w] /\ a.by # w
           /\ \A b \in alerts : b.by = w => ~Early(a, b)
<1>1. snap'[w] = snap[w]
  BY Evaluating DEF CooldownInv
<1>2. a \in AlertsOf(rule'[w])
  BY DEF AlertsOf
<1>3. pc[w] = "evaluate" /\ rule'[w] = rule[w]
  BY <1>1, <1>2, Evaluating DEF CooldownInv
<1>4. snap[w][rule[w]] \in Cooldowns
  <2>1. rule[w] \in DOMAIN snap[w] /\ snap[w] \in Snapshot
    BY <1>3 DEF TypeOK
  <2> QED
    BY <2>1, SnapshotDomain
<1>5. now \in Nat /\ now' \in Nat /\ now <= now'
  BY ClockStaysAhead, StepTyped, BoundsAssumption DEF TypeOK, CooldownInv
<1>6. Running(a, snap[w][rule[w]], now)
  BY <1>1, <1>3, <1>4, <1>5, RunningBefore
<1> QED
  BY <1>2, <1>3, <1>6 DEF CooldownInv, OvertakenOnce

LEMMA CooldownStep ==
    ASSUME TypeOK, CooldownInv, [Next]_vars
    PROVE  CooldownInv'
<1>0. ClockAhead'
  BY ClockStaysAhead DEF CooldownInv
<1>1. ASSUME alerts' \subseteq alerts,
             \A a, b \in alerts : b \in alerts' /\ a.rule = b.rule => a \in alerts'
      PROVE  CooldownInv'
  <2>1. WindowsDiffer' /\ EarlyOncePerWorker'
    BY <1>1 DEF CooldownInv, WindowsDiffer, EarlyOncePerWorker
  <2>2. AfterIsKnown'
    <3> SUFFICES ASSUME NEW b \in alerts', NEW t \in b.after
                 PROVE  \E a \in alerts' : a.rule = b.rule /\ a.triggered = t
      BY DEF AfterIsKnown
    <3>1. PICK a \in alerts : a.rule = b.rule /\ a.triggered = t
      BY <1>1 DEF CooldownInv, AfterIsKnown
    <3> QED
      BY <1>1, <3>1
  <2>3. OvertakenOnce'
    <3> SUFFICES ASSUME NEW w \in Workers, pc'[w] = "evaluate",
                        NEW a \in alerts', a.rule = rule'[w], Running(a, snap'[w][rule'[w]], now')
                 PROVE  a.by # w /\ \A b \in alerts' : b.by = w => ~Early(a, b)
      BY DEF OvertakenOnce, AlertsOf
    <3> QED
      BY <1>1, OvertakenBefore
  <2> QED
    BY <1>0, <2>1, <2>2, <2>3 DEF CooldownInv
<1>2. ASSUME NEW v \in Workers, pc[v] = "evaluate", CanInsert(rule[v], cur[v]),
             alerts' = alerts \cup {NewAlert(v)}, Return(v),
             UNCHANGED <<now, table, cursor, cur, snap, edits>>
      PROVE  CooldownInv'
  <2> DEFINE n == NewAlert(v)
  <2>1. /\ n.rule = rule[v] /\ n.by = v /\ n.cd = snap[v][rule[v]] /\ n.inserted = now
        /\ n.triggered = Opens(cur[v]) /\ n.after = {a.triggered : a \in AlertsOf(rule[v])}
    BY DEF NewAlert
  <2>2. \A a \in alerts : a.rule = n.rule => a.triggered # n.triggered /\ a.triggered \in n.after
    BY <1>2, <2>1 DEF CanInsert, AlertsOf
  <2>3. n.triggered \notin n.after
    BY <2>1, <2>2 DEF AlertsOf
  <2> HIDE DEF n
  <2>4. alerts' = alerts \cup {n}
    BY <1>2 DEF n
  <2>5. WindowsDiffer'
    BY <2>2, <2>4 DEF CooldownInv, WindowsDiffer
  <2>6. AfterIsKnown'
    <3>1. \A t \in n.after : \E a \in alerts : a.rule = n.rule /\ a.triggered = t
      BY <2>1 DEF AlertsOf
    <3> QED
      BY <2>4, <3>1 DEF CooldownInv, AfterIsKnown
  <2>7. \A b \in alerts' : ~Early(n, b)
    <3>1. ASSUME NEW b \in alerts, Early(n, b) PROVE FALSE
      <4>1. n.rule = b.rule /\ n.triggered \in b.after
        BY <3>1 DEF Early
      <4>2. PICK c \in alerts : c.rule = b.rule /\ c.triggered = n.triggered
        BY <4>1 DEF CooldownInv, AfterIsKnown
      <4> QED
        BY <2>2, <4>1, <4>2
    <3>2. ~Early(n, n)
      BY <2>3 DEF Early
    <3> QED
      BY <2>4, <3>1, <3>2
  <2>8. ASSUME NEW a \in alerts, Early(a, n)
        PROVE  a.by # v /\ \A b \in alerts : b.by = v => ~Early(a, b)
    <3>1. a \in AlertsOf(rule[v]) /\ Running(a, snap[v][rule[v]], now)
      BY <2>1, <2>8 DEF Early, AlertsOf
    <3> QED
      BY <1>2, <3>1 DEF CooldownInv, OvertakenOnce
  <2>9. EarlyOncePerWorker'
    <3> SUFFICES ASSUME NEW a \in alerts', NEW b \in alerts', Early(a, b)
                 PROVE  /\ b.by # a.by
                        /\ \A c \in alerts' : c.by = b.by /\ Early(a, c) => c = b
      BY DEF EarlyOncePerWorker
    <3>1. a \in alerts
      BY <2>4, <2>7
    <3>2. CASE b = n
      BY <2>1, <2>4, <2>8, <3>1, <3>2
    <3>3. CASE b \in alerts
      <4>1. b.by # a.by /\ \A c \in alerts : c.by = b.by /\ Early(a, c) => c = b
        BY <3>1, <3>3 DEF CooldownInv, EarlyOncePerWorker
      <4>2. ~(n.by = b.by /\ Early(a, n))
        BY <2>1, <2>8, <3>1, <3>3
      <4> QED
        BY <2>4, <4>1, <4>2
    <3> QED
      BY <2>4, <3>2, <3>3
  <2>10. OvertakenOnce'
    <3> SUFFICES ASSUME NEW w \in Workers, pc'[w] = "evaluate",
                        NEW a \in alerts', a.rule = rule'[w], Running(a, snap'[w][rule'[w]], now')
                 PROVE  a.by # w /\ \A b \in alerts' : b.by = w => ~Early(a, b)
      BY DEF OvertakenOnce, AlertsOf
    <3>1. w # v
      BY <1>2 DEF TypeOK, Return
    <3>2. CASE a = n
      BY <2>1, <2>7, <3>1, <3>2
    <3>3. CASE a \in alerts
      <4>1. a.by # w /\ \A b \in alerts : b.by = w => ~Early(a, b)
        BY <3>3, OvertakenBefore
      <4> QED
        BY <2>1, <2>4, <3>1, <4>1
    <3> QED
      BY <2>4, <3>2, <3>3
  <2> QED
    BY <1>0, <2>5, <2>6, <2>9, <2>10 DEF CooldownInv
<1>3. CASE alerts' = alerts
  BY <1>1, <1>3
<1>4. ASSUME NEW r \in Rules, alerts' = {a \in alerts : a.rule # r} PROVE CooldownInv'
  BY <1>1, <1>4
<1> QED
  BY <1>2, <1>3, <1>4, NewAlerts

\* With any number of workers, a cooldown that an alert starts is broken at most
\* once by each other worker, one whose check came before that alert; a single
\* worker never breaks it, whatever edits, errors and restarts.
THEOREM CooldownHolds == Spec => []CooldownSlack
<1> DEFINE Inv == TypeOK /\ CooldownInv
<1>1. Init => Inv
  BY InitTyped, CooldownInit
<1>2. Inv /\ [Next]_vars => Inv'
  BY StepTyped, CooldownStep
<1>3. Inv => CooldownSlack
  <2>1. SUFFICES ASSUME Inv, NEW a \in alerts
                 PROVE  Cardinality({b \in alerts : Early(a, b)}) < Cardinality(Workers)
    BY DEF CooldownSlack
  <2> DEFINE E == {b \in alerts : Early(a, b)}
             others == Workers \ {a.by}
             f == [b \in E |-> b.by]
  <2>2. a.by \in Workers /\ \A b \in alerts : b.by \in Workers
    BY <2>1 DEF TypeOK, Alert
  <2>3. \A b \in E : b.by # a.by /\ \A c \in E : c.by = b.by => c = b
    BY <2>1 DEF CooldownInv, EarlyOncePerWorker
  <2>4. f \in Injection(E, others)
    <3>1. f \in [E -> others]
      BY <2>2, <2>3
    <3>2. \A b, c \in E : f[b] = f[c] => b = c
      BY <2>3
    <3> QED
      BY <3>1, <3>2 DEF Injection, IsInjective
  <2>5. /\ IsFiniteSet(others) /\ Cardinality(others) = Cardinality(Workers) - 1
        /\ Cardinality(Workers) \in Nat
    BY <2>2, SetsAssumption, FS_RemoveElement, FS_CardinalityType
  <2> HIDE DEF E, others, f
  <2>6. IsFiniteSet(E) /\ Cardinality(E) <= Cardinality(others)
    BY <2>4, <2>5, FS_Injection
  <2>7. Cardinality(E) \in Nat
    BY <2>6, FS_CardinalityType
  <2>8. Cardinality(E) < Cardinality(Workers)
    BY <2>5, <2>6, <2>7
  <2> QED
    BY <2>8 DEF E
<1> QED
  BY <1>1, <1>2, <1>3, PTL DEF Spec
=============================================================================
