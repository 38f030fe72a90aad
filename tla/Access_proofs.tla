---------------------------- MODULE Access_proofs ----------------------------
(***************************************************************************)
(* Theorems about Access, for any requests, keys, limits, length of a      *)
(* window, and any number of failures.                                     *)
(***************************************************************************)
EXTENDS Access, FiniteSetTheorems, TLAPS

-----------------------------------------------------------------------------
(***************************************************************************)
(* Windows.                                                                *)
(***************************************************************************)

\* A second lies in its window.
LEMMA InWindow ==
    ASSUME NEW t \in Nat
    PROVE  /\ WindowOf(t) \in Nat
           /\ WindowOf(t) * Window <= t
           /\ t < WindowOf(t) * Window + Window
  BY WindowAssumption DEF WindowOf

\* Times up to the bound have windows up to the bound.
LEMMA WindowInWindows ==
    ASSUME NEW t \in 0 .. MaxTime
    PROVE  WindowOf(t) \in Windows
<1> DEFINE u == WindowOf(t)  v == WindowOf(MaxTime)
<1>1. u \in Nat /\ v \in Nat /\ u * Window <= t /\ MaxTime < v * Window + Window
  BY WindowAssumption, InWindow
<1>2. Window \in Nat /\ Window > 0 /\ MaxTime \in Nat /\ t <= MaxTime
  BY WindowAssumption
<1> HIDE DEF u, v
<1>3. SUFFICES ASSUME u > v PROVE FALSE
  BY <1>1 DEF Windows, u, v
<1>4. u >= v + 1
  BY <1>1, <1>3
<1>5. u * Window >= (v + 1) * Window
  BY <1>1, <1>2, <1>4
<1>6. (v + 1) * Window = v * Window + Window
  BY <1>1, <1>2
<1> QED
  BY <1>1, <1>2, <1>5, <1>6

-----------------------------------------------------------------------------
(***************************************************************************)
(* Types.                                                                  *)
(***************************************************************************)

\* Every step of a request keeps the types.
LEMMA RequestTyped ==
    ASSUME TypeOK, NEW q \in Requests,
           \/ \E k \in Keys, r \in BOOLEAN : Arrive(q, k, r)
           \/ Lookup(q) \/ LookupFails(q)
           \/ GetClient(q) \/ Incr(q) \/ Expire(q) \/ CallRaises(q)
           \/ Route(q)
    PROVE  TypeOK'
<1>1. ASSUME NEW k \in Keys, NEW r \in BOOLEAN, Arrive(q, k, r) PROVE TypeOK'
  BY <1>1, KeysAssumption DEF TypeOK, Arrive, Goto, Answer, redisVars, Keys, Buckets
<1>2. CASE Lookup(q)
  BY <1>2, KeysAssumption DEF TypeOK, Lookup, Found, Goto, Answer, redisVars, Keys, Buckets
<1>3. CASE LookupFails(q)
  <2>1. faults' \in 0 .. MaxFaults
    BY <1>3, WindowAssumption DEF TypeOK, LookupFails
  <2> QED
    BY <1>3, <2>1 DEF TypeOK, LookupFails, Goto, Answer, redisVars
<1>4. CASE GetClient(q)
  BY <1>4 DEF TypeOK, GetClient, Goto, LetPass, redisVars
<1>5. CASE Incr(q)
  <2>1. hits' \in [Buckets -> [Windows -> Nat]]
    <3> DEFINE count == hits[key[q]][WindowOf(at[q])] + 1
    <3>1. key[q] \in Buckets /\ WindowOf(at[q]) \in Windows
      BY <1>5, WindowInWindows DEF TypeOK, Incr
    <3>2. count \in Nat
      BY <3>1 DEF TypeOK
    <3>3. hits' = [hits EXCEPT ![key[q]][WindowOf(at[q])] = count]
      BY <1>5 DEF Incr, Bucket
    <3> QED
      BY <3>2, <3>3 DEF TypeOK
  <2> QED
    BY <1>5, <2>1 DEF TypeOK, Incr, Goto, LetPass, Answer
<1>6. CASE Expire(q)
  <2>1. now + Ttl \in Nat
    BY WindowAssumption DEF TypeOK, Ttl
  <2>2. expiry' = expiry \/ expiry' = [expiry EXCEPT ![key[q]][WindowOf(at[q])] = now + Ttl]
    BY <1>6 DEF Expire, Bucket
  <2>3. key[q] \in Buckets /\ WindowOf(at[q]) \in Windows
    BY <1>6, WindowInWindows DEF TypeOK, Expire
  <2>4. expiry' \in [Buckets -> [Windows -> Nat \cup {Never}]]
    <3>1. expiry \in [Buckets -> [Windows -> Nat \cup {Never}]]
      BY DEF TypeOK
    <3>2. [expiry EXCEPT ![key[q]][WindowOf(at[q])] = now + Ttl]
            \in [Buckets -> [Windows -> Nat \cup {Never}]]
      BY <2>1, <2>3, <3>1
    <3> QED
      BY <2>2, <3>1, <3>2, Zenon
  <2> QED
    BY <1>6, <2>4 DEF TypeOK, Expire, Goto, LetPass, Answer
<1>7. CASE CallRaises(q)
  <2>1. now + Ttl \in Nat
    BY WindowAssumption DEF TypeOK, Ttl
  <2>2. expiry' \in [Buckets -> [Windows -> Nat \cup {Never}]]
    BY <1>7, <2>1 DEF TypeOK, CallRaises
  <2>3. hits' \in [Buckets -> [Windows -> Nat]]
    BY <1>7 DEF TypeOK, CallRaises
  <2>4. faults' \in 0 .. MaxFaults
    BY <1>7, WindowAssumption DEF TypeOK, CallRaises
  <2> QED
    BY <1>7, <2>2, <2>3, <2>4 DEF TypeOK, CallRaises, Goto, LetPass
<1>8. CASE Route(q)
  BY <1>8 DEF TypeOK, Route, Goto, redisVars
<1> QED
  BY <1>1, <1>2, <1>3, <1>4, <1>5, <1>6, <1>7, <1>8

\* So does every other step.
LEMMA OthersTyped ==
    ASSUME TypeOK,
           \/ \E k \in DbKeys : CreateKey(k) \/ DeactivateKey(k)
           \/ Tick \/ RedisStops \/ RedisStarts \/ ApiRestarts
    PROVE  TypeOK'
<1>1. ASSUME NEW k \in DbKeys, CreateKey(k) \/ DeactivateKey(k) PROVE TypeOK'
  BY <1>1 DEF TypeOK, CreateKey, DeactivateKey, redisVars, requestVars
<1>2. CASE Tick
  BY <1>2, WindowAssumption DEF TypeOK, Tick, requestVars, Never
<1>3. CASE RedisStops
  <2>1. faults' \in 0 .. MaxFaults
    BY <1>3, WindowAssumption DEF TypeOK, RedisStops
  <2> QED
    BY <1>3, <2>1 DEF TypeOK, RedisStops, requestVars
<1>4. CASE RedisStarts
  <2>1. hits' \in [Buckets -> [Windows -> Nat]] /\ expiry' \in [Buckets -> [Windows -> Nat \cup {Never}]]
    BY <1>4 DEF TypeOK, RedisStarts
  <2> QED
    BY <1>4, <2>1 DEF TypeOK, RedisStarts, requestVars
<1>5. CASE ApiRestarts
  <2>1. faults' \in 0 .. MaxFaults
    BY <1>5, WindowAssumption DEF TypeOK, ApiRestarts
  <2>2. pc' \in [Requests -> {"idle", "done"}]
    BY <1>5 DEF ApiRestarts
  <2>3. verdict' \in [Requests -> {"none", "counted", "open", "limited", "refused"}]
    BY <1>5 DEF TypeOK, ApiRestarts
  <2> QED
    BY <1>5, <2>1, <2>2, <2>3 DEF TypeOK, ApiRestarts, redisVars
<1> QED
  BY <1>1, <1>2, <1>3, <1>4, <1>5

LEMMA InitTyped ==
    ASSUME Init
    PROVE  TypeOK
<1>1. 0 \in 0 .. MaxTime /\ 0 \in 0 .. MaxFaults /\ NoKey \in Keys
  BY WindowAssumption DEF Keys
<1> QED
  BY <1>1 DEF Init, TypeOK

LEMMA StepTyped ==
    ASSUME TypeOK, [Next]_vars
    PROVE  TypeOK'
<1>1. CASE UNCHANGED vars
  BY <1>1 DEF TypeOK, vars, redisVars, requestVars
<1>2. CASE Next
  BY <1>2, RequestTyped, OthersTyped DEF Next
<1> QED
  BY <1>1, <1>2

\* Type correctness: a request that reaches the limiter has a bucket.
THEOREM TypeCorrect == Spec => []TypeOK
  BY InitTyped, StepTyped, PTL DEF Spec

-----------------------------------------------------------------------------
(***************************************************************************)
(* Where requests are, and what the two checks let pass.                   *)
(***************************************************************************)

Before == {"idle", "lookup", "client", "incr", "expire"}

\* A request has no verdict before the limiter has answered, and has read its
\* clock at some time before its INCR.
ClockIsFresh ==
    \A q \in Requests :
        /\ pc[q] \in Before => verdict[q] = "none"
        /\ pc[q] \in {"incr", "expire"} => at[q] <= now

\* What a write needs to be at its route, or to have passed it.
RouteIsReached ==
    \A q \in Requests :
        /\ pc[q] = "route" => read[q] \/ verdict[q] \in {"counted", "open"}
        /\ q \in performed => pc[q] = "done"

\* A request keeps its key, its verb and its clock once it is past the lookup.
LEMMA RequestsKeepTheirKeys ==
    ASSUME TypeOK, Next, NEW p \in Requests, pc[p] \in {"incr", "expire", "route", "done"}
    PROVE  key'[p] = key[p] /\ read'[p] = read[p] /\ at'[p] = at[p]
<1>1. ASSUME NEW q \in Requests, NEW k \in Keys, NEW r \in BOOLEAN, Arrive(q, k, r)
      PROVE  key'[p] = key[p] /\ read'[p] = read[p] /\ at'[p] = at[p]
  BY <1>1 DEF TypeOK, Arrive
<1>2. ASSUME NEW q \in Requests, GetClient(q)
      PROVE  key'[p] = key[p] /\ read'[p] = read[p] /\ at'[p] = at[p]
  BY <1>2 DEF TypeOK, GetClient
<1>3. ASSUME NEW q \in Requests,
             Lookup(q) \/ LookupFails(q) \/ Incr(q) \/ Expire(q) \/ CallRaises(q) \/ Route(q)
      PROVE  key'[p] = key[p] /\ read'[p] = read[p] /\ at'[p] = at[p]
  BY <1>3 DEF Lookup, LookupFails, Incr, Expire, CallRaises, Route
<1>4. ASSUME \/ \E k \in DbKeys : CreateKey(k) \/ DeactivateKey(k)
             \/ Tick \/ RedisStops \/ RedisStarts \/ ApiRestarts
      PROVE  key'[p] = key[p] /\ read'[p] = read[p] /\ at'[p] = at[p]
  BY <1>4 DEF CreateKey, DeactivateKey, Tick, RedisStops, RedisStarts, ApiRestarts, requestVars
<1> QED
  BY <1>1, <1>2, <1>3, <1>4 DEF Next

LEMMA ClockStaysFresh ==
    ASSUME TypeOK, ClockIsFresh, [Next]_vars
    PROVE  ClockIsFresh'
<1> SUFFICES ASSUME NEW p \in Requests
             PROVE  /\ pc'[p] \in Before => verdict'[p] = "none"
                    /\ pc'[p] \in {"incr", "expire"} => at'[p] <= now'
  BY DEF ClockIsFresh
<1>0. now \in Nat /\ at[p] \in Nat
  BY DEF TypeOK
<1>1. ASSUME NEW q \in Requests, NEW k \in Keys, NEW r \in BOOLEAN, Arrive(q, k, r)
      PROVE  /\ pc'[p] \in Before => verdict'[p] = "none"
             /\ pc'[p] \in {"incr", "expire"} => at'[p] <= now'
  BY <1>1 DEF TypeOK, ClockIsFresh, Arrive, Goto, Answer, Before
<1>2. ASSUME NEW q \in Requests,
             Lookup(q) \/ LookupFails(q) \/ GetClient(q) \/ Route(q)
      PROVE  /\ pc'[p] \in Before => verdict'[p] = "none"
             /\ pc'[p] \in {"incr", "expire"} => at'[p] <= now'
  BY <1>0, <1>2 DEF TypeOK, ClockIsFresh, Lookup, LookupFails, GetClient, Route, Goto, Answer,
     LetPass, Before
<1>3. ASSUME NEW q \in Requests, Incr(q) \/ Expire(q) \/ CallRaises(q)
      PROVE  /\ pc'[p] \in Before => verdict'[p] = "none"
             /\ pc'[p] \in {"incr", "expire"} => at'[p] <= now'
  BY <1>0, <1>3 DEF TypeOK, ClockIsFresh, Incr, Expire, CallRaises, Goto, Answer, LetPass, Before
<1>4. CASE Tick
  BY <1>0, <1>4 DEF TypeOK, ClockIsFresh, Tick, requestVars, Before
<1>5. CASE ApiRestarts
  BY <1>5 DEF TypeOK, ClockIsFresh, ApiRestarts, Before
<1>6. CASE \/ \E k \in DbKeys : CreateKey(k) \/ DeactivateKey(k)
           \/ RedisStops \/ RedisStarts \/ UNCHANGED vars
  BY <1>6 DEF ClockIsFresh, CreateKey, DeactivateKey, RedisStops, RedisStarts, requestVars, vars
<1> QED
  BY <1>1, <1>2, <1>3, <1>4, <1>5, <1>6 DEF Next

LEMMA RouteStaysReached ==
    ASSUME TypeOK, ClockIsFresh, RouteIsReached, WritesPassBothChecks, [Next]_vars
    PROVE  RouteIsReached' /\ WritesPassBothChecks'
<1> SUFFICES ASSUME NEW p \in Requests
             PROVE  /\ pc'[p] = "route" => read'[p] \/ verdict'[p] \in {"counted", "open"}
                    /\ p \in performed' => /\ pc'[p] = "done"
                                          /\ \/ read'[p]
                                             \/ key'[p] = Admin /\ verdict'[p] \in {"counted", "open"}
  <2>1. performed' \subseteq Requests
    BY StepTyped DEF TypeOK
  <2> QED
    BY <2>1 DEF RouteIsReached, WritesPassBothChecks
<1> DEFINE Goal == /\ pc'[p] = "route" => read'[p] \/ verdict'[p] \in {"counted", "open"}
                   /\ p \in performed' => /\ pc'[p] = "done"
                                         /\ \/ read'[p]
                                            \/ key'[p] = Admin /\ verdict'[p] \in {"counted", "open"}
<1>0. /\ pc[p] = "route" => read[p] \/ verdict[p] \in {"counted", "open"}
      /\ p \in performed => /\ pc[p] = "done"
                            /\ read[p] \/ (key[p] = Admin /\ verdict[p] \in {"counted", "open"})
  BY DEF RouteIsReached, WritesPassBothChecks
<1>1. ASSUME NEW q \in Requests, NEW k \in Keys, NEW r \in BOOLEAN, Arrive(q, k, r)
      PROVE  Goal
  BY <1>0, <1>1 DEF TypeOK, Arrive, Goto, Answer
<1>2. ASSUME NEW q \in Requests,
             \/ Lookup(q) \/ LookupFails(q) \/ GetClient(q)
             \/ Incr(q) \/ Expire(q) \/ CallRaises(q)
      PROVE  Goal
  BY <1>0, <1>2 DEF TypeOK, Lookup, LookupFails, GetClient, Incr, Expire, CallRaises, Goto, Answer,
     LetPass
<1>3. ASSUME NEW q \in Requests, Route(q) PROVE Goal
  BY <1>0, <1>3 DEF TypeOK, Route, Goto, Verified
<1>4. CASE ApiRestarts
  BY <1>0, <1>4 DEF TypeOK, ApiRestarts
<1>5. CASE \/ \E k \in DbKeys : CreateKey(k) \/ DeactivateKey(k)
           \/ Tick \/ RedisStops \/ RedisStarts \/ UNCHANGED vars
  BY <1>0, <1>5 DEF CreateKey, DeactivateKey, Tick, RedisStops, RedisStarts, requestVars, vars
<1> QED
  BY <1>1, <1>2, <1>3, <1>4, <1>5 DEF Next

\* A write is performed for the admin key only, and only after the limiter has
\* let it pass: for any requests and failures.
THEOREM WritesAlwaysPassBothChecks == Spec => []WritesPassBothChecks
<1> DEFINE Inv == TypeOK /\ ClockIsFresh /\ RouteIsReached /\ WritesPassBothChecks
<1>1. Init => Inv
  BY InitTyped DEF Init, ClockIsFresh, RouteIsReached, WritesPassBothChecks
<1>2. Inv /\ [Next]_vars => Inv'
  BY StepTyped, ClockStaysFresh, RouteStaysReached
<1> QED
  BY <1>1, <1>2, PTL DEF Spec

-----------------------------------------------------------------------------
(***************************************************************************)
(* Counters that are left in Redis.                                        *)
(***************************************************************************)

DownByFault == redisUp \/ faults > 0

LEMMA FaultsAreCounted ==
    ASSUME TypeOK, DownByFault, [Next]_vars
    PROVE  faults <= faults' /\ DownByFault'
<1>0. faults \in Nat
  BY DEF TypeOK
<1>1. ASSUME NEW q \in Requests, CallRaises(q) PROVE faults <= faults' /\ DownByFault'
  BY <1>0, <1>1 DEF CallRaises, DownByFault
<1>2. ASSUME NEW q \in Requests, Lookup(q) \/ LookupFails(q) \/ GetClient(q) \/ Route(q)
      PROVE  faults <= faults' /\ DownByFault'
  BY <1>0, <1>2 DEF Lookup, LookupFails, GetClient, Route, redisVars, DownByFault
<1>3. ASSUME NEW q \in Requests, NEW k \in Keys, NEW r \in BOOLEAN, Arrive(q, k, r)
      PROVE  faults <= faults' /\ DownByFault'
  BY <1>0, <1>3 DEF Arrive, redisVars, DownByFault
<1>4. ASSUME NEW q \in Requests, Incr(q) \/ Expire(q) PROVE faults <= faults' /\ DownByFault'
  BY <1>0, <1>4 DEF Incr, Expire, DownByFault
<1>5. CASE \/ \E k \in DbKeys : CreateKey(k) \/ DeactivateKey(k)
           \/ Tick \/ RedisStops \/ RedisStarts \/ ApiRestarts \/ UNCHANGED vars
  BY <1>0, <1>5 DEF CreateKey, DeactivateKey, Tick, RedisStops, RedisStarts, ApiRestarts,
     redisVars, vars, DownByFault
<1> QED
  BY <1>1, <1>2, <1>3, <1>4, <1>5 DEF Next

\* The request that will set the EXPIRE of a counter is lost by a fault only.
LEMMA CountersStillExpire ==
    ASSUME TypeOK, DownByFault, CountersExpire, [Next]_vars
    PROVE  CountersExpire'
<1> SUFFICES ASSUME faults' = 0, NEW b \in Buckets, NEW w \in Windows,
                    hits'[b][w] > 0, expiry'[b][w] = Never
             PROVE  \E q \in Requests :
                      pc'[q] = "expire" /\ key'[q] = b /\ WindowOf(at'[q]) = w
  BY DEF CountersExpire, WindowOf
<1> DEFINE Waits(q) == pc[q] = "expire" /\ key[q] = b /\ WindowOf(at[q]) = w
           Goal == \E q \in Requests :
                     pc'[q] = "expire" /\ key'[q] = b /\ WindowOf(at'[q]) = w
<1>0. now \in Nat /\ faults = 0 /\ redisUp /\ hits[b][w] \in Nat
  <2>1. faults \in Nat /\ now \in Nat /\ hits[b][w] \in Nat
    BY DEF TypeOK
  <2>2. faults <= faults'
    BY FaultsAreCounted
  <2> QED
    BY <2>1, <2>2 DEF DownByFault
<1>1. ASSUME hits[b][w] > 0, expiry[b][w] = Never PROVE \E q \in Requests : Waits(q)
  BY <1>0, <1>1 DEF CountersExpire
<1>2. ASSUME NEW p \in Requests, Waits(p), Next, pc'[p] = "expire" PROVE Goal
  BY <1>2, RequestsKeepTheirKeys
<1>3. ASSUME NEW q \in Requests, NEW k \in Keys, NEW r \in BOOLEAN, Arrive(q, k, r) PROVE Goal
  <2>1. PICK p \in Requests : Waits(p)
    BY <1>1, <1>3 DEF Arrive, redisVars
  <2>2. pc'[p] = "expire" /\ Next
    BY <1>3, <2>1 DEF TypeOK, Arrive, Goto, Answer, Next
  <2> QED
    BY <1>2, <2>1, <2>2
<1>4. ASSUME NEW q \in Requests, Lookup(q) \/ LookupFails(q) \/ GetClient(q) \/ Route(q) PROVE Goal
  <2>1. PICK p \in Requests : Waits(p)
    BY <1>1, <1>4 DEF Lookup, LookupFails, GetClient, Route, redisVars
  <2>2. pc'[p] = "expire"
    BY <1>4, <2>1 DEF TypeOK, Lookup, LookupFails, GetClient, Route, Goto, Answer, LetPass
  <2>3. Next
    BY <1>4 DEF Next
  <2> QED
    BY <1>2, <2>1, <2>2, <2>3
<1>5. ASSUME NEW q \in Requests, Incr(q) PROVE Goal
  <2> DEFINE v == WindowOf(at[q])
  <2>1. pc[q] = "incr" /\ key[q] \in Buckets /\ v \in Windows /\ expiry' = expiry
    BY <1>5, WindowInWindows DEF TypeOK, Incr
  <2>2. hits' = [hits EXCEPT ![key[q]][v] = hits[key[q]][v] + 1]
    BY <1>5 DEF Incr, Bucket
  <2>3. CASE key[q] = b /\ v = w /\ hits[b][w] = 0
    <3>1. pc' = [pc EXCEPT ![q] = "expire"] /\ key' = key /\ at' = at
      BY <1>5, <2>3 DEF Incr, Bucket, FirstHit, Goto
    <3> QED
      BY <2>3, <3>1 DEF TypeOK
  <2>4. CASE ~(key[q] = b /\ v = w /\ hits[b][w] = 0)
    <3>1. hits[b][w] > 0
      <4>1. CASE key[q] = b /\ v = w
        BY <1>0, <2>4, <4>1
      <4>2. CASE ~(key[q] = b /\ v = w)
        <5>1. hits'[b][w] = hits[b][w]
          BY <2>1, <2>2, <4>2 DEF TypeOK
        <5> QED
          BY <5>1
      <4> QED
        BY <4>1, <4>2
    <3>2. PICK p \in Requests : Waits(p)
      BY <1>1, <2>1, <3>1
    <3>3. pc'[p] = "expire"
      BY <1>5, <2>1, <3>2 DEF TypeOK, Incr, Goto, LetPass, Answer
    <3>4. Next
      BY <1>5 DEF Next
    <3> QED
      BY <1>2, <3>2, <3>3, <3>4
  <2> QED
    BY <2>3, <2>4
<1>6. ASSUME NEW q \in Requests, Expire(q) PROVE Goal
  <2> DEFINE v == WindowOf(at[q])
  <2>1. key[q] \in Buckets /\ v \in Windows /\ hits' = hits
    BY <1>6, WindowInWindows DEF TypeOK, Expire
  <2>2. expiry' = IF hits[key[q]][v] > 0 THEN [expiry EXCEPT ![key[q]][v] = now + Ttl] ELSE expiry
    BY <1>6 DEF Expire, Bucket
  <2>3. ~(key[q] = b /\ v = w)
    <3>1. SUFFICES ASSUME key[q] = b, v = w PROVE FALSE
      OBVIOUS
    <3>2. expiry'[b][w] = now + Ttl
      BY <2>1, <2>2, <3>1 DEF TypeOK
    <3> QED
      BY <1>0, <3>2, WindowAssumption DEF Ttl, Never
  <2>4. expiry[b][w] = Never
    BY <2>1, <2>2, <2>3 DEF TypeOK
  <2>5. PICK p \in Requests : Waits(p)
    BY <1>1, <2>1, <2>4
  <2>6. pc'[p] = "expire"
    BY <1>6, <2>3, <2>5 DEF TypeOK, Expire, Goto, LetPass, Answer
  <2>7. Next
    BY <1>6 DEF Next
  <2> QED
    BY <1>2, <2>5, <2>6, <2>7
<1>7. ASSUME NEW q \in Requests, CallRaises(q) PROVE Goal
  BY <1>0, <1>7 DEF CallRaises
<1>8. CASE Tick
  <2>1. hits[b][w] > 0 /\ expiry[b][w] = Never
    <3>1. hits'[b][w] = (IF expiry[b][w] = now + 1 THEN 0 ELSE hits[b][w])
      BY <1>8 DEF Tick
    <3>2. expiry'[b][w] = (IF expiry[b][w] = now + 1 THEN Never ELSE expiry[b][w])
      BY <1>8 DEF Tick
    <3> QED
      BY <3>1, <3>2
  <2>2. PICK p \in Requests : Waits(p)
    BY <1>1, <2>1
  <2> QED
    BY <1>2, <1>8, <2>2 DEF Tick, requestVars, Next
<1>9. CASE RedisStops \/ RedisStarts \/ ApiRestarts
  BY <1>0, <1>9 DEF RedisStops, RedisStarts, ApiRestarts
<1>10. CASE (\E k \in DbKeys : CreateKey(k) \/ DeactivateKey(k)) \/ UNCHANGED vars
  <2>1. /\ hits' = hits /\ expiry' = expiry
        /\ pc' = pc /\ key' = key /\ at' = at
    BY <1>10 DEF CreateKey, DeactivateKey, redisVars, requestVars, vars
  <2> QED
    BY <1>1, <2>1
<1> QED
  BY <1>3, <1>4, <1>5, <1>6, <1>7, <1>8, <1>9, <1>10 DEF Next

\* Without failures every counter in Redis expires, or a request is about to see
\* to it.
THEOREM CountersAlwaysExpire == Spec => []CountersExpire
<1> DEFINE Inv == TypeOK /\ DownByFault /\ CountersExpire
<1>1. Init => Inv
  <2>1. SUFFICES ASSUME Init PROVE CountersExpire
    BY InitTyped DEF Init, DownByFault
  <2>2. \A b \in Buckets, w \in Windows : ~(hits[b][w] > 0)
    BY <2>1 DEF Init
  <2> QED
    BY <2>2 DEF CountersExpire
<1>2. Inv /\ [Next]_vars => Inv'
  BY StepTyped, FaultsAreCounted, CountersStillExpire
<1> QED
  BY <1>1, <1>2, PTL DEF Spec
-----------------------------------------------------------------------------
(***************************************************************************)
(* Counters and the requests they have counted.                            *)
(***************************************************************************)

\* Requests that the counter of a bucket and window lets pass, or has let pass,
\* and that were not overdue at their INCR.
Counting(b, w) ==
    {q \in Requests \ late : /\ key[q] = b /\ WindowOf(at[q]) = w
                             /\ \/ pc[q] = "expire"
                                \/ pc[q] \in {"route", "done"} /\ verdict[q] = "counted"}

Outcomes == {"none", "counted", "open", "limited"}

\* A counter lives longer than a request of its window can meet it.
ExpiryIsLate ==
    \A b \in Buckets, w \in Windows :
        expiry[b][w] # Never => expiry[b][w] > w * Window + Window

\* As long as a request can still meet it, a counter has counted all of them.
CounterIsComplete ==
    ~dataLost =>
        \A b \in Buckets, w \in Windows :
            now <= w * Window + Window => Cardinality(Counting(b, w)) <= hits[b][w]

CountingIsBounded ==
    ~dataLost =>
        \A b \in Buckets, w \in Windows :
            LimitOf[b] > 0 => Cardinality(Counting(b, w)) <= LimitOf[b]

NothingWithinZero ==
    \A q \in Requests :
        verdict[q] = "counted" => key[q] \in Buckets /\ LimitOf[key[q]] > 0

\* Only a write comes to the limiter; a limited one is answered.
WritesAreLimited ==
    \A q \in Requests :
        /\ pc[q] \in {"lookup", "client", "incr", "expire"} => ~read[q]
        /\ verdict[q] = "limited" => ~read[q] /\ pc[q] = "done" /\ key[q] \in Buckets

\* It has counted nothing else.
CounterIsOwn ==
    \A b \in Buckets, w \in Windows : hits[b][w] <= Cardinality(Charged(b, w, Outcomes))

LEMMA CountingFinite ==
    ASSUME NEW b, NEW w
    PROVE  /\ IsFiniteSet(Counting(b, w)) /\ Cardinality(Counting(b, w)) \in Nat
           /\ IsFiniteSet(Charged(b, w, Outcomes)) /\ Cardinality(Charged(b, w, Outcomes)) \in Nat
<1>1. Counting(b, w) \subseteq Requests /\ Charged(b, w, Outcomes) \subseteq Requests
  BY DEF Counting, Charged
<1> QED
  BY <1>1, KeysAssumption, FS_Subset, FS_CardinalityType

\* The window of a request at the counter has begun.
LEMMA WindowIsOpen ==
    ASSUME TypeOK, ClockIsFresh, NEW q \in Requests, pc[q] \in {"incr", "expire"}
    PROVE  /\ key[q] \in Buckets /\ WindowOf(at[q]) \in Windows
           /\ WindowOf(at[q]) * Window <= now
<1> DEFINE u == WindowOf(at[q])
<1>1. key[q] \in Buckets /\ u \in Windows /\ at[q] \in Nat /\ now \in Nat
  BY WindowInWindows DEF TypeOK
<1>2. u \in Nat /\ Window \in Nat /\ u * Window \in Nat
  BY <1>1, WindowAssumption DEF Windows
<1>3. u * Window <= at[q] /\ at[q] <= now
  BY <1>1, InWindow DEF ClockIsFresh
<1> HIDE DEF u
<1>4. u * Window <= now
  BY <1>1, <1>2, <1>3
<1> QED
  BY <1>1, <1>4 DEF u

\* A request that came too late stays marked.
LEMMA LateStaysLate ==
    ASSUME [Next]_vars
    PROVE  late \subseteq late'
<1>1. ASSUME NEW q \in Requests, NEW k \in Keys, NEW r \in BOOLEAN, Arrive(q, k, r)
      PROVE  late \subseteq late'
  BY <1>1 DEF Arrive
<1>2. ASSUME NEW q \in Requests,
             \/ Lookup(q) \/ LookupFails(q) \/ GetClient(q)
             \/ Incr(q) \/ Expire(q) \/ CallRaises(q) \/ Route(q)
      PROVE  late \subseteq late'
  BY <1>2 DEF Lookup, LookupFails, GetClient, Incr, Expire, CallRaises, Route
<1>3. CASE \/ \E k \in DbKeys : CreateKey(k) \/ DeactivateKey(k)
           \/ Tick \/ RedisStops \/ RedisStarts \/ ApiRestarts \/ UNCHANGED vars
  BY <1>3 DEF CreateKey, DeactivateKey, Tick, RedisStops, RedisStarts, ApiRestarts, vars
<1> QED
  BY <1>1, <1>2, <1>3 DEF Next

\* Only an INCR adds to the requests a counter lets pass.
LEMMA CountingGrowsByIncr ==
    ASSUME TypeOK, ClockIsFresh, [Next]_vars, NEW b \in Buckets, NEW w \in Windows
    PROVE  \A p \in Counting(b, w)' \ Counting(b, w) :
               Incr(p) /\ key[p] = b /\ WindowOf(at[p]) = w
<1> SUFFICES ASSUME NEW p \in Requests, p \in Counting(b, w)', p \notin Counting(b, w)
             PROVE  Incr(p) /\ key[p] = b /\ WindowOf(at[p]) = w
  BY DEF Counting
<1> DEFINE Goal == Incr(p) /\ key[p] = b /\ WindowOf(at[p]) = w
<1>0. /\ key'[p] = b /\ WindowOf(at'[p]) = w
      /\ pc'[p] = "expire" \/ (pc'[p] \in {"route", "done"} /\ verdict'[p] = "counted")
      /\ ~(/\ key[p] = b /\ WindowOf(at[p]) = w
           /\ pc[p] = "expire" \/ (pc[p] \in {"route", "done"} /\ verdict[p] = "counted"))
  BY LateStaysLate DEF Counting, WindowOf
<1>1. ASSUME NEW q \in Requests, NEW k \in Keys, NEW r \in BOOLEAN, Arrive(q, k, r) PROVE Goal
  BY <1>0, <1>1 DEF TypeOK, Arrive, Goto, Answer, ClockIsFresh, Before
<1>2. ASSUME NEW q \in Requests, Lookup(q) \/ LookupFails(q) \/ GetClient(q) \/ Route(q) PROVE Goal
  BY <1>0, <1>2 DEF TypeOK, Lookup, LookupFails, GetClient, Route, Goto, Answer, LetPass,
     ClockIsFresh, Before
<1>3. ASSUME NEW q \in Requests, Incr(q) PROVE Goal
  BY <1>0, <1>3 DEF TypeOK, Incr, Goto, Answer, LetPass
<1>4. ASSUME NEW q \in Requests, Expire(q) \/ CallRaises(q) PROVE Goal
  BY <1>0, <1>4 DEF TypeOK, Expire, CallRaises, Goto, Answer, LetPass
<1>5. CASE ApiRestarts
  BY <1>0, <1>5 DEF TypeOK, ApiRestarts
<1>6. CASE \/ \E k \in DbKeys : CreateKey(k) \/ DeactivateKey(k)
           \/ Tick \/ RedisStops \/ RedisStarts \/ UNCHANGED vars
  BY <1>0, <1>6 DEF CreateKey, DeactivateKey, Tick, RedisStops, RedisStarts, requestVars, vars
<1> QED
  BY <1>1, <1>2, <1>3, <1>4, <1>5, <1>6 DEF Next

\* What an INCR does to a counter.
LEMMA IncrCounts ==
    ASSUME TypeOK, NEW q \in Requests, Incr(q), NEW b \in Buckets, NEW w \in Windows
    PROVE  IF key[q] = b /\ WindowOf(at[q]) = w THEN hits'[b][w] = hits[b][w] + 1
                                                ELSE hits'[b][w] = hits[b][w]
<1>1. key[q] \in Buckets /\ WindowOf(at[q]) \in Windows
  BY WindowInWindows DEF TypeOK, Incr
<1>2. hits' = [hits EXCEPT ![key[q]][WindowOf(at[q])] = hits[key[q]][WindowOf(at[q])] + 1]
  BY DEF Incr, Bucket
<1>3. hits \in [Buckets -> [Windows -> Nat]]
  BY DEF TypeOK
<1> QED
  BY <1>1, <1>2, <1>3

\* Two requests do not take a step at once.
LEMMA IncrIsAlone ==
    ASSUME TypeOK, NEW p \in Requests, NEW q \in Requests, Incr(p), Incr(q)
    PROVE  p = q
  BY DEF TypeOK, Incr, Goto, LetPass, Answer

\* No step but an INCR and a loss of data lowers a counter of an open window.
LEMMA CountersAreKept ==
    ASSUME TypeOK, ExpiryIsLate, [Next]_vars, NEW b \in Buckets, NEW w \in Windows,
           ~dataLost', now' <= w * Window + Window
    PROVE  /\ ~dataLost /\ now <= w * Window + Window
           /\ hits[b][w] <= hits'[b][w]
<1>0. /\ hits[b][w] \in Nat /\ now \in Nat /\ w * Window + Window \in Nat
      /\ expiry[b][w] # Never => expiry[b][w] > w * Window + Window
  <2>1. w \in Nat /\ Window \in Nat
    BY WindowAssumption DEF Windows
  <2>2. w * Window + Window \in Nat
    BY <2>1
  <2> QED
    BY <2>2 DEF TypeOK, ExpiryIsLate
<1> DEFINE End == w * Window + Window
           Goal == ~dataLost /\ now <= End /\ hits[b][w] <= hits'[b][w]
<1> HIDE DEF End
<1>00. /\ hits[b][w] \in Nat /\ now \in Nat /\ End \in Nat /\ now' <= End
       /\ expiry[b][w] # Never => expiry[b][w] > End
  BY <1>0 DEF End
<1>1. ASSUME NEW q \in Requests, NEW k \in Keys, NEW r \in BOOLEAN, Arrive(q, k, r) PROVE Goal
  BY <1>00, <1>1 DEF Arrive, redisVars
<1>2. ASSUME NEW q \in Requests, Lookup(q) \/ LookupFails(q) \/ GetClient(q) \/ Route(q) PROVE Goal
  BY <1>00, <1>2 DEF Lookup, LookupFails, GetClient, Route, redisVars
<1>3. ASSUME NEW q \in Requests, Incr(q) PROVE Goal
  <2>1. hits[b][w] <= hits'[b][w]
    BY <1>00, <1>3, IncrCounts
  <2> QED
    BY <1>00, <1>3, <2>1 DEF Incr
<1>4. ASSUME NEW q \in Requests, Expire(q) PROVE Goal
  BY <1>00, <1>4 DEF Expire
<1>5. ASSUME NEW q \in Requests, CallRaises(q) PROVE Goal
  <2>1. hits[b][w] <= hits'[b][w]
    <3>1. CASE hits' = hits
      BY <1>00, <3>1
    <3>2. CASE hits' # hits
      <4>1. hits' = [hits EXCEPT ![key[q]][WindowOf(at[q])] = hits[key[q]][WindowOf(at[q])] + 1]
        BY <1>5, <3>2 DEF CallRaises, Bucket
      <4>2. key[q] \in Buckets /\ WindowOf(at[q]) \in Windows
        BY <1>5, WindowInWindows DEF TypeOK, CallRaises
      <4>3. hits \in [Buckets -> [Windows -> Nat]]
        BY DEF TypeOK
      <4> QED
        BY <4>1, <4>2, <4>3
    <3> QED
      BY <3>1, <3>2
  <2> QED
    BY <1>00, <1>5, <2>1 DEF CallRaises
<1>6. ASSUME Tick PROVE Goal
  <2>1. hits'[b][w] = (IF expiry[b][w] = now + 1 THEN 0 ELSE hits[b][w]) /\ now' = now + 1
    BY <1>6 DEF Tick
  <2>2. expiry[b][w] # now + 1
    BY <1>00, <2>1 DEF Never
  <2> QED
    BY <1>00, <1>6, <2>1, <2>2 DEF Tick
<1>7. ASSUME RedisStops \/ ApiRestarts PROVE Goal
  BY <1>00, <1>7 DEF RedisStops, ApiRestarts, redisVars
<1>8. ASSUME RedisStarts PROVE Goal
  BY <1>00, <1>8 DEF RedisStarts
<1>9. ASSUME (\E k \in DbKeys : CreateKey(k) \/ DeactivateKey(k)) \/ UNCHANGED vars PROVE Goal
  BY <1>00, <1>9 DEF CreateKey, DeactivateKey, redisVars, vars
<1>10. Goal
  BY <1>1, <1>2, <1>3, <1>4, <1>5, <1>6, <1>7, <1>8, <1>9 DEF Next
<1> QED
  BY <1>10 DEF End

LEMMA ExpiryStaysLate ==
    ASSUME TypeOK, ClockIsFresh, ExpiryIsLate, [Next]_vars
    PROVE  ExpiryIsLate'
<1> SUFFICES ASSUME NEW b \in Buckets, NEW w \in Windows, expiry'[b][w] # Never
             PROVE  expiry'[b][w] > w * Window + Window
  BY DEF ExpiryIsLate
<1> DEFINE Goal == expiry'[b][w] > w * Window + Window
<1>0. expiry[b][w] # Never => expiry[b][w] > w * Window + Window
  BY DEF ExpiryIsLate
<1>1. CASE expiry' = expiry
  BY <1>0, <1>1
<1>2. ASSUME NEW q \in Requests, pc[q] = "expire",
             expiry' = [expiry EXCEPT ![key[q]][WindowOf(at[q])] = now + Ttl]
      PROVE  Goal
  <2> DEFINE u == WindowOf(at[q])
  <2>1. key[q] \in Buckets /\ u \in Windows /\ u * Window <= now
    BY <1>2, WindowIsOpen
  <2>2. CASE key[q] = b /\ u = w
    <3>1. expiry'[b][w] = now + Ttl
      BY <1>2, <2>1, <2>2 DEF TypeOK
    <3>2. u * Window \in Nat /\ Window \in Nat /\ now \in Nat
      BY <2>1, WindowAssumption DEF Windows, TypeOK
    <3> HIDE DEF u
    <3>3. now + Ttl > u * Window + Window
      BY <2>1, <3>2 DEF Ttl
    <3> QED
      BY <2>2, <3>1, <3>3
  <2>3. CASE ~(key[q] = b /\ u = w)
    <3>1. expiry'[b][w] = expiry[b][w]
      BY <1>2, <2>1, <2>3 DEF TypeOK
    <3> QED
      BY <1>0, <3>1
  <2> QED
    BY <2>2, <2>3
<1>3. ASSUME NEW q \in Requests, Expire(q) PROVE Goal
  <2>1. expiry' = expiry \/ expiry' = [expiry EXCEPT ![key[q]][WindowOf(at[q])] = now + Ttl]
    BY <1>3 DEF Expire, Bucket
  <2> QED
    BY <1>1, <1>2, <1>3, <2>1 DEF Expire
<1>4. ASSUME NEW q \in Requests, CallRaises(q) PROVE Goal
  <2>1. \/ expiry' = expiry
        \/ pc[q] = "expire" /\ expiry' = [expiry EXCEPT ![key[q]][WindowOf(at[q])] = now + Ttl]
    BY <1>4 DEF CallRaises, Bucket
  <2> QED
    BY <1>1, <1>2, <2>1
<1>5. CASE Tick
  <2>1. expiry'[b][w] = (IF expiry[b][w] = now + 1 THEN Never ELSE expiry[b][w])
    BY <1>5 DEF Tick
  <2> QED
    BY <1>0, <2>1
<1>6. CASE RedisStarts
  <2>1. expiry' = expiry \/ expiry' = [c \in Buckets |-> [v \in Windows |-> Never]]
    BY <1>6 DEF RedisStarts
  <2>2. expiry' # [c \in Buckets |-> [v \in Windows |-> Never]]
    OBVIOUS
  <2> QED
    BY <1>1, <2>1, <2>2
<1>7. ASSUME NEW q \in Requests, NEW k \in Keys, NEW r \in BOOLEAN, Arrive(q, k, r)
      PROVE  expiry' = expiry
  BY <1>7 DEF Arrive, redisVars
<1>8. ASSUME NEW q \in Requests,
             Lookup(q) \/ LookupFails(q) \/ GetClient(q) \/ Incr(q) \/ Route(q)
      PROVE  expiry' = expiry
  BY <1>8 DEF Lookup, LookupFails, GetClient, Incr, Route, redisVars
<1>9. ASSUME \/ \E k \in DbKeys : CreateKey(k) \/ DeactivateKey(k)
             \/ RedisStops \/ ApiRestarts \/ UNCHANGED vars
      PROVE  expiry' = expiry
  BY <1>9 DEF CreateKey, DeactivateKey, RedisStops, ApiRestarts, redisVars, vars
<1> QED
  BY <1>1, <1>3, <1>4, <1>5, <1>6, <1>7, <1>8, <1>9 DEF Next
LEMMA LossIsRemembered ==
    ASSUME [Next]_vars, ~dataLost'
    PROVE  ~dataLost
<1>1. ASSUME NEW q \in Requests, NEW k \in Keys, NEW r \in BOOLEAN, Arrive(q, k, r)
      PROVE  ~dataLost
  BY <1>1 DEF Arrive
<1>2. ASSUME NEW q \in Requests,
             \/ Lookup(q) \/ LookupFails(q) \/ GetClient(q)
             \/ Incr(q) \/ Expire(q) \/ CallRaises(q) \/ Route(q)
      PROVE  ~dataLost
  BY <1>2 DEF Lookup, LookupFails, GetClient, Incr, Expire, CallRaises, Route
<1>3. CASE \/ \E k \in DbKeys : CreateKey(k) \/ DeactivateKey(k)
           \/ Tick \/ RedisStops \/ RedisStarts \/ ApiRestarts \/ UNCHANGED vars
  BY <1>3 DEF CreateKey, DeactivateKey, Tick, RedisStops, RedisStarts, ApiRestarts, vars
<1> QED
  BY <1>1, <1>2, <1>3 DEF Next

\* One INCR adds one request at most.
LEMMA CountingGrowsByOne ==
    ASSUME TypeOK, ClockIsFresh, [Next]_vars, NEW b \in Buckets, NEW w \in Windows,
           NEW p \in Counting(b, w)', p \notin Counting(b, w)
    PROVE  /\ p \in Requests /\ Incr(p) /\ key[p] = b /\ WindowOf(at[p]) = w
           /\ Cardinality(Counting(b, w)') <= Cardinality(Counting(b, w)) + 1
           /\ hits'[b][w] = hits[b][w] + 1
<1> DEFINE old == Counting(b, w)  new == Counting(b, w)'
<1>1. old \subseteq Requests /\ new \subseteq Requests
  BY DEF Counting
<1>2. Incr(p) /\ key[p] = b /\ WindowOf(at[p]) = w
  BY CountingGrowsByIncr
<1>3. new \subseteq old \cup {p}
  <2>1. \A r \in new : r \notin old => r = p
    BY <1>1, <1>2, CountingGrowsByIncr, IncrIsAlone
  <2> QED
    BY <2>1
<1>4. IsFiniteSet(old) /\ Cardinality(old) \in Nat /\ p \notin old
  BY CountingFinite
<1>5. IsFiniteSet(old \cup {p}) /\ Cardinality(old \cup {p}) = Cardinality(old) + 1
  BY <1>4, FS_AddElement
<1>6. Cardinality(new) <= Cardinality(old \cup {p})
  BY <1>3, <1>5, FS_Subset
<1>7. hits'[b][w] = hits[b][w] + 1
  BY <1>1, <1>2, IncrCounts
<1> QED
  BY <1>1, <1>2, <1>5, <1>6, <1>7

LEMMA CountersStayComplete ==
    ASSUME TypeOK, ClockIsFresh, ExpiryIsLate, CounterIsComplete, [Next]_vars
    PROVE  CounterIsComplete'
<1> SUFFICES ASSUME ~dataLost', NEW b \in Buckets, NEW w \in Windows,
                    now' <= w * Window + Window
             PROVE  Cardinality(Counting(b, w)') <= hits'[b][w]
  BY DEF CounterIsComplete
<1> DEFINE old == Counting(b, w)  new == Counting(b, w)'
<1>1. ~dataLost /\ now <= w * Window + Window /\ hits[b][w] <= hits'[b][w]
  BY CountersAreKept
<1>2. Cardinality(old) <= hits[b][w]
  BY <1>1 DEF CounterIsComplete
<1>3. hits[b][w] \in Nat /\ hits'[b][w] \in Nat
  BY StepTyped DEF TypeOK
<1>4. IsFiniteSet(old) /\ Cardinality(old) \in Nat
  BY CountingFinite
<1>5. IsFiniteSet(new) /\ Cardinality(new) \in Nat
  <2>1. new \subseteq Requests
    BY DEF Counting
  <2> QED
    BY <2>1, KeysAssumption, FS_Subset, FS_CardinalityType
<1>6. CASE new \subseteq old
  <2>1. Cardinality(new) <= Cardinality(old)
    BY <1>4, <1>6, FS_Subset
  <2> QED
    BY <1>1, <1>2, <1>3, <1>4, <1>5, <2>1
<1>7. ASSUME NEW p \in new, p \notin old
      PROVE  Cardinality(new) <= hits'[b][w]
  <2>1. Cardinality(new) <= Cardinality(old) + 1 /\ hits'[b][w] = hits[b][w] + 1
    BY <1>7, CountingGrowsByOne
  <2> QED
    BY <1>2, <1>3, <1>4, <1>5, <2>1
<1> QED
  BY <1>6, <1>7

LEMMA CountingStaysBounded ==
    ASSUME TypeOK, ClockIsFresh, CounterIsComplete, CountingIsBounded, [Next]_vars
    PROVE  CountingIsBounded'
<1> SUFFICES ASSUME ~dataLost', NEW b \in Buckets, NEW w \in Windows, LimitOf[b] > 0
             PROVE  Cardinality(Counting(b, w)') <= LimitOf[b]
  BY DEF CountingIsBounded
<1> DEFINE old == Counting(b, w)  new == Counting(b, w)'
<1>1. ~dataLost
  BY LossIsRemembered
<1>2. Cardinality(old) <= LimitOf[b] /\ LimitOf[b] \in Nat
  BY <1>1, WindowAssumption DEF CountingIsBounded
<1>3. IsFiniteSet(old) /\ Cardinality(old) \in Nat
  BY CountingFinite
<1>4. IsFiniteSet(new) /\ Cardinality(new) \in Nat
  <2>1. new \subseteq Requests
    BY DEF Counting
  <2> QED
    BY <2>1, KeysAssumption, FS_Subset, FS_CardinalityType
<1>5. CASE new \subseteq old
  <2>1. Cardinality(new) <= Cardinality(old)
    BY <1>3, <1>5, FS_Subset
  <2> QED
    BY <1>2, <1>3, <1>4, <2>1
<1>6. ASSUME NEW p \in new, p \notin old
      PROVE  Cardinality(new) <= LimitOf[b]
  <2>1. /\ p \in Requests /\ Incr(p) /\ key[p] = b /\ WindowOf(at[p]) = w
        /\ Cardinality(new) <= Cardinality(old) + 1
    BY <1>6, CountingGrowsByOne
  <2>2. now <= w * Window + Window
    <3>1. p \notin late'
      BY <1>6 DEF Counting
    <3>2. ~Overdue(p)
      BY <2>1, <3>1 DEF Incr
    <3>3. now \in Nat /\ w * Window + Window \in Nat
      <4>1. w \in Nat /\ Window \in Nat
        BY WindowAssumption DEF Windows
      <4>2. w * Window + Window \in Nat
        BY <4>1
      <4> QED
        BY <4>2 DEF TypeOK
    <3> QED
      BY <2>1, <3>2, <3>3 DEF Overdue
  <2>3. Cardinality(old) <= hits[b][w]
    BY <1>1, <2>2 DEF CounterIsComplete
  <2>4. hits[b][w] \in Nat
    BY DEF TypeOK
  <2>5. CASE hits[b][w] = 0
    BY <1>2, <1>3, <1>4, <2>1, <2>3, <2>5
  <2>6. CASE hits[b][w] # 0
    <3>1. ~FirstHit(hits[b][w] + 1)
      BY <2>4, <2>6 DEF FirstHit
    <3>2. hits[b][w] + 1 <= LimitOf[b]
      <4>1. SUFFICES ASSUME ~WithinLimit(b, hits[b][w] + 1) PROVE FALSE
        BY DEF WithinLimit
      <4>2. pc'[p] = "done" /\ verdict'[p] = "limited"
        BY <2>1, <3>1, <4>1 DEF TypeOK, Incr, Bucket, Answer, Goto
      <4> QED
        BY <1>6, <4>2 DEF Counting
    <3> QED
      BY <1>2, <1>3, <1>4, <2>1, <2>3, <2>4, <3>2
  <2> QED
    BY <2>5, <2>6
<1> QED
  BY <1>5, <1>6

LEMMA NothingComesWithinZero ==
    ASSUME TypeOK, ClockIsFresh, NothingWithinZero, [Next]_vars
    PROVE  NothingWithinZero'
<1> DEFINE Goal(p) == verdict'[p] = "counted" => key'[p] \in Buckets /\ LimitOf[key'[p]] > 0
<1> SUFFICES ASSUME NEW p \in Requests PROVE Goal(p)
  BY DEF NothingWithinZero
<1>0. /\ verdict[p] = "counted" => key[p] \in Buckets /\ LimitOf[key[p]] > 0
      /\ pc[p] = "idle" => verdict[p] = "none"
  BY DEF NothingWithinZero, ClockIsFresh, Before
<1>1. ASSUME NEW q \in Requests, NEW k \in Keys, NEW r \in BOOLEAN, Arrive(q, k, r)
      PROVE  Goal(p)
  BY <1>0, <1>1 DEF TypeOK, Arrive, Goto, Answer
<1>2. ASSUME NEW q \in Requests,
             Lookup(q) \/ LookupFails(q) \/ GetClient(q) \/ CallRaises(q) \/ Route(q)
      PROVE  Goal(p)
  BY <1>0, <1>2 DEF TypeOK, Lookup, LookupFails, GetClient, CallRaises, Route, Goto, Answer, LetPass
<1>3. ASSUME NEW q \in Requests, Incr(q) PROVE Goal(p)
  <2>1. key[q] \in Buckets /\ WindowOf(at[q]) \in Windows
    BY <1>3, WindowInWindows DEF TypeOK, Incr
  <2>2. hits[key[q]][WindowOf(at[q])] \in Nat /\ LimitOf[key[q]] \in Nat
    BY <2>1, WindowAssumption DEF TypeOK
  <2>3. WithinLimit(key[q], hits[key[q]][WindowOf(at[q])] + 1) => LimitOf[key[q]] > 0
    BY <2>2 DEF WithinLimit
  <2> QED
    BY <1>0, <1>3, <2>1, <2>3 DEF TypeOK, Incr, Bucket, Goto, Answer, LetPass
<1>4. ASSUME NEW q \in Requests, Expire(q) PROVE Goal(p)
  <2>1. key[q] \in Buckets /\ LimitOf[key[q]] \in Nat
    BY <1>4, WindowAssumption DEF TypeOK, Expire
  <2>2. WithinLimit(key[q], 1) => LimitOf[key[q]] > 0
    BY <2>1 DEF WithinLimit
  <2> QED
    BY <1>0, <1>4, <2>1, <2>2 DEF TypeOK, Expire, Bucket, Goto, Answer, LetPass
<1>5. CASE ApiRestarts
  BY <1>0, <1>5 DEF TypeOK, ApiRestarts
<1>6. CASE \/ \E k \in DbKeys : CreateKey(k) \/ DeactivateKey(k)
           \/ Tick \/ RedisStops \/ RedisStarts \/ UNCHANGED vars
  BY <1>0, <1>6 DEF CreateKey, DeactivateKey, Tick, RedisStops, RedisStarts, requestVars, vars
<1> QED
  BY <1>1, <1>2, <1>3, <1>4, <1>5, <1>6 DEF Next

\* As long as Redis keeps its data, at most the limit of a key passes as counted
\* in a window of the clock: for any limits, and whatever comes between a request
\* and its INCR, of all requests whose INCR comes no later than a second after
\* the window they read off the clock.  Those that come later change nothing.
THEOREM LimitHoldsPerWindow == Spec => []WindowBound
<1> DEFINE Inv == /\ TypeOK /\ ClockIsFresh /\ ExpiryIsLate /\ CounterIsComplete
                  /\ CountingIsBounded /\ NothingWithinZero
<1>1. Init => Inv
  <2>1. SUFFICES ASSUME Init PROVE Inv
    OBVIOUS
  <2>2. ASSUME NEW b \in Buckets, NEW w \in Windows
        PROVE  Cardinality(Counting(b, w)) = 0 /\ hits[b][w] = 0
    <3>1. Counting(b, w) = {}
      BY <2>1 DEF Init, Counting
    <3> QED
      BY <2>1, <3>1, FS_EmptySet DEF Init
  <2>3. TypeOK /\ ClockIsFresh /\ ExpiryIsLate /\ NothingWithinZero
    BY <2>1, InitTyped DEF Init, ClockIsFresh, ExpiryIsLate, NothingWithinZero
  <2>4. CounterIsComplete
    BY <2>2 DEF CounterIsComplete
  <2>5. CountingIsBounded
    BY <2>2, WindowAssumption DEF CountingIsBounded
  <2> QED
    BY <2>3, <2>4, <2>5
<1>2. Inv /\ [Next]_vars => Inv'
  BY StepTyped, ClockStaysFresh, ExpiryStaysLate, CountersStayComplete, CountingStaysBounded,
     NothingComesWithinZero
<1>3. Inv => WindowBound
  <2>1. SUFFICES ASSUME Inv, ~dataLost, NEW b \in Buckets, NEW w \in Windows
                 PROVE  Cardinality(Charged(b, w, {"counted"}) \ late) <= LimitOf[b]
    BY DEF WindowBound
  <2>2. LimitOf[b] \in Nat
    BY WindowAssumption
  <2>3. CASE LimitOf[b] = 0
    <3>1. Charged(b, w, {"counted"}) \ late = {}
      BY <2>1, <2>3 DEF NothingWithinZero, Charged
    <3> QED
      BY <2>2, <3>1, FS_EmptySet
  <2>4. CASE LimitOf[b] > 0
    <3>1. Charged(b, w, {"counted"}) \ late \subseteq Counting(b, w)
      BY DEF Charged, Counting
    <3>2. Cardinality(Charged(b, w, {"counted"}) \ late) <= Cardinality(Counting(b, w))
      BY <3>1, CountingFinite, FS_Subset
    <3>3. LET S == Charged(b, w, {"counted"}) \ late IN IsFiniteSet(S) /\ Cardinality(S) \in Nat
      BY <3>1, CountingFinite, FS_Subset, FS_CardinalityType
    <3> QED
      BY <2>1, <2>2, <2>4, <3>2, <3>3, CountingFinite DEF CountingIsBounded
  <2> QED
    BY <2>2, <2>3, <2>4
<1> QED
  BY <1>1, <1>2, <1>3, PTL DEF Spec

-----------------------------------------------------------------------------
(***************************************************************************)
(* Requests that are limited.                                              *)
(***************************************************************************)

LEMMA WritesStayLimited ==
    ASSUME TypeOK, ClockIsFresh, WritesAreLimited, [Next]_vars
    PROVE  WritesAreLimited'
<1> SUFFICES ASSUME NEW p \in Requests
             PROVE  /\ pc'[p] \in {"lookup", "client", "incr", "expire"} => ~read'[p]
                    /\ verdict'[p] = "limited" => ~read'[p] /\ pc'[p] = "done" /\ key'[p] \in Buckets
  BY DEF WritesAreLimited
<1> DEFINE Goal == /\ pc'[p] \in {"lookup", "client", "incr", "expire"} => ~read'[p]
                   /\ verdict'[p] = "limited" => ~read'[p] /\ pc'[p] = "done" /\ key'[p] \in Buckets
<1>0. /\ pc[p] \in {"lookup", "client", "incr", "expire"} => ~read[p]
      /\ verdict[p] = "limited" => ~read[p] /\ pc[p] = "done" /\ key[p] \in Buckets
      /\ pc[p] = "idle" => verdict[p] = "none"
  BY DEF WritesAreLimited, ClockIsFresh, Before
<1>1. ASSUME NEW q \in Requests, NEW k \in Keys, NEW r \in BOOLEAN, Arrive(q, k, r) PROVE Goal
  BY <1>0, <1>1 DEF TypeOK, Arrive, Goto, Answer
<1>2. ASSUME NEW q \in Requests,
             \/ Lookup(q) \/ LookupFails(q) \/ GetClient(q)
             \/ Incr(q) \/ Expire(q) \/ CallRaises(q) \/ Route(q)
      PROVE  Goal
  BY <1>0, <1>2 DEF TypeOK, Lookup, LookupFails, GetClient, Incr, Expire, CallRaises, Route, Goto,
     Answer, LetPass
<1>3. ASSUME ApiRestarts PROVE Goal
  BY <1>0, <1>3 DEF TypeOK, ApiRestarts
<1>4. ASSUME \/ \E k \in DbKeys : CreateKey(k) \/ DeactivateKey(k)
             \/ Tick \/ RedisStops \/ RedisStarts \/ UNCHANGED vars
      PROVE  Goal
  BY <1>0, <1>4 DEF CreateKey, DeactivateKey, Tick, RedisStops, RedisStarts, requestVars, vars
<1> QED
  BY <1>1, <1>2, <1>3, <1>4 DEF Next

\* A request stays charged to its counter.
LEMMA ChargedIsKept ==
    ASSUME TypeOK, ClockIsFresh, [Next]_vars, NEW b, NEW w
    PROVE  Charged(b, w, Outcomes) \subseteq Charged(b, w, Outcomes)'
<1> SUFFICES ASSUME NEW p \in Requests, p \in Charged(b, w, Outcomes)
             PROVE  p \in Charged(b, w, Outcomes)'
  BY DEF Charged
<1> DEFINE Goal == pc'[p] \in {"expire", "route", "done"} /\ verdict'[p] \in Outcomes
<1>0. /\ ~read[p] /\ verdict[p] \in Outcomes /\ pc[p] \in {"expire", "route", "done"}
      /\ key[p] = b /\ WindowOf(at[p]) = w
  BY DEF Charged
<1>1. ASSUME NEW q \in Requests, NEW k \in Keys, NEW r \in BOOLEAN, Arrive(q, k, r) PROVE Goal
  BY <1>0, <1>1 DEF TypeOK, Arrive, Goto, Answer
<1>2. ASSUME NEW q \in Requests,
             \/ Lookup(q) \/ LookupFails(q) \/ GetClient(q)
             \/ Incr(q) \/ Expire(q) \/ CallRaises(q) \/ Route(q)
      PROVE  Goal
  BY <1>0, <1>2 DEF TypeOK, Lookup, LookupFails, GetClient, Incr, Expire, CallRaises, Route, Goto,
     Answer, LetPass, Outcomes
<1>3. ASSUME ApiRestarts PROVE Goal
  BY <1>0, <1>3 DEF TypeOK, ApiRestarts, Outcomes
<1>4. ASSUME \/ \E k \in DbKeys : CreateKey(k) \/ DeactivateKey(k)
             \/ Tick \/ RedisStops \/ RedisStarts \/ UNCHANGED vars
      PROVE  Goal
  BY <1>0, <1>4 DEF CreateKey, DeactivateKey, Tick, RedisStops, RedisStarts, requestVars, vars
<1>5. Goal
  BY <1>1, <1>2, <1>3, <1>4 DEF Next
<1>6. key'[p] = key[p] /\ read'[p] = read[p] /\ at'[p] = at[p]
  <2>1. CASE UNCHANGED vars
    BY <2>1 DEF vars, requestVars
  <2>2. CASE Next
    BY <1>0, <2>2, RequestsKeepTheirKeys
  <2> QED
    BY <2>1, <2>2
<1> QED
  BY <1>0, <1>5, <1>6 DEF Charged, WindowOf

\* A counter grows by one, for a request that it is charged for.
LEMMA HitsAreCharged ==
    ASSUME TypeOK, WritesAreLimited, ClockIsFresh, [Next]_vars, NEW b \in Buckets, NEW w \in Windows
    PROVE  \/ hits'[b][w] <= hits[b][w]
           \/ /\ hits'[b][w] = hits[b][w] + 1
              /\ \E q \in Charged(b, w, Outcomes)' : q \notin Charged(b, w, Outcomes)
<1> DEFINE Goal == \/ hits'[b][w] <= hits[b][w]
                   \/ /\ hits'[b][w] = hits[b][w] + 1
                      /\ \E q \in Charged(b, w, Outcomes)' : q \notin Charged(b, w, Outcomes)
<1>0. hits[b][w] \in Nat
  BY DEF TypeOK
<1>1. ASSUME hits' = hits PROVE Goal
  BY <1>0, <1>1
<1>2. ASSUME NEW q \in Requests, pc[q] = "incr", Next,
             pc'[q] \in {"expire", "route", "done"}, verdict'[q] \in Outcomes,
             hits' = [hits EXCEPT ![key[q]][WindowOf(at[q])] = hits[key[q]][WindowOf(at[q])] + 1]
      PROVE  Goal
  <2>1. key[q] \in Buckets /\ WindowOf(at[q]) \in Windows /\ ~read[q]
    BY <1>2, WindowInWindows DEF TypeOK, WritesAreLimited
  <2>2. CASE key[q] = b /\ WindowOf(at[q]) = w
    <3>1. hits'[b][w] = hits[b][w] + 1
      BY <1>2, <2>1, <2>2 DEF TypeOK
    <3>2. key'[q] = b /\ WindowOf(at'[q]) = w /\ ~read'[q]
      BY <1>2, <2>1, <2>2, RequestsKeepTheirKeys
    <3>3. q \in Charged(b, w, Outcomes)'
      BY <1>2, <3>2 DEF Charged, WindowOf
    <3>4. q \notin Charged(b, w, Outcomes)
      BY <1>2 DEF Charged
    <3> QED
      BY <3>1, <3>3, <3>4
  <2>3. CASE ~(key[q] = b /\ WindowOf(at[q]) = w)
    <3>1. hits'[b][w] = hits[b][w]
      BY <1>2, <2>1, <2>3 DEF TypeOK
    <3> QED
      BY <1>0, <3>1
  <2> QED
    BY <2>2, <2>3
<1>3. ASSUME NEW q \in Requests, Incr(q) PROVE Goal
  <2>1. /\ pc[q] = "incr" /\ pc'[q] \in {"expire", "route", "done"}
        /\ hits' = [hits EXCEPT ![key[q]][WindowOf(at[q])] = hits[key[q]][WindowOf(at[q])] + 1]
    BY <1>3 DEF TypeOK, Incr, Bucket, Goto, LetPass, Answer
  <2>2. verdict'[q] \in Outcomes
    BY <1>3 DEF TypeOK, ClockIsFresh, Before, Incr, Goto, LetPass, Answer, Outcomes
  <2>3. Next
    BY <1>3 DEF Next
  <2> QED
    BY <1>2, <2>1, <2>2, <2>3
<1>4. ASSUME NEW q \in Requests, CallRaises(q) PROVE Goal
  <2>1. pc'[q] = "route" /\ verdict'[q] \in Outcomes
    BY <1>4 DEF TypeOK, CallRaises, LetPass, Goto, Outcomes
  <2>2. \/ hits' = hits
        \/ /\ pc[q] = "incr"
           /\ hits' = [hits EXCEPT ![key[q]][WindowOf(at[q])] = hits[key[q]][WindowOf(at[q])] + 1]
    BY <1>4 DEF CallRaises, Bucket
  <2>3. Next
    BY <1>4 DEF Next
  <2> QED
    BY <1>1, <1>2, <2>1, <2>2, <2>3
<1>5. ASSUME Tick PROVE Goal
  <2>1. hits'[b][w] = IF expiry[b][w] = now + 1 THEN 0 ELSE hits[b][w]
    BY <1>5 DEF Tick
  <2> QED
    BY <1>0, <2>1
<1>6. ASSUME RedisStarts PROVE Goal
  <2>1. hits' = hits \/ hits' = [c \in Buckets |-> [v \in Windows |-> 0]]
    BY <1>6 DEF RedisStarts
  <2>2. CASE hits' = [c \in Buckets |-> [v \in Windows |-> 0]]
    <3>1. hits'[b][w] = 0
      BY <2>2
    <3> QED
      BY <1>0, <3>1
  <2> QED
    BY <1>1, <2>1, <2>2
<1>7. ASSUME NEW q \in Requests, NEW k \in Keys, NEW r \in BOOLEAN, Arrive(q, k, r)
      PROVE  hits' = hits
  BY <1>7 DEF Arrive, redisVars
<1>8. ASSUME NEW q \in Requests,
             Lookup(q) \/ LookupFails(q) \/ GetClient(q) \/ Expire(q) \/ Route(q)
      PROVE  hits' = hits
  BY <1>8 DEF Lookup, LookupFails, GetClient, Expire, Route, redisVars
<1>9. ASSUME \/ \E k \in DbKeys : CreateKey(k) \/ DeactivateKey(k)
             \/ RedisStops \/ ApiRestarts \/ UNCHANGED vars
      PROVE  hits' = hits
  BY <1>9 DEF CreateKey, DeactivateKey, RedisStops, ApiRestarts, redisVars, vars
<1> QED
  BY <1>1, <1>3, <1>4, <1>5, <1>6, <1>7, <1>8, <1>9 DEF Next

LEMMA CountersStayOwn ==
    ASSUME TypeOK, WritesAreLimited, ClockIsFresh, CounterIsOwn, [Next]_vars
    PROVE  CounterIsOwn'
<1> SUFFICES ASSUME NEW b \in Buckets, NEW w \in Windows
             PROVE  hits'[b][w] <= Cardinality(Charged(b, w, Outcomes)')
  BY DEF CounterIsOwn
<1> DEFINE old == Charged(b, w, Outcomes)  new == Charged(b, w, Outcomes)'
<1>1. hits[b][w] <= Cardinality(old) /\ hits[b][w] \in Nat /\ hits'[b][w] \in Nat
  BY StepTyped DEF CounterIsOwn, TypeOK
<1>2. IsFiniteSet(old) /\ Cardinality(old) \in Nat
  BY CountingFinite
<1>3. IsFiniteSet(new) /\ Cardinality(new) \in Nat
  <2>1. new \subseteq Requests
    BY DEF Charged
  <2> QED
    BY <2>1, KeysAssumption, FS_Subset, FS_CardinalityType
<1>4. old \subseteq new
  BY ChargedIsKept
<1>5. CASE hits'[b][w] <= hits[b][w]
  <2>1. Cardinality(old) <= Cardinality(new)
    BY <1>3, <1>4, FS_Subset
  <2> QED
    BY <1>1, <1>2, <1>3, <1>5, <2>1
<1>6. ASSUME NEW q \in new, q \notin old, hits'[b][w] = hits[b][w] + 1
      PROVE  hits'[b][w] <= Cardinality(new)
  <2>1. old \cup {q} \subseteq new
    BY <1>4, <1>6
  <2>2. Cardinality(old \cup {q}) = Cardinality(old) + 1
    BY <1>2, <1>6, FS_AddElement
  <2>3. Cardinality(old \cup {q}) <= Cardinality(new)
    BY <1>3, <2>1, FS_Subset
  <2> QED
    BY <1>1, <1>2, <1>3, <1>6, <2>2, <2>3
<1> QED
  BY <1>5, <1>6, HitsAreCharged

\* A step that limits a request finds the limit used up.
LEMMA LimitIsUsedUp ==
    ASSUME TypeOK, [Next]_vars, NEW p \in Requests,
           verdict'[p] = "limited", verdict[p] # "limited"
    PROVE  \/ pc[p] = "expire" /\ Next /\ LimitOf[key[p]] = 0
           \/ pc[p] = "incr" /\ Next /\ hits[key[p]][WindowOf(at[p])] >= LimitOf[key[p]]
<1> DEFINE Goal == \/ pc[p] = "expire" /\ Next /\ LimitOf[key[p]] = 0
                   \/ pc[p] = "incr" /\ Next /\ hits[key[p]][WindowOf(at[p])] >= LimitOf[key[p]]
<1>1. ASSUME NEW q \in Requests, NEW k \in Keys, NEW r \in BOOLEAN, Arrive(q, k, r) PROVE Goal
  BY <1>1 DEF TypeOK, Arrive, Goto, Answer
<1>2. ASSUME NEW q \in Requests,
             Lookup(q) \/ LookupFails(q) \/ GetClient(q) \/ CallRaises(q) \/ Route(q)
      PROVE  Goal
  BY <1>2 DEF TypeOK, Lookup, LookupFails, GetClient, CallRaises, Route, Goto, Answer, LetPass
<1>3. ASSUME NEW q \in Requests, Incr(q) PROVE Goal
  <2>1. key[q] \in Buckets /\ WindowOf(at[q]) \in Windows
    BY <1>3, WindowInWindows DEF TypeOK, Incr
  <2>2. q = p /\ ~WithinLimit(key[q], hits[key[q]][WindowOf(at[q])] + 1)
    BY <1>3 DEF TypeOK, Incr, Bucket, Goto, Answer, LetPass
  <2>3. hits[key[p]][WindowOf(at[p])] >= LimitOf[key[p]]
    BY <2>1, <2>2, WindowAssumption DEF TypeOK, WithinLimit
  <2> QED
    BY <1>3, <2>2, <2>3 DEF Incr, Next
<1>4. ASSUME NEW q \in Requests, Expire(q) PROVE Goal
  <2>1. q = p /\ ~WithinLimit(key[q], 1) /\ pc[q] = "expire"
    BY <1>4 DEF TypeOK, Expire, Bucket, Goto, Answer, LetPass
  <2>2. LimitOf[key[p]] \in Nat
    BY <2>1, WindowAssumption DEF TypeOK
  <2>3. LimitOf[key[p]] = 0
    BY <2>1, <2>2 DEF WithinLimit
  <2> QED
    BY <1>4, <2>1, <2>3 DEF Next
<1>5. ASSUME ApiRestarts PROVE Goal
  BY <1>5 DEF TypeOK, ApiRestarts
<1>6. ASSUME \/ \E k \in DbKeys : CreateKey(k) \/ DeactivateKey(k)
             \/ Tick \/ RedisStops \/ RedisStarts \/ UNCHANGED vars
      PROVE  Goal
  BY <1>6 DEF CreateKey, DeactivateKey, Tick, RedisStops, RedisStarts, requestVars, vars
<1> QED
  BY <1>1, <1>2, <1>3, <1>4, <1>5, <1>6 DEF Next

LEMMA LimitedStaysOwn ==
    ASSUME TypeOK, WritesAreLimited, ClockIsFresh, CounterIsOwn, LimitedForOwnRequests, [Next]_vars
    PROVE  LimitedForOwnRequests'
<1> SUFFICES ASSUME NEW p \in Requests, verdict'[p] = "limited",
                    NEW b, NEW w, key'[p] = b, WindowOf(at'[p]) = w
             PROVE  Cardinality(Charged(b, w, Outcomes)' \ {p}) >= LimitOf[b]
  BY DEF LimitedForOwnRequests, Outcomes, WindowOf, Charged
<1> DEFINE old == Charged(b, w, Outcomes)  new == Charged(b, w, Outcomes)'
<1>1. b \in Buckets /\ LimitOf[b] \in Nat
  <2>1. b \in Buckets
    BY WritesStayLimited DEF WritesAreLimited
  <2> QED
    BY <2>1, WindowAssumption
<1>2. old \subseteq Requests /\ new \subseteq Requests /\ old \subseteq new
  BY ChargedIsKept DEF Charged
<1>3. /\ IsFiniteSet(new \ {p}) /\ Cardinality(old \ {p}) <= Cardinality(new \ {p})
      /\ Cardinality(old \ {p}) \in Nat /\ Cardinality(new \ {p}) \in Nat
  <2>1. IsFiniteSet(new \ {p})
    BY <1>2, KeysAssumption, FS_Subset
  <2>2. old \ {p} \subseteq new \ {p}
    BY <1>2
  <2> QED
    BY <2>1, <2>2, FS_Subset, FS_CardinalityType
<1>4. CASE LimitOf[b] = 0
  BY <1>3, <1>4
<1>5. CASE Cardinality(old \ {p}) >= LimitOf[b]
  BY <1>1, <1>3, <1>5
<1>6. ASSUME pc[p] \in {"incr", "expire", "done"}, Next PROVE key[p] = b /\ WindowOf(at[p]) = w
  BY <1>6, RequestsKeepTheirKeys
<1>7. CASE verdict[p] = "limited"
  <2>1. pc[p] = "done"
    BY <1>7 DEF WritesAreLimited
  <2>2. key[p] = b /\ WindowOf(at[p]) = w
    <3>1. CASE UNCHANGED vars
      BY <3>1 DEF vars, requestVars
    <3> QED
      BY <1>6, <2>1, <3>1
  <2>3. Cardinality(old \ {p}) >= LimitOf[b]
    BY <1>7, <2>2 DEF LimitedForOwnRequests, Outcomes
  <2> QED
    BY <1>5, <2>3
<1>8. CASE verdict[p] # "limited" /\ pc[p] = "expire" /\ Next /\ LimitOf[key[p]] = 0
  BY <1>4, <1>6, <1>8
<1>9. CASE /\ verdict[p] # "limited"
           /\ pc[p] = "incr" /\ Next /\ hits[key[p]][WindowOf(at[p])] >= LimitOf[key[p]]
  <2>1. pc[p] = "incr" /\ Next /\ hits[key[p]][WindowOf(at[p])] >= LimitOf[b]
    BY <1>6, <1>9
  <2>2. key[p] = b /\ WindowOf(at[p]) = w /\ b \in Buckets /\ w \in Windows
    BY <1>6, <2>1, WindowInWindows DEF TypeOK
  <2>3. hits[b][w] <= Cardinality(old) /\ hits[b][w] \in Nat /\ Cardinality(old) \in Nat
    BY <2>2, CountingFinite DEF CounterIsOwn, TypeOK
  <2>4. old \ {p} = old
    BY <2>1 DEF Charged
  <2>5. Cardinality(old \ {p}) >= LimitOf[b]
    BY <1>1, <2>1, <2>2, <2>3, <2>4
  <2> QED
    BY <1>5, <2>5
<1> QED
  BY <1>7, <1>8, <1>9, LimitIsUsedUp

\* A limited request has as many other requests of its key in its window as the
\* limit allows: nobody is limited for another key's requests, nor by a counter
\* that an earlier window left behind; whatever fails.
THEOREM LimitedForOwnRequestsOnly == Spec => []LimitedForOwnRequests
<1> DEFINE Inv == /\ TypeOK /\ ClockIsFresh /\ WritesAreLimited /\ CounterIsOwn
                  /\ LimitedForOwnRequests
<1>1. Init => Inv
  <2>1. SUFFICES ASSUME Init PROVE Inv
    OBVIOUS
  <2>2. TypeOK /\ ClockIsFresh /\ WritesAreLimited /\ LimitedForOwnRequests
    BY <2>1, InitTyped DEF Init, ClockIsFresh, WritesAreLimited, LimitedForOwnRequests
  <2>3. ASSUME NEW b \in Buckets, NEW w \in Windows
        PROVE  hits[b][w] <= Cardinality(Charged(b, w, Outcomes))
    <3>1. hits[b][w] = 0
      BY <2>1 DEF Init
    <3> QED
      BY <3>1, CountingFinite
  <2> QED
    BY <2>2, <2>3 DEF CounterIsOwn
<1>2. Inv /\ [Next]_vars => Inv'
  BY StepTyped, ClockStaysFresh, WritesStayLimited, CountersStayOwn, LimitedStaysOwn
<1> QED
  BY <1>1, <1>2, PTL DEF Spec
=============================================================================
