------------------------------- MODULE Access -------------------------------
(***************************************************************************)
(* What a request to the API passes: APIKeyMiddleware (authentication and  *)
(* rate limit), then verify_api_key of the write routes.  Requests are     *)
(* tasks of one process and interleave at every await.  The counters are   *)
(* in Redis, which may be down, lose its data, or answer late.             *)
(*                                                                         *)
(* Time counts seconds, of which a window has Window instead of 60.        *)
(***************************************************************************)
EXTENDS Integers, FiniteSets

CONSTANTS
    Requests,
    DbKeys,         \* raw keys that can have a row in api_keys
    Admin,          \* settings.api_key
    NoKey,          \* no X-API-Key header
    Unknown,        \* a key without a row
    LimitOf,        \* requests_per_minute of a key, admin_rate_limit_per_minute
    Window,         \* seconds per window
    MaxTime, MaxFaults  \* bounds of the model

ASSUME KeysAssumption ==
    /\ IsFiniteSet(Requests) /\ IsFiniteSet(DbKeys)
    /\ Admin \notin DbKeys /\ NoKey \notin DbKeys /\ Unknown \notin DbKeys
    /\ Admin # NoKey /\ Admin # Unknown /\ NoKey # Unknown
Keys == DbKeys \cup {Admin, NoKey, Unknown}
Buckets == DbKeys \cup {Admin}

ASSUME WindowAssumption ==
    /\ LimitOf \in [Buckets -> Nat]
    /\ Window \in Nat \ {0} /\ MaxTime \in Nat /\ MaxFaults \in Nat

WindowOf(t) == t \div Window
Windows == 0 .. WindowOf(MaxTime)
Never == -1

VARIABLES
    now,
    active,     \* rows of api_keys with is_active
    redisUp,
    cached,     \* _redis_client is set
    hits,       \* hits[b][w]: value of key rl:b:w, 0 if there is none
    expiry,     \* expiry[b][w]: when it expires, Never if it does not
    pc,         \* where a request is
    key,        \* its X-API-Key
    read,       \* it has a read-only verb
    at,         \* when check_rate_limit read the clock
    verdict,    \* "none", "counted" or "open" (let pass), "limited" (429), "refused" (401, 503)
    performed,  \* requests whose route ran to its end
    \* history
    dataLost,   \* Redis lost its data
    late,       \* requests whose INCR came more than a second after their window
    faults

redisVars == <<redisUp, hits, expiry>>
requestVars == <<pc, key, read, at, verdict, performed>>
vars == <<now, active, cached, redisVars, requestVars, dataLost, late, faults>>

Init ==
    /\ now = 0
    /\ active = {}
    /\ redisUp = TRUE
    /\ cached = FALSE
    /\ hits = [b \in Buckets |-> [w \in Windows |-> 0]]
    /\ expiry = [b \in Buckets |-> [w \in Windows |-> Never]]
    /\ pc = [q \in Requests |-> "idle"]
    /\ key = [q \in Requests |-> NoKey]
    /\ read = [q \in Requests |-> FALSE]
    /\ at = [q \in Requests |-> 0]
    /\ verdict = [q \in Requests |-> "none"]
    /\ performed = {}
    /\ dataLost = FALSE
    /\ late = {}
    /\ faults = 0

Goto(q, place) == pc' = [pc EXCEPT ![q] = place]
Answer(q, v) == verdict' = [verdict EXCEPT ![q] = v] /\ Goto(q, "done")
LetPass(q, v) == verdict' = [verdict EXCEPT ![q] = v] /\ Goto(q, "route")

-----------------------------------------------------------------------------
(***************************************************************************)
(* APIKeyMiddleware.dispatch.                                              *)
(***************************************************************************)

\* Public paths and read-only verbs go on to the route; a write without a key
\* is refused; the admin key needs no lookup.
Arrive(q, k, r) ==
    /\ pc[q] = "idle"
    /\ key' = [key EXCEPT ![q] = k]
    /\ read' = [read EXCEPT ![q] = r]
    /\ IF r THEN Goto(q, "route") /\ UNCHANGED verdict
       ELSE CASE k = NoKey -> Answer(q, "refused")
              [] k = Admin -> Goto(q, "client") /\ UNCHANGED verdict
              [] OTHER     -> Goto(q, "lookup") /\ UNCHANGED verdict
    /\ UNCHANGED <<now, active, cached, redisVars, at, performed, dataLost, late, faults>>

\* Variant: whatever the query returns is taken for a key.
FoundAlways(q) == TRUE

\* The row of the key's hash, if it is active.
Found(q) == key[q] \in active

Lookup(q) ==
    /\ pc[q] = "lookup"
    /\ IF Found(q) THEN Goto(q, "client") /\ UNCHANGED verdict
                   ELSE Answer(q, "refused")
    /\ UNCHANGED <<now, active, cached, redisVars, key, read, at, performed, dataLost, late, faults>>

\* Any error of the lookup, or of the commit of last_used_at: 503.
LookupFails(q) ==
    /\ pc[q] = "lookup"
    /\ faults < MaxFaults
    /\ faults' = faults + 1
    /\ Answer(q, "refused")
    /\ UNCHANGED <<now, active, cached, redisVars, key, read, at, performed, dataLost, late>>

-----------------------------------------------------------------------------
(***************************************************************************)
(* check_rate_limit.                                                       *)
(***************************************************************************)

\* Variant: one bucket for all keys.
BucketShared(q) == Admin

\* The id of the key's row, or "admin".
Bucket(q) == key[q]

\* _get_client: the cached client, or a new one that answers a ping; then the
\* clock is read.  Without a client the request passes.
GetClient(q) ==
    /\ pc[q] = "client"
    /\ IF cached \/ redisUp
       THEN /\ cached' = TRUE
            /\ at' = [at EXCEPT ![q] = now]
            /\ Goto(q, "incr")
            /\ UNCHANGED verdict
       ELSE LetPass(q, "open") /\ UNCHANGED <<cached, at>>
    /\ UNCHANGED <<now, active, redisVars, key, read, performed, dataLost, late, faults>>

WithinLimit(b, count) == count <= LimitOf[b]

\* Variant: off by one.
FirstHitFromZero(count) == count = 0
FirstHit(count) == count = 1

\* Variant: the counter lives exactly as long as a window.
TtlOfWindow == Window
Ttl == Window + 1

\* The counter of a window outlives the window by a second, and nothing bounds
\* how long a request waits between reading the clock and its INCR.
Overdue(q) == now > WindowOf(at[q]) * Window + Window

\* INCR, executed by Redis.  The first hit goes on to EXPIRE.
Incr(q) ==
    LET b == Bucket(q)
        w == WindowOf(at[q])
        count == hits[b][w] + 1
    IN /\ pc[q] = "incr" /\ redisUp
       /\ hits' = [hits EXCEPT ![b][w] = count]
       /\ IF FirstHit(count) THEN Goto(q, "expire") /\ UNCHANGED verdict
          ELSE IF WithinLimit(b, count) THEN LetPass(q, "counted")
                                        ELSE Answer(q, "limited")
       /\ late' = IF Overdue(q) THEN late \cup {q} ELSE late
       /\ UNCHANGED <<now, active, cached, redisUp, expiry, key, read, at, performed,
                      dataLost, faults>>

Expire(q) ==
    LET b == Bucket(q)
        w == WindowOf(at[q])
    IN /\ pc[q] = "expire" /\ redisUp
       /\ IF hits[b][w] > 0 THEN expiry' = [expiry EXCEPT ![b][w] = now + Ttl]
                            ELSE UNCHANGED expiry
       /\ IF WithinLimit(b, 1) THEN LetPass(q, "counted") ELSE Answer(q, "limited")
       /\ UNCHANGED <<now, active, cached, redisUp, hits, key, read, at, performed,
                      dataLost, late, faults>>

\* A call raises: the server is down, or it has executed the call and the answer
\* is lost.  The request passes; a counter whose EXPIRE fails stays.
CallRaises(q) ==
    LET b == Bucket(q)
        w == WindowOf(at[q])
    IN /\ pc[q] \in {"incr", "expire"}
       /\ redisUp => faults < MaxFaults
       /\ faults' = IF redisUp THEN faults + 1 ELSE faults
       /\ \/ UNCHANGED <<hits, expiry>>
          \/ /\ redisUp /\ pc[q] = "incr"
             /\ hits' = [hits EXCEPT ![b][w] = @ + 1]
             /\ UNCHANGED expiry
          \/ /\ redisUp /\ pc[q] = "expire" /\ hits[b][w] > 0
             /\ expiry' = [expiry EXCEPT ![b][w] = now + Ttl]
             /\ UNCHANGED hits
       /\ LetPass(q, "open")
       /\ UNCHANGED <<now, active, cached, redisUp, key, read, at, performed, dataLost, late>>

-----------------------------------------------------------------------------
(***************************************************************************)
(* The route and its dependency verify_api_key.                            *)
(***************************************************************************)

\* Variant: the dependency accepts what the middleware accepts.
VerifiedByMiddleware(k) == TRUE
Verified(k) == k = Admin

Route(q) ==
    /\ pc[q] = "route"
    /\ Goto(q, "done")
    /\ performed' = IF read[q] \/ Verified(key[q]) THEN performed \cup {q} ELSE performed
    /\ UNCHANGED <<now, active, cached, redisVars, key, read, at, verdict, dataLost, late, faults>>

-----------------------------------------------------------------------------
(***************************************************************************)
(* Keys, time, failures.                                                   *)
(***************************************************************************)

\* scripts/create_api_key.py; or an operator sets is_active again.
CreateKey(k) ==
    /\ k \notin active
    /\ active' = active \cup {k}
    /\ UNCHANGED <<now, cached, redisVars, requestVars, dataLost, late, faults>>

\* An operator clears is_active; the repository has no operation for it.
DeactivateKey(k) ==
    /\ k \in active
    /\ active' = active \ {k}
    /\ UNCHANGED <<now, cached, redisVars, requestVars, dataLost, late, faults>>

\* A second passes; Redis drops what has expired.
Tick ==
    /\ now < MaxTime
    /\ now' = now + 1
    /\ hits' = [b \in Buckets |-> [w \in Windows |->
                  IF expiry[b][w] = now + 1 THEN 0 ELSE hits[b][w]]]
    /\ expiry' = [b \in Buckets |-> [w \in Windows |->
                  IF expiry[b][w] = now + 1 THEN Never ELSE expiry[b][w]]]
    /\ UNCHANGED <<active, cached, redisUp, requestVars, dataLost, late, faults>>

RedisStops ==
    /\ redisUp /\ faults < MaxFaults
    /\ faults' = faults + 1
    /\ redisUp' = FALSE
    /\ UNCHANGED <<now, active, cached, hits, expiry, requestVars, dataLost, late>>

\* It comes back with its data or without.
RedisStarts ==
    /\ ~redisUp
    /\ redisUp' = TRUE
    /\ \/ UNCHANGED <<hits, expiry, dataLost>>
       \/ /\ hits' = [b \in Buckets |-> [w \in Windows |-> 0]]
          /\ expiry' = [b \in Buckets |-> [w \in Windows |-> Never]]
          /\ dataLost' = TRUE
    /\ UNCHANGED <<now, active, cached, requestVars, late, faults>>

\* The API restarts: the client is gone, and with it every request under way.
ApiRestarts ==
    /\ faults < MaxFaults
    /\ faults' = faults + 1
    /\ cached' = FALSE
    /\ verdict' = [q \in Requests |-> IF pc[q] \in {"idle", "done"} THEN verdict[q] ELSE "none"]
    /\ pc' = [q \in Requests |-> IF pc[q] = "idle" THEN "idle" ELSE "done"]
    /\ UNCHANGED <<now, active, redisVars, key, read, at, performed, dataLost, late>>

-----------------------------------------------------------------------------
Next ==
    \/ \E q \in Requests :
         \/ \E k \in Keys, r \in BOOLEAN : Arrive(q, k, r)
         \/ Lookup(q) \/ LookupFails(q)
         \/ GetClient(q) \/ Incr(q) \/ Expire(q) \/ CallRaises(q)
         \/ Route(q)
    \/ \E k \in DbKeys : CreateKey(k) \/ DeactivateKey(k)
    \/ Tick \/ RedisStops \/ RedisStarts \/ ApiRestarts

Spec == Init /\ [][Next]_vars

-----------------------------------------------------------------------------
(***************************************************************************)
(* Properties.                                                             *)
(***************************************************************************)

TypeOK ==
    /\ now \in 0 .. MaxTime
    /\ active \subseteq DbKeys
    /\ redisUp \in BOOLEAN
    /\ cached \in BOOLEAN
    /\ hits \in [Buckets -> [Windows -> Nat]]
    /\ expiry \in [Buckets -> [Windows -> Nat \cup {Never}]]
    /\ pc \in [Requests -> {"idle", "lookup", "client", "incr", "expire", "route", "done"}]
    /\ key \in [Requests -> Keys]
    /\ read \in [Requests -> BOOLEAN]
    /\ at \in [Requests -> 0 .. MaxTime]
    /\ verdict \in [Requests -> {"none", "counted", "open", "limited", "refused"}]
    /\ performed \subseteq Requests
    /\ dataLost \in BOOLEAN
    /\ late \subseteq Requests
    /\ faults \in 0 .. MaxFaults
    /\ \A q \in Requests : pc[q] \in {"client", "incr", "expire"} => key[q] \in Buckets

\* Requests that were charged to a bucket in a window of the clock.
Charged(b, w, verdicts) ==
    {q \in Requests : /\ ~read[q] /\ verdict[q] \in verdicts
                      /\ pc[q] \in {"expire", "route", "done"}
                      /\ key[q] = b /\ WindowOf(at[q]) = w}

\* As long as Redis keeps its data, at most the limit of a key passes as counted
\* in a window of the clock, but for requests whose INCR was overdue: the counter
\* counts every request once and outlives its window by the second of Ttl, and
\* what comes too late for it cannot widen the limit of those in time.
WindowBound ==
    ~dataLost =>
        \A b \in Buckets, w \in Windows :
            Cardinality(Charged(b, w, {"counted"}) \ late) <= LimitOf[b]

\* Nobody is limited for the requests of another key or of an earlier window, nor
\* by a counter that was left without EXPIRE.
LimitedForOwnRequests ==
    \A q \in Requests : verdict[q] = "limited" =>
        Cardinality(Charged(key[q], WindowOf(at[q]), {"none", "counted", "open", "limited"}) \ {q})
            >= LimitOf[key[q]]

\* Without failures no counter stays in Redis for ever: one that does not expire
\* has the request that will set its EXPIRE.
CountersExpire ==
    faults = 0 =>
        \A b \in Buckets, w \in Windows : hits[b][w] > 0 /\ expiry[b][w] = Never =>
            \E q \in Requests : pc[q] = "expire" /\ key[q] = b /\ WindowOf(at[q]) = w

\* A write is performed for the admin key only, and only after the limiter has
\* let it pass: neither of the two checks of a key makes up for the other.
WritesPassBothChecks ==
    \A q \in performed : read[q] \/ (key[q] = Admin /\ verdict[q] \in {"counted", "open"})
=============================================================================
