------------------------------- MODULE Outbox -------------------------------
(***************************************************************************)
(* What delivery of alerts promises to whoever reads the alerts table and  *)
(* to the recipients of the webhooks: at least once, with a truthful       *)
(* verdict.  It says nothing of workers, polls or sessions.                *)
(***************************************************************************)
EXTENDS Integers

CONSTANTS Alerts, MaxAttempts

VARIABLES
    raised,     \* alerts ever put on record
    live,       \* those still on record
    verdict,    \* delivery_status of each alert
    reached,    \* alerts some recipient got
    rounds      \* delivery rounds recorded for each alert

vars == <<raised, live, verdict, reached, rounds>>

Init ==
    /\ raised = {}
    /\ live = {}
    /\ verdict = [a \in Alerts |-> "pending"]
    /\ reached = {}
    /\ rounds = [a \in Alerts |-> 0]

\* An alert is raised once, whatever happens to it later.
Raise(a) ==
    /\ a \notin raised
    /\ raised' = raised \cup {a}
    /\ live' = live \cup {a}
    /\ UNCHANGED <<verdict, reached, rounds>>

\* A recipient gets an alert that was raised, possibly not for the first time.
Reach(a) ==
    /\ a \in raised
    /\ reached' = reached \cup {a}
    /\ UNCHANGED <<raised, live, verdict, rounds>>

\* A round of delivery goes on record.  "delivered" is the truth, "failed" comes
\* after at least MaxAttempts rounds.
Record(a, v) ==
    /\ a \in live
    /\ v = "delivered" /\ verdict[a] # v => a \in reached
    /\ v = "failed" /\ verdict[a] # v => rounds[a] + 1 >= MaxAttempts
    /\ rounds' = [rounds EXCEPT ![a] = @ + 1]
    /\ verdict' = [verdict EXCEPT ![a] = v]
    /\ UNCHANGED <<raised, live, reached>>

\* Alerts go off the record with their rule.
Remove(gone) ==
    /\ live' = live \ gone
    /\ UNCHANGED <<raised, verdict, reached, rounds>>

Next ==
    \/ \E a \in Alerts : Raise(a) \/ Reach(a)
    \/ \E a \in Alerts, v \in {"pending", "delivered", "failed"} : Record(a, v)
    \/ \E gone \in SUBSET live : Remove(gone)

Spec == Init /\ [][Next]_vars
=============================================================================
