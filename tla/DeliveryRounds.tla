-------------------------- MODULE DeliveryRounds --------------------------
(***************************************************************************)
(* What an alert costs its recipients, and what of it is on record.  The   *)
(* specification of Delivery with a history beside it that no action       *)
(* reads: how many rounds of delivery were begun for each alert.           *)
(*                                                                         *)
(* A round is what dispatch or one retry sends of an alert: at most one    *)
(* POST to each of its rule's webhooks.  It begins with the first POST,    *)
(* whoever gets it, and it is on record when its commit is applied.        *)
(***************************************************************************)
EXTENDS Delivery

VARIABLE sent

\* dispatch adds an audit row for every POST, the first one included.
BeginsDispatch(w, a) == mAlert[w] = a /\ mAdded[w] = 0 /\ mAdded'[w] = 1

\* A retry has all its URLs before it until the first POST.
BeginsRetry(w, a) ==
    /\ rAlert[w] = a /\ rAlert'[w] = a
    /\ rTodo[w] = rChannels[w] /\ rTodo'[w] # rTodo[w]

Begins(a) == \E w \in Workers : BeginsDispatch(w, a) \/ BeginsRetry(w, a)

Count == sent' = [a \in Alerts |-> sent[a] + (IF Begins(a) THEN 1 ELSE 0)]

RoundsSpec ==
    /\ Init /\ sent = [a \in Alerts |-> 0]
    /\ [][Next /\ Count]_<<vars, sent>>

-----------------------------------------------------------------------------
(***************************************************************************)
(* Properties.                                                             *)
(***************************************************************************)

\* The tasks in the middle of a round of an alert: they have sent something, and
\* its commit is still to come.
Dispatching(a) ==
    {w \in Workers : mAlert[w] = a /\ mAdded[w] > 0 /\ mainPc[w] # "unrecorded"}
Retrying(a) == {w \in Workers : rAlert[w] = a /\ rTodo[w] # rChannels[w]}

\* README, "Per-attempt audit trail", as far as it goes: while an alert is on
\* record, every round its recipients may have seen has an audit row, except
\* those under way and those that a fault cut off between the POST and the
\* commit, at most two per fault (a crash stops both tasks of a worker).
AuditIsComplete ==
    \A a \in rows :
        sent[a] <= records[a] + Cardinality(Dispatching(a))
                     + Cardinality(Retrying(a)) + 2 * faults

\* One worker alone may overlap its own dispatch with its own scheduler, whose
\* count dispatch then overwrites with 1.  That is the worst without faults: an
\* alert costs its recipients at most 2 * MaxAttempts - 1 rounds, and one more
\* for every fault.
RoundsOfOneWorker ==
    Cardinality(Workers) = 1 =>
        \A a \in Alerts :
            sent[a] <= (IF MaxAttempts = 1 THEN 2 ELSE 2 * MaxAttempts - 1) + faults
=============================================================================
