---------------------------- MODULE MCDelivery ----------------------------
(***************************************************************************)
(* Small instances of Delivery for TLC.                                    *)
(***************************************************************************)
EXTENDS Delivery, TLC

CONSTANTS w1, w2, r1, r2, a1, a2

TwoWorkers == {w1, w2}
OneWorker == {w1}

\* Every alert belongs to the one rule, so that a poll can meet the same rule
\* twice and a deletion takes all alerts away.
OneRule == [a \in {a1, a2} |-> r1]
OneAlert == [a \in {a1} |-> r1]

\* Alerts of two rules, so that a poll goes on to another rule.
TwoRules == (a1 :> r1) @@ (a2 :> r2)

\* One discord webhook; none or both; one that changes between the two kinds.
DiscordOnly == {{"discord"}}
NoneOrBoth == {{}, {"discord", "generic"}}
EitherChannel == {{"discord"}, {"generic"}}

WorkerSymmetry == Permutations(Workers)
=============================================================================
