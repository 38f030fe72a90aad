--------------------------- MODULE DeliveryUrls ---------------------------
(***************************************************************************)
(* Which webhook URLs a retry goes to.  DeliveryRounds with one more       *)
(* history that no action reads: the workers whose poll began before the   *)
(* last PUT /rules/{id}.                                                   *)
(***************************************************************************)
EXTENDS DeliveryRounds

VARIABLE overtaken

\* Only the SELECT of a poll makes a batch larger.
BeginsPoll(w) == batch[w] = {} /\ batch'[w] # {}

Watch == overtaken' = IF channels' # channels
                      THEN Workers
                      ELSE overtaken \ {w \in Workers : BeginsPoll(w)}

UrlsSpec ==
    /\ Init /\ sent = [a \in Alerts |-> 0] /\ overtaken = {}
    /\ [][Next /\ Count /\ Watch]_<<vars, sent, overtaken>>

\* A PUT of other webhook URLs is heeded by every poll that begins after it: its
\* retries go to the URLs the rule has now, although the session of a poll does
\* not read a rule again that it still holds (retry.py, select of the rule).
UrlsAreCurrent ==
    \A w \in Workers :
        rAlert[w] \in Alerts /\ w \notin overtaken
          => rChannels[w] = channels[RuleOf[rAlert[w]]]
=============================================================================
