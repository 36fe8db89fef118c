--------------------------- MODULE MessagePromise ---------------------------
(***************************************************************************)
(* What the notification feature promises about one message per delivery,  *)
(* without rows, workers, leases or retries: an offer is open until the    *)
(* feature submits it or drops it, the provider takes at most one message  *)
(* and only while the offer is submitted or its outcome is unknown, and a  *)
(* dropped delivery has sent nothing.                                      *)
(***************************************************************************)
CONSTANTS
    Delivery,       \* pairs of a notification and a destination
    Attempt         \* numbers of delivery attempts

VARIABLES
    phase,          \* what the feature says of each delivery
    sent            \* the attempts whose message the provider took

Phase == {"open", "submitted", "sent", "unknown", "dropped"}

TypeOK ==
    /\ phase \in [Delivery -> Phase]
    /\ sent \in [Delivery -> SUBSET Attempt]

Init ==
    /\ phase = [d \in Delivery |-> "open"]
    /\ sent = [d \in Delivery |-> {}]

Move(d, from, to) ==
    /\ phase[d] = from
    /\ phase' = [phase EXCEPT ![d] = to]
    /\ UNCHANGED sent

Submit(d) == Move(d, "open", "submitted")

\* The provider takes the message; the feature may not know it yet, or ever.
Take(d) ==
    /\ phase[d] \in {"submitted", "unknown"}
    /\ sent[d] = {}
    /\ \E a \in Attempt : sent' = [sent EXCEPT ![d] = {a}]
    /\ UNCHANGED phase

Confirm(d) == sent[d] # {} /\ Move(d, "submitted", "sent")
Lose(d) == Move(d, "submitted", "unknown")
Reopen(d) == sent[d] = {} /\ Move(d, "submitted", "open")
GiveUp(d) == sent[d] = {} /\ Move(d, "submitted", "dropped")

\* Staff cancel, the source becomes stale, or a preview is deleted.
Withdraw(D) ==
    /\ \A d \in D : phase[d] = "open"
    /\ phase' = [d \in Delivery |-> IF d \in D THEN "dropped" ELSE phase[d]]
    /\ UNCHANGED sent

Next ==
    \/ \E d \in Delivery :
         Submit(d) \/ Take(d) \/ Confirm(d) \/ Lose(d) \/ Reopen(d) \/ GiveUp(d)
    \/ \E D \in SUBSET Delivery : Withdraw(D)

Spec == Init /\ [][Next]_<<phase, sent>>

=============================================================================
