------------------------ MODULE NotificationsPromise ------------------------
(***************************************************************************)
(* The notification feature implements MessagePromise.                     *)
(***************************************************************************)
EXTENDS NotificationsInductive

\* What the state of a notification and the row of a recipient say of a delivery.
\* A failed recipient with a message id was accepted and failed afterwards, by the
\* provider's callback.
PhaseOf(state, row) ==
    IF state = "deleted" THEN "dropped"
    ELSE CASE row.status \in {"none", "draft", "queued"} -> "open"
           [] row.status = "submitting" -> "submitted"
           [] row.status = "uncertain" -> "unknown"
           [] row.status \in {"accepted", "delivered", "read"} -> "sent"
           [] row.status = "failed" /\ row.provider_message_id # 0 -> "sent"
           [] OTHER -> "dropped"

Promise == INSTANCE MessagePromise
    WITH phase <- [d \in Delivery |-> PhaseOf(notification[d[1]].state, recipients[d])],
         sent <- [d \in Delivery |-> Messages(d)]

\* The rows, workers, leases and callbacks together keep the promise: at most
\* one message per delivery, none after it was dropped, and no way back from
\* an unknown or a sent message to an open one (tick, finish_attempt,
\* recover_leases, cancel_unstarted, delivery_status).
PromiseKept == Promise!Spec

=============================================================================
