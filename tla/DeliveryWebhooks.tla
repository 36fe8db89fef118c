-------------------------- MODULE DeliveryWebhooks --------------------------
(***************************************************************************)
(* The provider's delivery callbacks.  A callback names a message by the   *)
(* provider's id and may come late, twice, out of order, or before the     *)
(* worker has saved that id.  It is stored first and applied from the      *)
(* store; one that matches no recipient yet stays pending.                 *)
(***************************************************************************)
EXTENDS NotificationStore

CONSTANT WebhookStatus  \* of {"sent", "delivered", "read", "failed"}

ASSUME WebhookAssumption == WebhookStatus \subseteq {"sent", "delivered", "read", "failed"}

VARIABLES
    pending,        \* stored callbacks with processed = FALSE
    processed       \* stored callbacks with processed = TRUE

webhookVars == <<pending, processed>>

Callback == [delivery: Delivery, attempt: Attempt, status: WebhookStatus]

WebhookTypeOK ==
    /\ pending \subseteq Callback
    /\ processed \subseteq Callback
    /\ pending \cap processed = {}

WebhookInit ==
    /\ pending = {}
    /\ processed = {}

\* The body's hash is unique: a repeated callback is stored once.
ReceiveWebhook(e) ==
    /\ e \notin pending \cup processed
    /\ pending' = pending \cup {e}
    /\ UNCHANGED <<storeVars, processed>>

\* Mutant: the last callback wins.
LatestStatus(current, incoming) == IF incoming = "sent" THEN "accepted" ELSE incoming

\* The status after an incoming callback; current when it changes nothing.
NextStatus(current, incoming) ==
    CASE incoming = "read" -> "read"
      [] incoming = "delivered" /\ current # "read" -> "delivered"
      [] incoming = "sent" /\ current \notin {"read", "delivered", "failed"} -> "accepted"
      [] incoming = "failed" /\ current \notin {"read", "delivered"} -> "failed"
      [] OTHER -> current

Matches(e) == recipients[e.delivery].provider_message_id = e.attempt

\* Mutant: a callback that changes nothing is left in the store.
ProcessOnlyNews(e, checked) ==
    /\ e \in pending
    /\ Matches(e)
    /\ NextStatus(recipients[e.delivery].status, e.status) # recipients[e.delivery].status
    /\ recipients' = [recipients EXCEPT ![e.delivery].status = NextStatus(@, e.status)]
    /\ pending' = IF checked THEN pending \ {e} ELSE pending
    /\ processed' = IF checked THEN processed \cup {e} ELSE processed
    /\ UNCHANGED <<invoice, notification, attempts>>

\* The status is applied in a transaction of its own; the callback is marked
\* processed after it, unless the process dies in between (checked = FALSE).
ProcessWebhook(e, checked) ==
    /\ e \in pending
    /\ Matches(e)
    /\ recipients' = [recipients EXCEPT ![e.delivery].status = NextStatus(@, e.status)]
    /\ pending' = IF checked THEN pending \ {e} ELSE pending
    /\ processed' = IF checked THEN processed \cup {e} ELSE processed
    /\ UNCHANGED <<invoice, notification, attempts>>

\* The last statement of cleanup: callbacks past the retention time, applied
\* or not, are removed; the same body could then be stored again.
ExpireWebhooks(old) ==
    /\ pending' = pending \ old
    /\ processed' = processed \ old

=============================================================================
