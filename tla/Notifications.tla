--------------------------- MODULE Notifications ---------------------------
(***************************************************************************)
(* Invoice notifications as a whole: staff requests, delivery workers,     *)
(* provider callbacks and the rest of the backend act on the same rows.    *)
(***************************************************************************)
EXTENDS NotificationApproval, NotificationWorker, DeliveryWebhooks

vars == <<storeVars, approvalVars, workerVars, webhookVars>>

Init == StoreInit /\ ApprovalInit /\ WorkerInit /\ WebhookInit

InvoiceStep ==
    /\ ChangeInvoice \/ ConfirmReady \/ EditCatalog
    /\ UNCHANGED <<approvalVars, workerVars, webhookVars>>

StaffStep ==
    /\ \/ \E s \in Staff :
            \/ \E kind \in Kind, original \in Notification \cup {None}, q \in Request :
                 PrepareRead(s, kind, original, q)
            \/ \E n \in Notification : PrepareInsert(s, n)
            \/ PrepareReturn(s)
            \/ \E n \in Notification, selected \in SUBSET Mobile, send \in BOOLEAN :
                 ApproveRead(s, n, selected, send)
            \/ Approve(s)
            \/ SaveSelection(s)
            \/ ApproveReturn(s)
       \/ \E n \in Notification :
            ApproveFindsStale(n) \/ Cancel(n) \/ DiscardPreview(n)
    /\ UNCHANGED <<workerVars, webhookVars>>

WorkerStep(w) == Tick(w) /\ UNCHANGED <<approvalVars, webhookVars>>

FailureStep ==
    /\ (\E w \in Worker : Crash(w)) \/ (\E d \in Delivery : RecoverLease(d))
    /\ UNCHANGED <<approvalVars, webhookVars>>

\* The provider reports only on messages it accepted.
ReceiveStep ==
    /\ \E e \in Callback : <<e.delivery, e.attempt>> \in accepted /\ ReceiveWebhook(e)
    /\ UNCHANGED <<approvalVars, workerVars>>

ApplyStep ==
    /\ \E e \in Callback, checked \in BOOLEAN : ProcessWebhook(e, checked)
    /\ UNCHANGED <<approvalVars, workerVars>>

\* cleanup() is one transaction over the previews and the callbacks.
CleanupStep ==
    /\ \E aged \in SUBSET Notification, old \in SUBSET (pending \cup processed) :
         CleanupPreviews(aged) /\ ExpireWebhooks(old)
    /\ UNCHANGED workerVars

Next ==
    \/ InvoiceStep
    \/ StaffStep
    \/ \E w \in Worker : WorkerStep(w)
    \/ FailureStep
    \/ ReceiveStep
    \/ ApplyStep
    \/ CleanupStep

Spec == Init /\ [][Next]_vars

(***************************************************************************)
(* Fairness.  The worker loop ticks every three seconds for as long as the *)
(* process lives, and every tick recovers leases and applies callbacks.    *)
(* Staff, the provider, crashes and cleanup owe nothing.                   *)
(***************************************************************************)
Fairness ==
    /\ \A w \in Worker : WF_vars(WorkerStep(w))
    /\ \A d \in Delivery :
         WF_vars(RecoverLease(d) /\ UNCHANGED <<approvalVars, webhookVars>>)
    /\ \A e \in Callback :
         WF_vars(ProcessWebhook(e, TRUE) /\ UNCHANGED <<approvalVars, workerVars>>)

FairSpec == Spec /\ Fairness

-----------------------------------------------------------------------------
(***************************************************************************)
(* Properties.                                                             *)
(***************************************************************************)

\* Every variable keeps its shape: each row, request, worker and callback of
\* the four modules.
TypeOK == StoreTypeOK /\ ApprovalTypeOK /\ WorkerTypeOK /\ WebhookTypeOK

Messages(d) == {a \in Attempt : <<d, a>> \in accepted}

\* A destination of an approved notification gets at most one message, over
\* every retry, worker crash, expired lease and concurrent worker (tick: "Never
\* replay an expired submission lease automatically").
AtMostOneMessage ==
    \A d \in Delivery : \A a1, a2 \in Messages(d) : a1 = a2

\* A message that reached the provider is never reported as unsent: the
\* recipient is not queued, cancelled or back in draft, and is failed only when
\* the provider's own callback said so (finish_attempt keeps other actors'
\* results; cancel_unstarted leaves claimed sends alone).
NoSilentSend ==
    \A d \in Delivery : Messages(d) # {} =>
        \/ recipients[d].status \in {"submitting", "accepted", "delivered", "read", "uncertain"}
        \/ recipients[d].status = "failed" /\ recipients[d].provider_message_id \in Messages(d)

\* Only a destination that the approver selected gets a message, and only once its
\* notification was approved (approve, select_recipients).
OnlySelectedDestinations ==
    \A d \in Delivery : Messages(d) # {} => recipients[d].selected /\ Approved(d[1])

\* The attempt log is written ahead of the network: while it says preparing (or
\* holds no row), the message of that attempt has not left.
AttemptLogIsAhead ==
    \A d \in Delivery, a \in Attempt :
        attempts[d][a] \in {"none", "preparing"} => <<d, a>> \notin accepted

\* What a worker is about to send was current at some time after its claim: a
\* change committed before the claim is never missed (the claim is the
\* cancellation cutoff).
NothingStaleIsSent ==
    \A w \in Worker : worker[w].pc \in {"send", "post"} =>
        notification[worker[w].job[1]].source_hash.revision >= worker[w].claimed

\* A business event has one active notification and is approved once, for ever
\* (the two unique indexes of migration 0002 never have to refuse a write).
OneNotificationPerEvent ==
    \A n1, n2 \in Notification :
        n1 # n2 /\ notification[n1].event_key = notification[n2].event_key =>
            /\ ~(Active(n1) /\ Active(n2))
            /\ ~(Approved(n1) /\ Approved(n2))

\* An approved notification is explicitly resent at most once: the next resend
\* must start from the newer one, however the requests interleave.
ResentAtMostOnce ==
    \A n1, n2 \in Notification :
        /\ Approved(n1) /\ Approved(n2)
        /\ notification[n1].resend_of = notification[n2].resend_of
        /\ notification[n1].resend_of # None
        => n1 = n2

\* Approval is permanent: no later step deletes an approved notification,
\* un-approves it or moves its approval (discard_preview, cleanup, cancel and a
\* stale source included).
ApprovalIsPermanent ==
    [][\A n \in Notification : Approved(n) =>
         /\ notification'[n].approved_at = notification[n].approved_at
         /\ notification'[n].state \in {"approved", "stale", "cancelled"}]_vars

\* Approval happens only on the invoice revision that the preview shows, although
\* approve() compares fingerprints before it takes the lock; and a pickup message
\* only while the invoice is ready, in the readiness generation its preview was
\* made for: a preview survives reopening and a second confirmation, and must not
\* be approved then.
ApprovesWhatIsShown ==
    [][\A n \in Notification : ~Approved(n) /\ Approved(n)' =>
         /\ notification[n].source_hash.revision = invoice.revision
         /\ IsPickup(notification[n].kind) =>
              /\ invoice.ready
              /\ notification[n].event_key[1] = "ready"
                   => notification[n].event_key[2] = invoice.generation]_vars

\* Callbacks converge to one status in every order, with repeats: a recipient
\* whose message id is known shows a status at least as strong as "accepted" and as
\* every callback applied so far.  It gets no status that nobody reported: it starts
\* as "accepted" when its id is saved, and then changes only to what a stored callback
\* of its own message says.  On the way no confirmed status is downgraded and an
\* unknown result stays unknown.
Rank(status) == CASE status = "accepted" -> 0 [] status = "sent" -> 0
                  [] status = "failed" -> 1 [] status = "delivered" -> 2
                  [] status = "read" -> 3 [] OTHER -> -1
ShowsTheStrongest(d) ==
    LET Of(S) == {e \in S : e.delivery = d} IN
    recipients[d].provider_message_id # 0 =>
        /\ Rank(recipients[d].status) >= 0
        /\ \A e \in Of(processed) : Rank(recipients[d].status) >= Rank(e.status)
CallbacksConverge ==
    /\ [](\A d \in Delivery : ShowsTheStrongest(d))
    /\ [][\A d \in Delivery :
            LET before == recipients[d].status
                after == recipients'[d].status
            IN  /\ before = "uncertain" => after = "uncertain"
                /\ Rank(before) >= 0 => Rank(after) >= Rank(before)
                /\ after # before /\ recipients'[d].provider_message_id # 0 =>
                     \/ recipients[d].provider_message_id = 0 /\ after = "accepted"
                     \/ \E e \in pending :
                          e.delivery = d /\ Matches(e) /\ after = e.status]_vars

\* Every claim is resolved, whatever happens to the worker that made it; and a
\* queued send leaves the queue for good, or its notification is withdrawn.
QueueDrains ==
    \A d \in Delivery :
        /\ recipients[d].status = "submitting" ~> recipients[d].status # "submitting"
        /\ Claimable(d) ~> \/ recipients[d].status \notin {"queued", "submitting"}
                           \/ notification[d[1]].state # "approved"

\* A callback that has a recipient is applied, also when it came before the
\* worker saved the message id.
CallbacksAreApplied ==
    \A e \in Callback : e \in pending /\ Matches(e) ~> e \notin pending

\* "stale queues cancel all unstarted destinations" (tests.rs): a notification
\* that became stale holds no queued destination.
StaleQueuesAreCancelled ==
    \A d \in Delivery :
        notification[d[1]].state = "stale" => recipients[d].status # "queued"

=============================================================================
