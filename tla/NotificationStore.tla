------------------------- MODULE NotificationStore -------------------------
(***************************************************************************)
(* The rows that the WhatsApp notification services of the backend share,  *)
(* and the statements that several services run on them: invoices          *)
(* (notification_revision, readiness), notifications,                      *)
(* notification_recipients and notification_attempts, for one invoice.     *)
(*                                                                         *)
(* Every writer of these rows first takes the row lock of the invoice      *)
(* (repository::lock_invoice, or the triggers of migration 0003), so a     *)
(* transaction is one atomic step.  What is read outside a transaction is  *)
(* a step of its own in the modules that extend this one.                  *)
(***************************************************************************)
EXTENDS Integers

CONSTANTS
    Notification,   \* ids of notification rows
    Mobile,         \* E.164 destinations of the invoice's customers
    Kind,           \* the notification kinds staff ask for
    MaxAttempts,    \* NOTIFICATION_MAX_ATTEMPTS
    MaxRevision,    \* bound: last notification_revision of the invoice
    MaxCatalog,     \* bound: edits of rendered data that bump no revision
    None            \* the SQL NULL of resend_of

ASSUME NoneAssumption == None \notin Notification
ASSUME AttemptsAssumption == MaxAttempts \in Nat \ {0}
ASSUME BoundsAssumption == MaxRevision \in Nat \ {0} /\ MaxCatalog \in Nat
ASSUME KindAssumption == Kind \subseteq {"invoice_created", "invoice_updated",
                                         "invoice_ready", "manual_resend"}

VARIABLES
    invoice,        \* revision, readiness, generation; catalog is its rendered data
    notification,   \* the notifications table, by id
    recipients,     \* the notification_recipients table, by delivery
    attempts        \* the notification_attempts table: outcome by delivery, number

storeVars == <<invoice, notification, recipients, attempts>>

Delivery == Notification \X Mobile
Attempt == 1..MaxAttempts

RecipientStatus == {"none", "draft", "queued", "submitting", "accepted",
                    "delivered", "read", "failed", "uncertain", "cancelled"}
AttemptOutcome == {"none", "preparing", "request_started", "retry_scheduled",
                   "accepted", "failed", "uncertain", "cancelled"}

(***************************************************************************)
(* What a preview freezes.  The fingerprint covers the revision, the       *)
(* rendered data (which a catalog edit changes without a revision) and     *)
(* whether it is the pickup template.  The pickup text needs a ready       *)
(* invoice; otherwise source() is a Conflict.                              *)
(***************************************************************************)
IsPickup(kind) == kind = "invoice_ready"
SourceHash(kind) == [revision |-> invoice.revision, catalog |-> invoice.catalog,
                     pickup |-> IsPickup(kind)]
SourceAvailable(kind) == IsPickup(kind) => invoice.ready

Hash == [revision: 0..MaxRevision, catalog: 0..MaxCatalog, pickup: BOOLEAN]

(***************************************************************************)
(* Rows.  "absent" and "deleted" are ids without a row, before the INSERT  *)
(* and after the DELETE; approved_at = 0 is NULL.                          *)
(***************************************************************************)
EventKeys == {"none", "created", "updated", "ready", "manual", "resend"} \X Nat

Row == [state: {"absent", "draft", "approved", "stale", "cancelled", "deleted"},
        kind: Kind \cup {None},
        event_key: EventKeys,
        source_hash: Hash,
        preview_version: Nat,
        approved_at: Nat,
        resend_of: Notification \cup {None}]

AbsentRow == [state |-> "absent", kind |-> None, event_key |-> <<"none", 0>>,
              source_hash |-> [revision |-> 0, catalog |-> 0, pickup |-> FALSE],
              preview_version |-> 0, approved_at |-> 0, resend_of |-> None]
DeletedRow == [AbsentRow EXCEPT !.state = "deleted"]

Invoice == [revision: 1..MaxRevision, catalog: 0..MaxCatalog, ready: BOOLEAN,
            generation: 0..MaxRevision]

\* provider_message_id = a is the id the provider gave to attempt a; 0 is NULL.
Recipient == [status: RecipientStatus, selected: BOOLEAN,
              attempt_count: 0..MaxAttempts, provider_message_id: 0..MaxAttempts]
NoRecipient == [status |-> "none", selected |-> FALSE,
                attempt_count |-> 0, provider_message_id |-> 0]

Approved(n) == notification[n].approved_at # 0
Active(n) == notification[n].state \in {"draft", "approved"}
HasRow(n) == notification[n].state \notin {"absent", "deleted"}

StoreTypeOK ==
    /\ invoice \in Invoice
    /\ notification \in [Notification -> Row]
    /\ recipients \in [Delivery -> Recipient]
    /\ attempts \in [Delivery -> [Attempt -> AttemptOutcome]]

StoreInit ==
    /\ invoice = [revision |-> 1, catalog |-> 0, ready |-> FALSE, generation |-> 0]
    /\ notification = [n \in Notification |-> AbsentRow]
    /\ recipients = [d \in Delivery |-> NoRecipient]
    /\ attempts = [d \in Delivery |-> [a \in Attempt |-> "none"]]

(***************************************************************************)
(* Shared statements.                                                      *)
(***************************************************************************)

\* Mutant: the cancellation also takes sends that a worker has claimed.
CancelClaimedToo(n) ==
    [d \in Delivery |->
        IF d[1] = n /\ recipients[d].status \in {"draft", "queued", "submitting"}
        THEN [recipients[d] EXCEPT !.status = "cancelled"]
        ELSE recipients[d]]

\* Drafts and queued sends of notification n become cancelled; a send that a
\* worker already claimed is left alone.
CancelUnstarted(n) ==
    [d \in Delivery |->
        IF d[1] = n /\ recipients[d].status \in {"draft", "queued"}
        THEN [recipients[d] EXCEPT !.status = "cancelled"]
        ELSE recipients[d]]

MarkStale(n) ==
    /\ notification' = [notification EXCEPT ![n].state = IF Active(n) THEN "stale" ELSE @]
    /\ recipients' = CancelUnstarted(n)

\* The rows of notifications S disappear, their recipients by the cascade.
DeleteRows(S) ==
    /\ notification' = [n \in Notification |-> IF n \in S THEN DeletedRow ELSE notification[n]]
    /\ recipients' = [d \in Delivery |-> IF d[1] \in S THEN NoRecipient ELSE recipients[d]]

(***************************************************************************)
(* The invoice as other features change it.  Every write to the invoice,   *)
(* its orders, payments, returns or customers bumps the revision (triggers *)
(* of migration 0003).  Each confirmation that makes the invoice ready     *)
(* opens a new readiness generation; collecting the last garment that was  *)
(* still pending leaves it ready in the generation it was in.              *)
(***************************************************************************)
ChangeInvoice ==
    /\ invoice.revision < MaxRevision
    /\ \E ready \in BOOLEAN :
         invoice' = [invoice EXCEPT !.revision = @ + 1, !.ready = ready]
    /\ UNCHANGED <<notification, recipients, attempts>>

ConfirmReady ==
    /\ invoice.revision < MaxRevision
    /\ ~invoice.ready
    /\ invoice' = [invoice EXCEPT !.revision = @ + 1, !.ready = TRUE,
                                  !.generation = @ + 1]
    /\ UNCHANGED <<notification, recipients, attempts>>

\* A design or branch label changes: the rendered invoice differs, and no
\* trigger bumps the revision.
EditCatalog ==
    /\ invoice.catalog < MaxCatalog
    /\ invoice' = [invoice EXCEPT !.catalog = @ + 1]
    /\ UNCHANGED <<notification, recipients, attempts>>

=============================================================================
