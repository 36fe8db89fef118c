------------------------ MODULE NotificationApproval ------------------------
(***************************************************************************)
(* What staff do with invoice notifications: prepare a preview, save its   *)
(* recipients, approve it (Send), cancel it, close it, and the hourly      *)
(* removal of previews nobody approved.                                    *)
(*                                                                         *)
(* prepare and approve read the invoice outside any transaction (it is     *)
(* rendered to a PDF in between), then re-check under the invoice's lock.  *)
(* Each is therefore two steps of a request, and everything else may       *)
(* happen in between.                                                      *)
(***************************************************************************)
EXTENDS NotificationStore

CONSTANTS
    Staff,          \* concurrent staff requests
    Request,        \* request ids that clients generate (numbers)
    MaxVersion,     \* bound: saved selections of one preview
    MaxClock        \* bound: Send requests whose transaction begins

ASSUME RequestAssumption == Request \subseteq Nat
ASSUME ClockAssumption == MaxVersion \in Nat /\ MaxClock \in Nat

VARIABLES
    staff,          \* what each request holds between its two steps
    clock           \* transactions begun by Send requests; now() of each

approvalVars == <<staff, clock>>

IdleStaff == [pc |-> "idle"]

EventKey(kind, original, request) ==
    CASE original # None            -> <<"resend", request>>
      [] original = None /\ kind = "invoice_created" -> <<"created", 0>>
      [] original = None /\ kind = "invoice_updated" -> <<"updated", invoice.revision>>
      [] original = None /\ kind = "invoice_ready"   -> <<"ready", invoice.generation>>
      [] OTHER                      -> <<"manual", request>>

ActiveEvent(key) == {n \in Notification : Active(n) /\ notification[n].event_key = key}
ApprovedEvent(key) == {n \in Notification : Approved(n) /\ notification[n].event_key = key}

\* The latest approved document, or pickup, notification; approved_at is the
\* time its transaction began.
LatestApproved(pickup) ==
    {n \in Notification :
        /\ Approved(n) /\ IsPickup(notification[n].kind) = pickup
        /\ \A other \in Notification :
             Approved(other) /\ IsPickup(notification[other].kind) = pickup
                => notification[other].approved_at <= notification[n].approved_at}

\* Mutant: any approved notification can be resent, not only the latest.
ResendAnyApproved(kind, original) == original # None => Approved(original)

ResendAllowed(kind, original) ==
    original # None => Approved(original) /\ original \in LatestApproved(IsPickup(kind))

PrepareRequest == [pc: {"rendering"}, kind: Kind, resend_of: Notification \cup {None},
                   event_key: EventKeys, source_hash: Hash]
ApproveRequest == [pc: {"approving"}, notification: Notification, selected: SUBSET Mobile,
                   send: BOOLEAN, version: Nat, revision: 0..MaxRevision, now: Nat]

ApprovalTypeOK ==
    /\ staff \in [Staff -> {IdleStaff} \cup PrepareRequest \cup ApproveRequest]
    /\ clock \in 0..MaxClock

ApprovalInit ==
    /\ staff = [s \in Staff |-> IdleStaff]
    /\ clock = 0

(***************************************************************************)
(* prepare: read the source, and return early when the event already has   *)
(* an active notification with this content, or an approved creation.      *)
(***************************************************************************)
PrepareRead(s, kind, original, request) ==
    LET key == EventKey(kind, original, request)
        existing == ActiveEvent(key)
    IN
    /\ staff[s].pc = "idle"
    /\ SourceAvailable(kind)
    /\ \A n \in existing :
         /\ notification[n].source_hash = SourceHash(kind)
              => notification[n].state # "approved" /\ original # None
         /\ ~(notification[n].state = "approved" /\ kind = "invoice_created")
    /\ staff' = [staff EXCEPT ![s] =
                   [pc |-> "rendering", kind |-> kind, resend_of |-> original,
                    event_key |-> key, source_hash |-> SourceHash(kind)]]
    /\ UNCHANGED <<storeVars, clock>>

\* Mutant: the event is not looked up again under the lock.
PrepareInsertsBlindly(p) ==
    /\ p.source_hash.revision = invoice.revision
    /\ ResendAllowed(p.kind, p.resend_of)

\* The checks of prepare's transaction, in its order.
PrepareInserts(p) ==
    /\ p.source_hash.revision = invoice.revision
    /\ ApprovedEvent(p.event_key) = {}
    /\ ResendAllowed(p.kind, p.resend_of)
    /\ \A n \in ActiveEvent(p.event_key) : notification[n].source_hash # p.source_hash

\* A draft of the event with older content becomes stale, and a new preview is
\* inserted with every destination selected.
PrepareInsert(s, n) ==
    LET p == staff[s]
        older == ActiveEvent(p.event_key)
    IN
    /\ p.pc = "rendering"
    /\ notification[n].state = "absent"
    /\ PrepareInserts(p)
    /\ notification' = [x \in Notification |->
         IF x = n THEN [AbsentRow EXCEPT !.state = "draft", !.kind = p.kind,
                          !.event_key = p.event_key, !.source_hash = p.source_hash,
                          !.resend_of = p.resend_of]
         ELSE IF x \in older THEN [notification[x] EXCEPT !.state = "stale"]
         ELSE notification[x]]
    /\ recipients' = [d \in Delivery |->
         IF d[1] = n THEN [NoRecipient EXCEPT !.status = "draft", !.selected = TRUE]
         ELSE IF d[1] \in older THEN CancelUnstarted(d[1])[d]
         ELSE recipients[d]]
    /\ staff' = [staff EXCEPT ![s] = IdleStaff]
    /\ UNCHANGED <<invoice, attempts, clock>>

\* The request ends without a change: Conflict, or the existing preview.
PrepareReturn(s) ==
    /\ staff[s].pc = "rendering"
    /\ ~PrepareInserts(staff[s])
    /\ staff' = [staff EXCEPT ![s] = IdleStaff]
    /\ UNCHANGED <<storeVars, clock>>

(***************************************************************************)
(* approve(send): read the row and recompute its source.  A row whose      *)
(* content changed is marked stale, even when it was already approved.     *)
(***************************************************************************)
ApproveRead(s, n, selected, send) ==
    /\ staff[s].pc = "idle"
    /\ HasRow(n)
    /\ SourceAvailable(notification[n].kind)
    /\ notification[n].source_hash = SourceHash(notification[n].kind)
    /\ IF send THEN selected # {} /\ clock < MaxClock
       ELSE notification[n].preview_version < MaxVersion
    /\ clock' = IF send THEN clock + 1 ELSE clock
    /\ staff' = [staff EXCEPT ![s] =
                   [pc |-> "approving", notification |-> n, selected |-> selected,
                    send |-> send, version |-> notification[n].preview_version,
                    revision |-> invoice.revision, now |-> clock']]
    /\ UNCHANGED storeVars

ApproveFindsStale(n) ==
    /\ HasRow(n)
    /\ SourceAvailable(notification[n].kind)
    /\ notification[n].source_hash # SourceHash(notification[n].kind)
    /\ MarkStale(n)
    /\ UNCHANGED <<invoice, attempts, staff, clock>>

\* Mutant: the revision is not compared again under the lock.
ApprovalIgnoresRevision(p) ==
    LET row == notification[p.notification] IN
    /\ row.state = "draft"
    /\ row.preview_version = p.version
    /\ ResendAllowed(row.kind, row.resend_of)

\* The checks of approve's transaction that come before the draft is changed.
ApprovalHolds(p) ==
    LET row == notification[p.notification] IN
    /\ row.state = "draft"
    /\ row.preview_version = p.version
    /\ invoice.revision = p.revision
    /\ ResendAllowed(row.kind, row.resend_of)

\* Mutant: Send queues the destinations that were not selected, too.
QueueEveryone(n, selected, queue) ==
    [d \in Delivery |->
        IF d[1] = n
        THEN [recipients[d] EXCEPT !.selected = d[2] \in selected,
                                   !.status = IF queue THEN "queued" ELSE "draft"]
        ELSE recipients[d]]

SelectRecipients(n, selected, queue) ==
    [d \in Delivery |->
        IF d[1] = n
        THEN [recipients[d] EXCEPT
                !.selected = d[2] \in selected,
                !.status = IF queue /\ d[2] \in selected THEN "queued" ELSE "draft"]
        ELSE recipients[d]]

Approve(s) ==
    LET p == staff[s] IN
    /\ p.pc = "approving" /\ p.send
    /\ ApprovalHolds(p)
    /\ recipients' = SelectRecipients(p.notification, p.selected, TRUE)
    /\ notification' = [notification EXCEPT ![p.notification].state = "approved",
                                            ![p.notification].approved_at = p.now]
    /\ staff' = [staff EXCEPT ![s] = IdleStaff]
    /\ UNCHANGED <<invoice, attempts, clock>>

SaveSelection(s) ==
    LET p == staff[s] IN
    /\ p.pc = "approving" /\ ~p.send
    /\ ApprovalHolds(p)
    /\ recipients' = SelectRecipients(p.notification, p.selected, FALSE)
    /\ notification' = [notification EXCEPT ![p.notification].preview_version = @ + 1]
    /\ staff' = [staff EXCEPT ![s] = IdleStaff]
    /\ UNCHANGED <<invoice, attempts, clock>>

\* Conflict, or the repeated Send of an approved notification.
ApproveReturn(s) ==
    /\ staff[s].pc = "approving"
    /\ ~ApprovalHolds(staff[s])
    /\ staff' = [staff EXCEPT ![s] = IdleStaff]
    /\ UNCHANGED <<storeVars, clock>>

(***************************************************************************)
(* cancel, closing a preview, and the hourly cleanup.                      *)
(***************************************************************************)
HasStarted(n) ==
    \E m \in Mobile : recipients[<<n, m>>].status \in
        {"submitting", "accepted", "delivered", "read", "uncertain"}

Cancel(n) ==
    /\ HasRow(n)
    /\ ~HasStarted(n)
    /\ recipients' = CancelUnstarted(n)
    /\ notification' = [notification EXCEPT ![n].state = "cancelled"]
    /\ UNCHANGED <<invoice, attempts, staff, clock>>

\* Mutant: closing a preview does not ask whether it was approved meanwhile.
DiscardAnything(n) ==
    /\ HasRow(n)
    /\ DeleteRows({n})
    /\ UNCHANGED <<invoice, attempts, staff, clock>>

DiscardPreview(n) ==
    /\ HasRow(n)
    /\ ~Approved(n)
    /\ DeleteRows({n})
    /\ UNCHANGED <<invoice, attempts, staff, clock>>

\* The first statement of cleanup; aged are the rows past the retention time.
CleanupPreviews(aged) ==
    /\ DeleteRows({n \in Notification :
                     /\ HasRow(n)
                     /\ ~Approved(n)
                     /\ notification[n].state \in {"stale", "cancelled"} \/ n \in aged})
    /\ UNCHANGED <<invoice, attempts, staff, clock>>

=============================================================================
