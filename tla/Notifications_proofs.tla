------------------------ MODULE Notifications_proofs ------------------------
(***************************************************************************)
(* Proofs about Notifications, for every value of its constants.           *)
(*                                                                         *)
(* The argument.  At-most-once delivery is not inductive by itself: what   *)
(* the database shows is the same before and after the provider takes a    *)
(* message.  IInv ties three things together: a recipient's last attempt,  *)
(* the one worker that may hold it, and the messages accepted for it.  A   *)
(* step is quiet when it sends nothing, moves recipients only among states *)
(* without a message (or from claimed to uncertain), and lets no worker    *)
(* gain an attempt; quiet steps keep IInv (QuietKeeps), and they are all   *)
(* the steps but the claim, the write-ahead, the post, the record of the   *)
(* result and the callbacks, which are proved one by one.                  *)
(***************************************************************************)
EXTENDS NotificationsPromise, TLAPS

MessageInv ==
    /\ ApprovedRows /\ RowsMatch /\ AttemptsLeft
    /\ CandidateHasJob /\ HolderOwnsAttempt /\ OneHolder /\ ResultsAreTrue
    /\ AcceptedIsLast /\ MessageIdsAreTrue /\ AttemptLogIsAhead

\* The rows StoreInit and DeleteRows write have the types of their tables.
LEMMA EmptyRows ==
  AbsentRow \in Row /\ DeletedRow \in Row /\ NoRecipient \in Recipient
<1>1. [revision |-> 0, catalog |-> 0, pickup |-> FALSE] \in Hash
  BY BoundsAssumption DEF Hash
<1>2. AbsentRow.event_key \in EventKeys
  BY DEF EventKeys, AbsentRow
<1>3. AbsentRow \in Row
  BY <1>1, <1>2 DEF AbsentRow, Row
<1>4. DeletedRow \in Row
  BY <1>3 DEF DeletedRow, Row
<1>5. NoRecipient \in Recipient
  BY AttemptsAssumption DEF NoRecipient, Recipient, RecipientStatus
<1> QED
  BY <1>3, <1>4, <1>5

\* The invariant holds when no notification exists yet and every process is idle.
LEMMA InitInv == Init => IInv
<1> SUFFICES ASSUME Init PROVE IInv
  OBVIOUS
<1> USE NoneAssumption, AttemptsAssumption, BoundsAssumption, RequestAssumption,
        ClockAssumption DEF Init, StoreInit, ApprovalInit, WorkerInit, WebhookInit
<1>1. StoreTypeOK
  <2>1. "none" \in AttemptOutcome
    BY DEF AttemptOutcome
  <2>2. [revision |-> 1, catalog |-> 0, ready |-> FALSE, generation |-> 0] \in Invoice
    BY DEF Invoice
  <2> QED
    BY EmptyRows, <2>1, <2>2 DEF StoreTypeOK
<1>2. ApprovalTypeOK
  BY DEF ApprovalTypeOK, IdleStaff
<1>3. WorkerTypeOK
  BY DEF WorkerTypeOK, WorkerState, IdleWorker, NoResult, Result
<1>4. WebhookTypeOK
  BY DEF WebhookTypeOK
<1>5. GenerationsTrail /\ SendsAreTimed
  BY DEF GenerationsTrail, SendsAreTimed, IdleStaff
<1>6. MessageInv
  BY DEF MessageInv, ApprovedRows, RowsMatch, AttemptsLeft, CandidateHasJob,
         HolderOwnsAttempt, OneHolder, ResultsAreTrue, AcceptedIsLast,
         MessageIdsAreTrue, AttemptLogIsAhead, Holding, Approved, HasRow,
         AbsentRow, NoRecipient, IdleWorker, Delivery
<1> QED
  BY <1>1, <1>2, <1>3, <1>4, <1>5, <1>6 DEF IInv, TypeOK, MessageInv

\* A step that writes neither rows nor workers nor messages (a change of the
\* invoice, a stored callback) keeps what the invariant says about them.
LEMMA MessageFrame ==
  ASSUME MessageInv,
         UNCHANGED <<notification, recipients, attempts, worker, accepted>>
  PROVE  MessageInv'
<1> USE DEF MessageInv
<1>1. (ApprovedRows /\ RowsMatch /\ AttemptsLeft)'
  BY DEF ApprovedRows, RowsMatch, AttemptsLeft, Approved, HasRow
<1>2. (CandidateHasJob /\ HolderOwnsAttempt)'
  BY DEF CandidateHasJob, HolderOwnsAttempt, Holding
<1>3. OneHolder'
  BY DEF OneHolder, Holding
<1>4. ResultsAreTrue'
  BY DEF ResultsAreTrue, ResultOf, Message
<1>5. AcceptedIsLast'
  BY DEF AcceptedIsLast, Holding
<1>6. (MessageIdsAreTrue /\ AttemptLogIsAhead)'
  BY DEF MessageIdsAreTrue, AttemptLogIsAhead
<1> QED
  BY <1>1, <1>2, <1>3, <1>4, <1>5, <1>6

\* The updates that the triggers of migration 0003 and the confirmation of
\* readiness make to an invoice give an invoice.
LEMMA InvoiceUpdate ==
  ASSUME NEW i \in Invoice, NEW r \in 1..MaxRevision, NEW b \in BOOLEAN,
         NEW g \in 0..MaxRevision, NEW c \in 0..MaxCatalog
  PROVE  /\ [i EXCEPT !.revision = r, !.ready = b] \in Invoice
         /\ [i EXCEPT !.revision = r, !.ready = b, !.generation = g] \in Invoice
         /\ [i EXCEPT !.catalog = c] \in Invoice
  BY DEF Invoice

\* A change of the invoice or of its rendered data (migration 0003, readiness.rs
\* confirm) keeps the invariant.
LEMMA InvoiceKeeps ==
  ASSUME IInv, InvoiceStep PROVE IInv'
<1>1. /\ invoice \in Invoice
      /\ invoice.generation < invoice.revision
      /\ invoice.revision \in 1..MaxRevision /\ invoice.generation \in 0..MaxRevision
      /\ invoice.ready \in BOOLEAN /\ invoice.catalog \in 0..MaxCatalog
  BY DEF IInv, TypeOK, StoreTypeOK, GenerationsTrail, Invoice
<1>2. invoice' \in Invoice /\ invoice'.generation < invoice'.revision
  <2>1. CASE ChangeInvoice
    <3>1. PICK ready \in BOOLEAN :
            invoice' = [invoice EXCEPT !.revision = invoice.revision + 1, !.ready = ready]
      BY <1>1, <2>1 DEF ChangeInvoice
    <3>2. invoice.revision + 1 \in 1..MaxRevision
      BY <1>1, <2>1, BoundsAssumption DEF ChangeInvoice
    <3>3. invoice' \in Invoice
      BY <1>1, <3>1, <3>2, InvoiceUpdate
    <3>4. invoice'.generation = invoice.generation /\ invoice'.revision = invoice.revision + 1
      BY <1>1, <3>1 DEF Invoice
    <3> QED
      BY <1>1, <3>3, <3>4, BoundsAssumption
  <2>2. CASE ConfirmReady
    <3>1. invoice' = [invoice EXCEPT !.revision = invoice.revision + 1, !.ready = TRUE,
                                     !.generation = invoice.generation + 1]
      BY <2>2 DEF ConfirmReady
    <3>2. invoice.revision + 1 \in 1..MaxRevision /\ invoice.generation + 1 \in 0..MaxRevision
      BY <1>1, <2>2, BoundsAssumption DEF ConfirmReady
    <3>3. invoice' \in Invoice
      BY <1>1, <3>1, <3>2, InvoiceUpdate
    <3>4. /\ invoice'.generation = invoice.generation + 1
          /\ invoice'.revision = invoice.revision + 1
      BY <1>1, <3>1 DEF Invoice
    <3> QED
      BY <1>1, <3>3, <3>4, BoundsAssumption
  <2>3. CASE EditCatalog
    <3>1. invoice.catalog + 1 \in 0..MaxCatalog
      BY <1>1, <2>3, BoundsAssumption DEF EditCatalog
    <3>2. invoice' = [invoice EXCEPT !.catalog = invoice.catalog + 1]
      BY <2>3 DEF EditCatalog
    <3>3. invoice' \in Invoice
      BY <1>1, <3>1, <3>2, InvoiceUpdate
    <3> QED
      BY <1>1, <3>2, <3>3 DEF Invoice
  <2> QED
    BY <2>1, <2>2, <2>3 DEF InvoiceStep
<1>3. UNCHANGED <<notification, recipients, attempts, staff, clock, worker, accepted,
                  pending, processed>>
  BY DEF InvoiceStep, ChangeInvoice, ConfirmReady, EditCatalog, approvalVars,
         workerVars, webhookVars
<1>4. TypeOK' /\ GenerationsTrail' /\ SendsAreTimed'
  BY <1>2, <1>3 DEF IInv, TypeOK, StoreTypeOK, ApprovalTypeOK, WorkerTypeOK,
         WebhookTypeOK, GenerationsTrail, SendsAreTimed
<1>5. MessageInv'
  BY <1>3, MessageFrame DEF IInv, MessageInv
<1> QED
  BY <1>4, <1>5 DEF IInv, MessageInv

-----------------------------------------------------------------------------
(***************************************************************************)
(* Most steps leave what workers and the provider know alone: a recipient  *)
(* changes only before it was claimed, or by the recovery of its lease,    *)
(* and a worker moves on without a message having left.                    *)
(***************************************************************************)
Unstarted == {"none", "draft", "queued", "cancelled"}

QuietRecipient(d) ==
    \/ recipients'[d] = recipients[d]
    \/ /\ recipients[d].status \in Unstarted
       /\ recipients'[d].status \in Unstarted
       /\ recipients'[d].provider_message_id = 0
    \/ /\ recipients[d].status = "submitting"
       /\ recipients'[d] = [recipients[d] EXCEPT !.status = "uncertain"]

QuietWorker(w) ==
    \/ worker'[w] = worker[w]
    \/ worker'[w].pc = "idle"
    \/ worker'[w].pc = "candidate" /\ worker'[w].job \in Delivery
    \/ /\ worker[w].pc \in {"preflight", "send", "post"}
       /\ worker'[w].job = worker[w].job
       /\ worker'[w].attempt = worker[w].attempt
       /\ \/ worker'[w].pc = "send"
          \/ /\ worker'[w].pc = "finish"
             /\ worker'[w].result \in {Failure("cancelled", FALSE)}
                                      \cup {Failure("failed", retry) : retry \in BOOLEAN}

QuietStep ==
    /\ UNCHANGED <<attempts, accepted>>
    /\ \A d \in Delivery : QuietRecipient(d)
    /\ \A w \in Worker : QuietWorker(w)

HolderInv ==
    /\ CandidateHasJob /\ HolderOwnsAttempt /\ OneHolder /\ ResultsAreTrue
    /\ AcceptedIsLast /\ MessageIdsAreTrue /\ AttemptLogIsAhead

\* A quiet step keeps everything the invariant says about holders and messages.
LEMMA QuietKeeps ==
  ASSUME TypeOK, TypeOK', HolderInv, QuietStep
  PROVE  HolderInv'
<1>1. \A w \in Worker : Holding(w)' =>
        /\ Holding(w)
        /\ worker'[w].job = worker[w].job
        /\ worker'[w].attempt = worker[w].attempt
        /\ worker[w].job \in Delivery
  BY DEF QuietStep, QuietWorker, Holding, HolderInv, CandidateHasJob
<1>2. \A d \in Delivery :
        recipients[d].status \notin Unstarted =>
          /\ recipients'[d].attempt_count = recipients[d].attempt_count
          /\ recipients'[d].provider_message_id = recipients[d].provider_message_id
          /\ \/ recipients'[d].status = recipients[d].status
             \/ recipients[d].status = "submitting" /\ recipients'[d].status = "uncertain"
  BY DEF QuietStep, QuietRecipient, Unstarted, TypeOK, StoreTypeOK, Recipient
<1>3. CandidateHasJob'
  BY <1>1 DEF QuietStep, QuietWorker, HolderInv, CandidateHasJob
<1>4. HolderOwnsAttempt'
  BY <1>1, <1>2 DEF HolderInv, HolderOwnsAttempt, Unstarted
<1>5. OneHolder'
  BY <1>1 DEF HolderInv, OneHolder
<1>6. AcceptedIsLast'
  <2> SUFFICES ASSUME NEW d \in Delivery, NEW a \in Attempt, <<d, a>> \in accepted
               PROVE  /\ a = recipients'[d].attempt_count
                      /\ recipients'[d].status \in {"submitting", "uncertain", "accepted",
                                                    "delivered", "read", "failed"}
                      /\ recipients'[d].status = "failed"
                           => recipients'[d].provider_message_id = a
                      /\ \A w \in Worker : Holding(w)' /\ worker'[w].job = d =>
                           /\ worker'[w].pc = "finish"
                           /\ worker'[w].result \in {MessageId(a), UnknownReply}
    BY DEF AcceptedIsLast, QuietStep
  <2>1. /\ a = recipients[d].attempt_count
        /\ recipients[d].status \in {"submitting", "uncertain", "accepted",
                                      "delivered", "read", "failed"}
        /\ recipients[d].status = "failed" => recipients[d].provider_message_id = a
        /\ \A w \in Worker : Holding(w) /\ worker[w].job = d =>
             worker[w].pc = "finish" /\ worker[w].result \in {MessageId(a), UnknownReply}
    BY DEF HolderInv, AcceptedIsLast
  <2>2. \A w \in Worker : Holding(w)' /\ worker'[w].job = d => worker'[w] = worker[w]
    BY <1>1, <2>1 DEF QuietStep, QuietWorker, Holding
  <2> QED
    BY <1>1, <1>2, <2>1, <2>2 DEF Unstarted
<1>7. MessageIdsAreTrue'
  <2> SUFFICES ASSUME NEW d \in Delivery, recipients'[d].provider_message_id # 0
               PROVE  /\ <<d, recipients'[d].provider_message_id>> \in accepted
                      /\ recipients'[d].status \in {"accepted", "delivered", "read", "failed"}
    BY DEF MessageIdsAreTrue, QuietStep
  <2>1. recipients[d].provider_message_id # 0 =>
          /\ <<d, recipients[d].provider_message_id>> \in accepted
          /\ recipients[d].status \in {"accepted", "delivered", "read", "failed"}
    BY DEF HolderInv, MessageIdsAreTrue
  <2>2. CASE recipients[d].status \in Unstarted
    BY <2>1, <2>2 DEF QuietStep, QuietRecipient, Unstarted
  <2>3. CASE recipients[d].status \notin Unstarted
    BY <1>2, <2>1, <2>3
  <2> QED
    BY <2>2, <2>3
<1>8. AttemptLogIsAhead'
  BY DEF HolderInv, AttemptLogIsAhead, QuietStep
<1>9. ResultsAreTrue'
  <2> SUFFICES ASSUME NEW w \in Worker
               PROVE  /\ worker'[w].pc = "finish" => worker'[w].result \in ResultOf(w)'
                      /\ worker'[w].pc = "finish" /\ worker'[w].result.message_id # 0
                           => Message(w)' \in accepted'
                      /\ worker'[w].pc = "post" =>
                           attempts'[worker'[w].job][worker'[w].attempt] = "request_started"
    BY DEF ResultsAreTrue
  <2>1. CASE worker'[w] = worker[w]
    BY <2>1 DEF HolderInv, ResultsAreTrue, ResultOf, Message, QuietStep
  <2>2. CASE worker'[w] # worker[w]
    <3>1. CASE worker'[w].pc = "finish"
      <4>1. worker'[w].result \in {Failure("cancelled", FALSE)}
                                  \cup {Failure("failed", retry) : retry \in BOOLEAN}
        BY <2>2, <3>1 DEF QuietStep, QuietWorker
      <4> QED
        BY <3>1, <4>1 DEF ResultOf, Failure
    <3>2. CASE worker'[w].pc # "finish"
      BY <2>2, <3>2 DEF QuietStep, QuietWorker
    <3> QED
      BY <3>1, <3>2
  <2> QED
    BY <2>1, <2>2
<1> QED
  BY <1>3, <1>4, <1>5, <1>6, <1>7, <1>8, <1>9 DEF HolderInv

-----------------------------------------------------------------------------
(* Row changes that several steps share. *)

RowInv == ApprovedRows /\ RowsMatch /\ AttemptsLeft

\* The updates of a notification row give a row.
LEMMA RowTypes ==
  ASSUME StoreTypeOK, NEW n \in Notification
  PROVE  /\ notification[n] \in Row
         /\ \A v \in {"draft", "approved", "stale", "cancelled", "deleted"} :
              [notification[n] EXCEPT !.state = v] \in Row
         /\ \A t \in Nat :
              [notification[n] EXCEPT !.state = "approved", !.approved_at = t] \in Row
         /\ [notification[n] EXCEPT !.preview_version =
               notification[n].preview_version + 1] \in Row
<1>1. notification[n] \in Row
  BY DEF StoreTypeOK
<1>2. \A v \in {"draft", "approved", "stale", "cancelled", "deleted"} :
        [notification[n] EXCEPT !.state = v] \in Row
  BY <1>1 DEF Row
<1>3. \A t \in Nat :
        [notification[n] EXCEPT !.state = "approved", !.approved_at = t] \in Row
  BY <1>1 DEF Row
<1>4. notification[n].preview_version + 1 \in Nat
  BY <1>1 DEF Row
<1>5. \A t \in Nat : [notification[n] EXCEPT !.preview_version = t] \in Row
  BY <1>1 DEF Row
<1> QED
  BY <1>1, <1>2, <1>3, <1>4, <1>5

\* The updates of a recipient row give a recipient row.
LEMMA RecipientTypes ==
  ASSUME NEW row \in Recipient, NEW status \in RecipientStatus
  PROVE  /\ [row EXCEPT !.status = status] \in Recipient
         /\ \A id \in 0..MaxAttempts :
              /\ [row EXCEPT !.status = status, !.attempt_count = id] \in Recipient
              /\ [row EXCEPT !.status = status, !.provider_message_id = id] \in Recipient
  BY DEF Recipient

\* Withdrawing a notification, to stale or cancelled, together with its unstarted
\* sends (repository.rs cancel_unstarted) is quiet and keeps the rows consistent.
LEMMA WithdrawKeeps ==
  ASSUME IInv, NEW n \in Notification, HasRow(n), NEW v \in {"stale", "cancelled"},
         notification' = [notification EXCEPT ![n].state = v],
         recipients' = CancelUnstarted(n)
  PROVE  /\ notification' \in [Notification -> Row]
         /\ recipients' \in [Delivery -> Recipient]
         /\ RowInv'
         /\ \A d \in Delivery : QuietRecipient(d)
<1> USE DEF IInv, TypeOK, StoreTypeOK
<1>1. notification' \in [Notification -> Row]
  BY RowTypes
<1>2. recipients' \in [Delivery -> Recipient]
  <2>1. "cancelled" \in RecipientStatus
    BY DEF RecipientStatus
  <2> QED
    BY <2>1, RecipientTypes DEF CancelUnstarted
<1>3. \A x \in Notification :
        /\ notification'[x].approved_at = notification[x].approved_at
        /\ notification'[x].state = IF x = n THEN v ELSE notification[x].state
  BY DEF Row
<1>4. \A d \in Delivery :
        IF d[1] = n /\ recipients[d].status \in {"draft", "queued"}
        THEN /\ recipients'[d].status = "cancelled"
             /\ recipients'[d].provider_message_id = recipients[d].provider_message_id
        ELSE recipients'[d] = recipients[d]
  BY DEF CancelUnstarted, Recipient
<1>5. \A d \in Delivery : d[1] \in Notification
  BY DEF Delivery
<1>6. ApprovedRows'
  BY <1>3 DEF ApprovedRows, Approved
<1>7. RowsMatch'
  BY <1>3, <1>4, <1>5 DEF RowsMatch, Approved, HasRow
<1>8. AttemptsLeft'
  BY <1>4 DEF AttemptsLeft
<1>9. \A d \in Delivery : QuietRecipient(d)
  BY <1>4 DEF QuietRecipient, Unstarted, MessageIdsAreTrue
<1> QED
  BY <1>1, <1>2, <1>6, <1>7, <1>8, <1>9 DEF RowInv

\* Deleting previews that were never approved is quiet (repository.rs
\* delete_preview, cleanup).
LEMMA DeleteKeeps ==
  ASSUME IInv, NEW S \in SUBSET Notification, \A n \in S : ~Approved(n), DeleteRows(S)
  PROVE  /\ notification' \in [Notification -> Row]
         /\ recipients' \in [Delivery -> Recipient]
         /\ RowInv'
         /\ \A d \in Delivery : QuietRecipient(d)
<1> USE DEF IInv, TypeOK, StoreTypeOK, DeleteRows
<1>2. notification' \in [Notification -> Row] /\ recipients' \in [Delivery -> Recipient]
  BY EmptyRows
<1>3. \A x \in Notification :
        IF x \in S
        THEN notification'[x].state = "deleted" /\ notification'[x].approved_at = 0
        ELSE notification'[x] = notification[x]
  BY DEF DeletedRow, AbsentRow
<1>4. \A d \in Delivery :
        IF d[1] \in S
        THEN /\ recipients'[d].status = "none" /\ recipients'[d].attempt_count = 0
             /\ recipients'[d].provider_message_id = 0
        ELSE recipients'[d] = recipients[d]
  BY DEF NoRecipient
<1>5. \A d \in Delivery : d[1] \in Notification
  BY DEF Delivery
<1>6. ApprovedRows'
  BY <1>3 DEF ApprovedRows, Approved
<1>7. RowsMatch'
  BY <1>3, <1>4, <1>5 DEF RowsMatch, Approved, HasRow
<1>8. AttemptsLeft'
  BY <1>4 DEF AttemptsLeft
<1>9. \A d \in Delivery : QuietRecipient(d)
  BY <1>4 DEF QuietRecipient, Unstarted, RowsMatch
<1> QED
  BY <1>2, <1>6, <1>7, <1>8, <1>9 DEF RowInv

\* A quiet step keeps the invariant as soon as it keeps types and row facts.
LEMMA QuietFinish ==
  ASSUME IInv, TypeOK', GenerationsTrail', SendsAreTimed', RowInv', QuietStep
  PROVE  IInv'
  BY QuietKeeps DEF IInv, HolderInv, RowInv

-----------------------------------------------------------------------------
(* Staff requests. *)

\* A request changes only what it holds itself.
RequestStep(s) ==
    /\ staff' \in [Staff -> {IdleStaff} \cup PrepareRequest \cup ApproveRequest]
    /\ clock' \in 0..MaxClock
    /\ \A t \in Staff \ {s} : staff'[t] = staff[t]
    /\ staff'[s].pc = "approving" /\ staff'[s].send => staff'[s].now # 0

\* Only a Send request carries the time of its transaction; see ApproveRead.
LEMMA RequestsAreTimed ==
  ASSUME IInv, NEW s \in Staff, RequestStep(s)
  PROVE  SendsAreTimed'
  BY DEF IInv, SendsAreTimed, RequestStep

\* A step that changes only what a staff request holds keeps the invariant.
LEMMA RequestKeeps ==
  ASSUME IInv, NEW s \in Staff, RequestStep(s),
         UNCHANGED <<storeVars, workerVars, webhookVars>>
  PROVE  IInv'
<1>1. SendsAreTimed'
  BY RequestsAreTimed
<1>2. TypeOK' /\ GenerationsTrail'
  BY DEF IInv, TypeOK, StoreTypeOK, ApprovalTypeOK, WorkerTypeOK, WebhookTypeOK,
         RequestStep, GenerationsTrail, storeVars, workerVars, webhookVars
<1>3. MessageInv'
  BY MessageFrame DEF IInv, MessageInv, storeVars, workerVars
<1> QED
  BY <1>1, <1>2, <1>3 DEF IInv, MessageInv

\* A request that ends is such a step.
LEMMA IdleAgain ==
  ASSUME IInv, NEW s \in Staff, staff' = [staff EXCEPT ![s] = IdleStaff],
         UNCHANGED clock
  PROVE  RequestStep(s)
  BY DEF IInv, TypeOK, ApprovalTypeOK, RequestStep, IdleStaff

\* The fingerprint of the present invoice (service.rs source) has its type.
LEMMA HashType ==
  ASSUME StoreTypeOK, NEW kind
  PROVE  SourceHash(kind) \in Hash
  BY BoundsAssumption DEF StoreTypeOK, Invoice, Hash, SourceHash, IsPickup

\* The event key of a request (service.rs prepare) has its type.
LEMMA EventKeyType ==
  ASSUME StoreTypeOK, NEW kind \in Kind, NEW original, NEW q \in Request
  PROVE  EventKey(kind, original, q) \in EventKeys
<1>1. q \in Nat /\ invoice.revision \in Nat /\ invoice.generation \in Nat
  BY RequestAssumption, BoundsAssumption DEF StoreTypeOK, Invoice
<1> QED
  BY <1>1 DEF EventKey, EventKeys

\* Rendering a preview before the lock keeps the invariant.
LEMMA PrepareReadKeeps ==
  ASSUME IInv, NEW s \in Staff, NEW kind \in Kind, NEW original \in Notification \cup {None},
         NEW q \in Request, PrepareRead(s, kind, original, q),
         UNCHANGED <<workerVars, webhookVars>>
  PROVE  IInv'
<1>1. [pc |-> "rendering", kind |-> kind, resend_of |-> original,
       event_key |-> EventKey(kind, original, q), source_hash |-> SourceHash(kind)]
        \in PrepareRequest
  BY HashType, EventKeyType DEF PrepareRequest, IInv, TypeOK
<1>2. RequestStep(s)
  BY <1>1 DEF IInv, TypeOK, ApprovalTypeOK, RequestStep, PrepareRead
<1> QED
  BY <1>2, RequestKeeps DEF PrepareRead

\* Reading and checking before approval keeps the invariant.
LEMMA ApproveReadKeeps ==
  ASSUME IInv, NEW s \in Staff, NEW n \in Notification, NEW selected \in SUBSET Mobile,
         NEW send \in BOOLEAN, ApproveRead(s, n, selected, send),
         UNCHANGED <<workerVars, webhookVars>>
  PROVE  IInv'
<1>1. clock \in 0..MaxClock /\ notification[n] \in Row /\ invoice \in Invoice
  BY DEF IInv, TypeOK, ApprovalTypeOK, StoreTypeOK
<1>2. clock' \in 0..MaxClock /\ (send => clock' # 0)
  BY <1>1, ClockAssumption DEF ApproveRead
<1>3. clock' \in Nat /\ invoice.revision \in 0..MaxRevision
      /\ notification[n].preview_version \in Nat
  BY <1>1, <1>2, ClockAssumption, BoundsAssumption DEF Invoice, Row
<1> DEFINE p == [pc |-> "approving", notification |-> n, selected |-> selected,
                 send |-> send, version |-> notification[n].preview_version,
                 revision |-> invoice.revision, now |-> clock']
<1>4. p \in ApproveRequest
  BY <1>3 DEF ApproveRequest
<1>5. p.send = send /\ p.now = clock'
  OBVIOUS
<1>6. staff' = [staff EXCEPT ![s] = p]
  BY DEF ApproveRead
<1> HIDE DEF p
<1>7. RequestStep(s)
  BY <1>2, <1>4, <1>5, <1>6 DEF IInv, TypeOK, ApprovalTypeOK, RequestStep
<1> QED
  BY <1>7, RequestKeeps DEF ApproveRead

\* Requests that end without a write keep the invariant.
LEMMA ReturnKeeps ==
  ASSUME IInv, NEW s \in Staff, PrepareReturn(s) \/ ApproveReturn(s),
         UNCHANGED <<workerVars, webhookVars>>
  PROVE  IInv'
  BY IdleAgain, RequestKeeps DEF PrepareReturn, ApproveReturn

-----------------------------------------------------------------------------
(* Requests that write notifications and recipients. *)

\* What is left to show of a step that writes only these rows.
RowsStep ==
    /\ notification' \in [Notification -> Row]
    /\ recipients' \in [Delivery -> Recipient]
    /\ RowInv'
    /\ \A d \in Delivery : QuietRecipient(d)
    /\ UNCHANGED <<invoice, attempts, workerVars>>

\* A step of that form keeps the invariant if requests and callbacks keep types.
LEMMA RowsKeep ==
  ASSUME IInv, RowsStep, ApprovalTypeOK', SendsAreTimed', WebhookTypeOK'
  PROVE  IInv'
<1>1. TypeOK' /\ GenerationsTrail'
  BY DEF IInv, TypeOK, StoreTypeOK, WorkerTypeOK, RowsStep, GenerationsTrail, workerVars
<1>2. QuietStep
  BY DEF RowsStep, QuietStep, QuietWorker, workerVars
<1> QED
  BY <1>1, <1>2, QuietFinish DEF RowsStep

\* The same for a step that ends the request it belongs to.
LEMMA IdleRowsKeep ==
  ASSUME IInv, RowsStep, UNCHANGED <<clock, webhookVars>>,
         \/ UNCHANGED staff
         \/ \E s \in Staff : staff' = [staff EXCEPT ![s] = IdleStaff]
  PROVE  IInv'
<1>1. ApprovalTypeOK' /\ SendsAreTimed'
  <2>1. CASE UNCHANGED staff
    BY <2>1 DEF IInv, TypeOK, ApprovalTypeOK, SendsAreTimed
  <2>2. ASSUME NEW s \in Staff, staff' = [staff EXCEPT ![s] = IdleStaff]
        PROVE  ApprovalTypeOK' /\ SendsAreTimed'
    BY <2>2, IdleAgain, RequestsAreTimed DEF RequestStep, ApprovalTypeOK
  <2> QED
    BY <2>1, <2>2
<1>2. WebhookTypeOK'
  BY DEF IInv, TypeOK, WebhookTypeOK, webhookVars
<1> QED
  BY <1>1, <1>2, RowsKeep

\* Marking a notification stale (repository.rs mark_stale) has that form.
LEMMA MarkStaleRows ==
  ASSUME IInv, NEW n \in Notification, HasRow(n), MarkStale(n)
  PROVE  /\ notification' \in [Notification -> Row]
         /\ recipients' \in [Delivery -> Recipient]
         /\ RowInv'
         /\ \A d \in Delivery : QuietRecipient(d)
<1>1. notification[n].state \in {"draft", "approved", "stale", "cancelled"}
  BY DEF IInv, TypeOK, StoreTypeOK, Row, HasRow
<1>2. PICK v \in {"stale", "cancelled"} : notification' = [notification EXCEPT ![n].state = v]
  BY <1>1 DEF MarkStale, Active
<1> QED
  BY <1>2, WithdrawKeeps DEF MarkStale

\* Cancel, discard and the stale answer of approve keep the invariant.
LEMMA WithdrawalsKeep ==
  ASSUME IInv, NEW n \in Notification,
         ApproveFindsStale(n) \/ Cancel(n) \/ DiscardPreview(n),
         UNCHANGED <<workerVars, webhookVars>>
  PROVE  IInv'
<1>1. RowsStep
  <2>1. CASE ApproveFindsStale(n)
    BY <2>1, MarkStaleRows DEF ApproveFindsStale, RowsStep
  <2>2. CASE Cancel(n)
    BY <2>2, WithdrawKeeps DEF Cancel, RowsStep
  <2>3. CASE DiscardPreview(n)
    BY <2>3, DeleteKeeps DEF DiscardPreview, RowsStep
  <2> QED
    BY <2>1, <2>2, <2>3
<1> QED
  BY <1>1, IdleRowsKeep DEF ApproveFindsStale, Cancel, DiscardPreview

\* The hourly cleanup (repository.rs cleanup) keeps the invariant.
LEMMA CleanupKeeps ==
  ASSUME IInv, CleanupStep PROVE IInv'
<1>1. PICK aged \in SUBSET Notification, old \in SUBSET (pending \cup processed) :
        CleanupPreviews(aged) /\ ExpireWebhooks(old)
  BY DEF CleanupStep
<1> DEFINE S == {n \in Notification :
                   /\ HasRow(n)
                   /\ ~Approved(n)
                   /\ notification[n].state \in {"stale", "cancelled"} \/ n \in aged}
<1>2. S \in SUBSET Notification /\ \A n \in S : ~Approved(n)
  OBVIOUS
<1>3. DeleteRows(S) /\ UNCHANGED <<invoice, attempts, staff, clock>>
  BY <1>1 DEF CleanupPreviews
<1> HIDE DEF S
<1>4. RowsStep
  BY <1>2, <1>3, DeleteKeeps DEF RowsStep, CleanupStep
<1>5. ApprovalTypeOK' /\ SendsAreTimed' /\ WebhookTypeOK'
  BY <1>1, <1>3 DEF IInv, TypeOK, ApprovalTypeOK, SendsAreTimed, WebhookTypeOK, ExpireWebhooks
<1> QED
  BY <1>4, <1>5, RowsKeep

\* Inserting a preview, after withdrawing the active one of its event
\* (service.rs prepare), keeps the invariant.
LEMMA PrepareInsertKeeps ==
  ASSUME IInv, NEW s \in Staff, NEW n \in Notification, PrepareInsert(s, n),
         UNCHANGED <<workerVars, webhookVars>>
  PROVE  IInv'
<1> DEFINE p == staff[s]
           older == ActiveEvent(p.event_key)
           row == [AbsentRow EXCEPT !.state = "draft", !.kind = p.kind,
                     !.event_key = p.event_key, !.source_hash = p.source_hash,
                     !.resend_of = p.resend_of]
           fresh == [NoRecipient EXCEPT !.status = "draft", !.selected = TRUE]
<1>1. p \in PrepareRequest
  BY DEF IInv, TypeOK, ApprovalTypeOK, PrepareInsert, ApproveRequest, IdleStaff
<1>2. row \in Row /\ row.state = "draft" /\ row.approved_at = 0
  BY <1>1, EmptyRows DEF PrepareRequest, Row, AbsentRow
<1>3. /\ fresh \in Recipient /\ fresh.status = "draft"
      /\ fresh.attempt_count = 0 /\ fresh.provider_message_id = 0
  BY EmptyRows DEF Recipient, NoRecipient, RecipientStatus
<1>4. /\ \A x \in Notification :
           notification'[x] = IF x = n THEN row
                              ELSE IF x \in older THEN [notification[x] EXCEPT !.state = "stale"]
                              ELSE notification[x]
      /\ \A d \in Delivery :
           recipients'[d] = IF d[1] = n THEN fresh
                            ELSE IF d[1] \in older THEN CancelUnstarted(d[1])[d]
                            ELSE recipients[d]
      /\ notification' = [x \in Notification |-> notification'[x]]
      /\ recipients' = [d \in Delivery |-> recipients'[d]]
  BY DEF PrepareInsert
<1>5. \A x \in older : Active(x) /\ x # n
  BY DEF ActiveEvent, Active, PrepareInsert
<1> HIDE DEF row, fresh, older, p
<1>6. \A d \in Delivery :
        /\ recipients[d] \in Recipient
        /\ d[1] \in Notification
        /\ d[1] \in older =>
            recipients'[d] = IF recipients[d].status \in {"draft", "queued"}
                             THEN [recipients[d] EXCEPT !.status = "cancelled"]
                             ELSE recipients[d]
  BY <1>4, <1>5 DEF CancelUnstarted, IInv, TypeOK, StoreTypeOK, Delivery
<1>7. \A d \in Delivery : recipients'[d] \in Recipient
  <2>1. "cancelled" \in RecipientStatus
    BY DEF RecipientStatus
  <2>2. \A d \in Delivery : [recipients[d] EXCEPT !.status = "cancelled"] \in Recipient
    BY <1>6, <2>1, RecipientTypes
  <2> QED
    BY <1>3, <1>4, <1>6, <2>2
<1>8. \A x \in Notification : notification'[x] \in Row
  BY <1>2, <1>4, RowTypes DEF IInv, TypeOK
<1>9. \A x \in Notification :
        /\ x # n => notification'[x].approved_at = notification[x].approved_at
        /\ x = n => notification'[x].state = "draft" /\ notification'[x].approved_at = 0
        /\ x # n => notification'[x].state \in {notification[x].state, "stale"}
        /\ x \in older => notification'[x].state = "stale"
        /\ x \notin older /\ x # n => notification'[x].state = notification[x].state
  BY <1>2, <1>4, <1>5 DEF IInv, TypeOK, StoreTypeOK, Row
<1>10. \A d \in Delivery :
        /\ d[1] = n => /\ recipients[d].status = "none"
                       /\ recipients'[d].status = "draft"
                       /\ recipients'[d].attempt_count = 0
                       /\ recipients'[d].provider_message_id = 0
        /\ d[1] \in older =>
             IF recipients[d].status \in {"draft", "queued"}
             THEN /\ recipients'[d].status = "cancelled"
                  /\ recipients'[d].provider_message_id = recipients[d].provider_message_id
             ELSE recipients'[d] = recipients[d]
        /\ d[1] # n /\ d[1] \notin older => recipients'[d] = recipients[d]
  <2>1. \A d \in Delivery : d[1] = n => recipients[d].status = "none"
    BY DEF IInv, RowsMatch, PrepareInsert, HasRow
  <2>2. \A d \in Delivery : d[1] \in older => d[1] # n
    BY <1>5
  <2>3. \A d \in Delivery :
          LET row2 == [recipients[d] EXCEPT !.status = "cancelled"] IN
          /\ row2.status = "cancelled"
          /\ row2.provider_message_id = recipients[d].provider_message_id
    BY <1>6 DEF Recipient
  <2> TAKE d \in Delivery
  <2>4. CASE d[1] = n
    BY <1>3, <1>4, <2>1, <2>2, <2>4
  <2>5. CASE d[1] \in older
    BY <1>6, <2>2, <2>3, <2>5
  <2>6. CASE d[1] # n /\ d[1] \notin older
    BY <1>4, <2>6
  <2> QED
    BY <2>4, <2>5, <2>6
<1>11. ApprovedRows'
  BY <1>9 DEF IInv, ApprovedRows, Approved
<1>12. RowsMatch'
  <2> SUFFICES ASSUME NEW d \in Delivery
               PROVE  /\ notification'[d[1]].state = "draft" => recipients'[d].status = "draft"
                      /\ ~HasRow(d[1])' => recipients'[d].status = "none"
                      /\ recipients'[d].status \notin {"none", "draft", "cancelled"}
                           => Approved(d[1])' /\ recipients'[d].selected
    BY DEF RowsMatch
  <2>1. CASE d[1] = n
    BY <1>6, <1>9, <1>10, <2>1 DEF HasRow
  <2>2. CASE d[1] \in older
    <3>1. d[1] # n /\ Active(d[1]) /\ notification'[d[1]].state = "stale"
      BY <1>5, <1>6, <1>9, <2>2
    <3>2. recipients[d].status \notin {"none", "draft", "cancelled"}
            => Approved(d[1]) /\ recipients[d].selected
      BY DEF IInv, RowsMatch
    <3>3. Approved(d[1])' = Approved(d[1])
      BY <1>6, <1>9, <3>1 DEF Approved
    <3> QED
      BY <1>10, <2>2, <3>1, <3>2, <3>3 DEF HasRow
  <2>3. CASE d[1] # n /\ d[1] \notin older
    <3>1. /\ recipients'[d] = recipients[d]
          /\ notification'[d[1]].state = notification[d[1]].state
          /\ notification'[d[1]].approved_at = notification[d[1]].approved_at
      BY <1>6, <1>9, <1>10, <2>3
    <3> QED
      BY <3>1 DEF IInv, RowsMatch, Approved, HasRow
  <2> QED
    BY <2>1, <2>2, <2>3
<1>13. AttemptsLeft'
  BY <1>5, <1>10 DEF IInv, AttemptsLeft
<1>14. \A d \in Delivery : QuietRecipient(d)
  BY <1>10 DEF IInv, QuietRecipient, Unstarted, MessageIdsAreTrue
<1>15. RowsStep
  BY <1>4, <1>7, <1>8, <1>11, <1>12, <1>13, <1>14 DEF RowsStep, RowInv, PrepareInsert
<1> QED
  BY <1>15, IdleRowsKeep DEF PrepareInsert

\* Saving a selection and approving (service.rs approve) keep the invariant:
\* only the recipients of this draft change, and only chosen ones are queued.
LEMMA SelectionKeeps ==
  ASSUME IInv, NEW s \in Staff, Approve(s) \/ SaveSelection(s),
         UNCHANGED <<workerVars, webhookVars>>
  PROVE  IInv'
<1> DEFINE p == staff[s]
           n == p.notification
           row == IF p.send
                  THEN [notification[n] EXCEPT !.state = "approved", !.approved_at = p.now]
                  ELSE [notification[n] EXCEPT !.preview_version =
                          notification[n].preview_version + 1]
<1>1. /\ p \in ApproveRequest /\ n \in Notification
      /\ p.send => p.now # 0
      /\ p.now \in Nat
  <2>1. p.pc = "approving"
    BY DEF Approve, SaveSelection
  <2>2. p \in ApproveRequest
    BY <2>1 DEF IInv, TypeOK, ApprovalTypeOK, PrepareRequest, IdleStaff
  <2>3. p.send => p.now # 0
    BY <2>1 DEF IInv, SendsAreTimed
  <2> QED
    BY <2>2, <2>3 DEF ApproveRequest
<1>2. /\ notification[n].state = "draft" /\ notification[n] \in Row
      /\ ~Approved(n)
      /\ \A d \in Delivery : d[1] = n => recipients[d].status = "draft"
  BY <1>1 DEF Approve, SaveSelection, ApprovalHolds, IInv, RowsMatch, TypeOK, StoreTypeOK,
     ApprovedRows
<1>3. notification' = [notification EXCEPT ![n] = row]
  <2>1. CASE Approve(s)
    BY <2>1, <1>1, <1>2 DEF Approve, IInv, TypeOK, StoreTypeOK, Row
  <2>2. CASE SaveSelection(s)
    BY <2>2, <1>1, <1>2 DEF SaveSelection, IInv, TypeOK, StoreTypeOK, Row
  <2> QED
    BY <2>1, <2>2
<1>4. row \in Row /\ row.state = (IF p.send THEN "approved" ELSE "draft")
      /\ (p.send => row.approved_at # 0) /\ (~p.send => row.approved_at = 0)
  <2>1. row \in Row
    <3>0. StoreTypeOK
      BY DEF IInv, TypeOK
    <3>1. [notification[n] EXCEPT !.state = "approved", !.approved_at = p.now] \in Row
      BY <1>1, <1>2, <3>0, RowTypes DEF ApproveRequest
    <3>2. [notification[n] EXCEPT !.preview_version = notification[n].preview_version + 1] \in Row
      BY <1>1, <3>0, RowTypes
    <3> QED
      BY <3>1, <3>2
  <2>2. p.send \in BOOLEAN
    BY <1>1 DEF ApproveRequest
  <2> QED
    BY <1>1, <1>2, <2>1, <2>2 DEF Row, Approved
<1>5. recipients' = SelectRecipients(n, p.selected, p.send)
  BY <1>1 DEF Approve, SaveSelection, ApproveRequest
<1>6. \A d \in Delivery :
        /\ recipients[d] \in Recipient /\ d[1] \in Notification
        /\ d[1] # n => recipients'[d] = recipients[d]
        /\ d[1] = n =>
             /\ recipients'[d] \in Recipient
             /\ recipients'[d].status \in {"draft", "queued"}
             /\ recipients'[d].status = "queued" => p.send /\ recipients'[d].selected
             /\ ~p.send => recipients'[d].status = "draft"
             /\ recipients'[d].attempt_count = recipients[d].attempt_count
             /\ recipients'[d].provider_message_id = recipients[d].provider_message_id
  <2> TAKE d \in Delivery
  <2>1. recipients[d] \in Recipient /\ d[1] \in Notification
    BY DEF IInv, TypeOK, StoreTypeOK, Delivery
  <2>2. CASE d[1] # n
    BY <1>5, <2>1, <2>2 DEF SelectRecipients
  <2>3. CASE d[1] = n
    <3> DEFINE chosen == d[2] \in p.selected
               status == IF p.send /\ chosen THEN "queued" ELSE "draft"
    <3>1. recipients'[d] = [recipients[d] EXCEPT !.selected = chosen, !.status = status]
      BY <1>5, <2>3 DEF SelectRecipients
    <3>2. status \in RecipientStatus /\ chosen \in BOOLEAN
      BY DEF RecipientStatus
    <3>3. /\ status \in {"queued", "draft"}
          /\ status = "queued" => p.send /\ chosen
      OBVIOUS
    <3> HIDE DEF status, chosen
    <3>4. recipients'[d] \in Recipient
      BY <2>1, <3>1, <3>2 DEF Recipient
    <3>5. /\ recipients'[d].status = status /\ recipients'[d].selected = chosen
          /\ recipients'[d].attempt_count = recipients[d].attempt_count
          /\ recipients'[d].provider_message_id = recipients[d].provider_message_id
      BY <2>1, <3>1 DEF Recipient
    <3>6. recipients'[d].status = "queued" => p.send /\ recipients'[d].selected
      BY <3>3, <3>5, Zenon
    <3>7. /\ recipients'[d].status \in {"draft", "queued"}
          /\ ~p.send => recipients'[d].status = "draft"
      BY <3>3, <3>5
    <3> QED
      BY <2>1, <2>3, <3>4, <3>5, <3>6, <3>7
  <2> QED
    BY <2>1, <2>2, <2>3
<1>7. recipients' = [d \in Delivery |-> recipients'[d]]
  BY <1>5 DEF SelectRecipients
<1> HIDE DEF row
<1>8. \A x \in Notification : notification'[x] = IF x = n THEN row ELSE notification[x]
  BY <1>1, <1>3 DEF IInv, TypeOK, StoreTypeOK
<1>9. ApprovedRows'
  BY <1>4, <1>8 DEF IInv, ApprovedRows, Approved
<1>10. RowsMatch'
  <2> SUFFICES ASSUME NEW d \in Delivery
               PROVE  /\ notification'[d[1]].state = "draft" => recipients'[d].status = "draft"
                      /\ ~HasRow(d[1])' => recipients'[d].status = "none"
                      /\ recipients'[d].status \notin {"none", "draft", "cancelled"}
                           => Approved(d[1])' /\ recipients'[d].selected
    BY DEF RowsMatch
  <2>1. CASE d[1] = n
    BY <1>4, <1>6, <1>8, <2>1 DEF HasRow, Approved
  <2>2. CASE d[1] # n
    BY <1>6, <1>8, <2>2 DEF IInv, RowsMatch, HasRow, Approved
  <2> QED
    BY <2>1, <2>2
<1>11. AttemptsLeft'
  BY <1>2, <1>6, AttemptsAssumption DEF IInv, AttemptsLeft
<1>12. \A d \in Delivery : QuietRecipient(d)
  BY <1>2, <1>6 DEF IInv, QuietRecipient, Unstarted, MessageIdsAreTrue
<1>13. RowsStep
  <2>1. notification' \in [Notification -> Row]
    BY <1>1, <1>3, <1>4 DEF IInv, TypeOK, StoreTypeOK
  <2>2. recipients' \in [Delivery -> Recipient]
    BY <1>6, <1>7
  <2> QED
    BY <1>9, <1>10, <1>11, <1>12, <2>1, <2>2 DEF RowsStep, RowInv, Approve, SaveSelection
<1> QED
  BY <1>13, IdleRowsKeep DEF Approve, SaveSelection

\* Every staff request keeps the invariant.
LEMMA StaffKeeps ==
  ASSUME IInv, StaffStep PROVE IInv'
<1>1. UNCHANGED <<workerVars, webhookVars>>
  BY DEF StaffStep
<1>2. ASSUME NEW s \in Staff, NEW kind \in Kind, NEW original \in Notification \cup {None},
             NEW q \in Request, PrepareRead(s, kind, original, q)
      PROVE  IInv'
  BY <1>1, <1>2, PrepareReadKeeps
<1>3. ASSUME NEW s \in Staff, NEW n \in Notification, PrepareInsert(s, n)
      PROVE  IInv'
  BY <1>1, <1>3, PrepareInsertKeeps
<1>4. ASSUME NEW s \in Staff, NEW n \in Notification, NEW selected \in SUBSET Mobile,
             NEW send \in BOOLEAN, ApproveRead(s, n, selected, send)
      PROVE  IInv'
  BY <1>1, <1>4, ApproveReadKeeps
<1>5. ASSUME NEW s \in Staff, PrepareReturn(s) \/ ApproveReturn(s)
      PROVE  IInv'
  BY <1>1, <1>5, ReturnKeeps
<1>6. ASSUME NEW s \in Staff, Approve(s) \/ SaveSelection(s)
      PROVE  IInv'
  BY <1>1, <1>6, SelectionKeeps
<1>7. ASSUME NEW n \in Notification, ApproveFindsStale(n) \/ Cancel(n) \/ DiscardPreview(n)
      PROVE  IInv'
  BY <1>1, <1>7, WithdrawalsKeep
<1> QED
  BY <1>2, <1>3, <1>4, <1>5, <1>6, <1>7 DEF StaffStep

-----------------------------------------------------------------------------
(* Worker steps that send nothing. *)

\* A worker step that writes only the worker, quietly, keeps the invariant.
LEMMA Unheld ==
  ASSUME IInv, NEW w \in Worker, NEW state \in WorkerState,
         worker' = [worker EXCEPT ![w] = state],
         UNCHANGED <<storeVars, accepted, approvalVars, webhookVars>>,
         QuietWorker(w)
  PROVE  IInv'
<1>1. TypeOK' /\ GenerationsTrail' /\ SendsAreTimed'
  BY DEF IInv, TypeOK, StoreTypeOK, ApprovalTypeOK, WorkerTypeOK, WebhookTypeOK,
         GenerationsTrail, SendsAreTimed, storeVars, approvalVars, webhookVars
<1>2. RowInv'
  BY DEF IInv, RowInv, ApprovedRows, RowsMatch, AttemptsLeft, Approved, HasRow, storeVars
<1>3. \A v \in Worker : QuietWorker(v)
  BY DEF QuietWorker, IInv, TypeOK, WorkerTypeOK
<1>4. QuietStep
  BY <1>3 DEF QuietStep, QuietRecipient, storeVars
<1> QED
  BY <1>1, <1>2, <1>4, QuietFinish

\* The states a worker moves to have their type.
LEMMA WorkerTypes ==
  ASSUME WorkerTypeOK, NEW w \in Worker
  PROVE  /\ worker[w] \in WorkerState /\ IdleWorker \in WorkerState
         /\ \A d \in Delivery :
              [worker[w] EXCEPT !.pc = "candidate", !.job = d] \in WorkerState
         /\ \A pc \in {"send", "post"} : [worker[w] EXCEPT !.pc = pc] \in WorkerState
         /\ \A result \in Result :
              [worker[w] EXCEPT !.pc = "finish", !.result = result] \in WorkerState
         /\ \A number \in 0..MaxAttempts, claimed \in 0..MaxRevision :
              [worker[w] EXCEPT !.pc = "preflight", !.attempt = number,
                                !.claimed = claimed] \in WorkerState
<1>1. NoResult \in Result
  BY AttemptsAssumption DEF NoResult, Result
<1>2. IdleWorker \in WorkerState
  BY <1>1, AttemptsAssumption, BoundsAssumption DEF IdleWorker, WorkerState
<1>3. worker[w] \in WorkerState
  BY DEF WorkerTypeOK
<1> QED
  BY <1>2, <1>3 DEF WorkerState

\* The results a worker can hold have their type.
LEMMA ResultTypes ==
  /\ \A retry \in BOOLEAN : Failure("failed", retry) \in Result
  /\ Failure("cancelled", FALSE) \in Result
  /\ UnknownReply \in Result
  /\ \A id \in 1..MaxAttempts : MessageId(id) \in Result
  BY AttemptsAssumption DEF Failure, UnknownReply, MessageId, Result

\* Picking a candidate without a lock (repository.rs next_job) keeps the
\* invariant: the candidate is not held yet.
LEMMA NextJobKeeps ==
  ASSUME IInv, NEW w \in Worker, NEW d \in Delivery, NextJob(w, d),
         UNCHANGED <<approvalVars, webhookVars>>
  PROVE  IInv'
<1> DEFINE state == [worker[w] EXCEPT !.pc = "candidate", !.job = d]
<1>1. state \in WorkerState /\ worker[w] \in WorkerState
  BY WorkerTypes DEF IInv, TypeOK
<1>2. state.pc = "candidate" /\ state.job = d
  BY <1>1 DEF WorkerState
<1>3. worker' = [worker EXCEPT ![w] = state]
  BY DEF NextJob
<1> HIDE DEF state
<1>4. QuietWorker(w)
  BY <1>2, <1>3 DEF QuietWorker, IInv, TypeOK, WorkerTypeOK
<1> QED
  BY <1>1, <1>3, <1>4, Unheld DEF NextJob

\* A worker that loses its candidate or dies keeps the invariant.
LEMMA ForgetKeeps ==
  ASSUME IInv, NEW w \in Worker, LoseJob(w) \/ Crash(w),
         UNCHANGED <<approvalVars, webhookVars>>
  PROVE  IInv'
<1>1. worker' = [worker EXCEPT ![w] = IdleWorker] /\ UNCHANGED <<storeVars, accepted>>
  BY DEF LoseJob, Crash
<1>2. QuietWorker(w)
  BY <1>1 DEF QuietWorker, IdleWorker, IInv, TypeOK, WorkerTypeOK
<1> QED
  BY <1>1, <1>2, WorkerTypes, Unheld DEF IInv, TypeOK

\* A preflight that finds the source unchanged keeps the invariant.
LEMMA PreflightCurrentKeeps ==
  ASSUME IInv, NEW w \in Worker, PreflightCurrent(w),
         UNCHANGED <<approvalVars, webhookVars>>
  PROVE  IInv'
<1> DEFINE state == [worker[w] EXCEPT !.pc = "send"]
<1>1. state \in WorkerState /\ worker[w] \in WorkerState
  BY WorkerTypes DEF IInv, TypeOK
<1>2. /\ state.pc = "send" /\ state.job = worker[w].job
      /\ state.attempt = worker[w].attempt
  BY <1>1 DEF WorkerState
<1>3. worker' = [worker EXCEPT ![w] = state] /\ worker[w].pc = "preflight"
  BY DEF PreflightCurrent
<1> HIDE DEF state
<1>4. QuietWorker(w)
  BY <1>2, <1>3 DEF QuietWorker, IInv, TypeOK, WorkerTypeOK
<1> QED
  BY <1>1, <1>3, <1>4, Unheld DEF PreflightCurrent

FailsWith(w, result) ==
    worker' = [worker EXCEPT ![w].pc = "finish", ![w].result = result]

\* A failure before anything was accepted is a quiet step of the worker.
LEMMA FailureIsQuiet ==
  ASSUME IInv, NEW w \in Worker, worker[w].pc \in {"preflight", "send", "post"},
         NEW result \in {Failure("cancelled", FALSE)}
                         \cup {Failure("failed", retry) : retry \in BOOLEAN},
         FailsWith(w, result)
  PROVE  /\ QuietWorker(w)
         /\ \E state \in WorkerState : worker' = [worker EXCEPT ![w] = state]
<1> DEFINE state == [worker[w] EXCEPT !.pc = "finish", !.result = result]
<1>1. result \in Result
  BY ResultTypes
<1>2. state \in WorkerState /\ worker[w] \in WorkerState
  BY <1>1, WorkerTypes DEF IInv, TypeOK
<1>3. /\ state.pc = "finish" /\ state.job = worker[w].job
      /\ state.attempt = worker[w].attempt /\ state.result = result
  BY <1>2 DEF WorkerState
<1>4. worker' = [worker EXCEPT ![w] = state]
  BY DEF FailsWith
<1> HIDE DEF state
<1>5. QuietWorker(w)
  BY <1>3, <1>4 DEF QuietWorker, IInv, TypeOK, WorkerTypeOK
<1> QED
  BY <1>2, <1>4, <1>5

\* A failed preflight, a failed upload and a rejected post keep the invariant.
LEMMA FailureKeeps ==
  ASSUME IInv, NEW w \in Worker, UNCHANGED <<approvalVars, webhookVars>>,
         \/ PreflightError(w)
         \/ \E retry \in BOOLEAN : UploadFails(w, retry)
         \/ \E retry \in BOOLEAN : PostRejected(w, retry)
  PROVE  IInv'
<1>1. PICK retry \in BOOLEAN :
        /\ FailsWith(w, Failure("failed", retry))
        /\ worker[w].pc \in {"preflight", "send", "post"}
        /\ UNCHANGED <<storeVars, accepted>>
  BY DEF PreflightError, UploadFails, PostRejected, FailsWith
<1> QED
  BY <1>1, FailureIsQuiet, Unheld

\* What a worker that holds an attempt knows about its rows.
LEMMA HeldRows ==
  ASSUME IInv, NEW w \in Worker, Holding(w)
  PROVE  /\ worker[w] \in WorkerState
         /\ worker[w].job \in Delivery /\ worker[w].job[1] \in Notification
         /\ worker[w].attempt \in Attempt
         /\ worker[w].attempt = recipients[worker[w].job].attempt_count
         /\ recipients[worker[w].job] \in Recipient
         /\ recipients[worker[w].job].status \in {"submitting", "uncertain"}
         /\ recipients[worker[w].job].provider_message_id = 0
         /\ HasRow(worker[w].job[1])
<1>1. worker[w].job \in Delivery
  BY DEF IInv, CandidateHasJob, Holding
<1>2. worker[w].job[1] \in Notification
  BY <1>1 DEF Delivery
<1>3. /\ worker[w].attempt = recipients[worker[w].job].attempt_count
      /\ worker[w].attempt # 0
      /\ recipients[worker[w].job].status \in {"submitting", "uncertain"}
      /\ recipients[worker[w].job].provider_message_id = 0
  BY DEF IInv, HolderOwnsAttempt
<1>4. worker[w] \in WorkerState /\ recipients[worker[w].job] \in Recipient
  BY <1>1 DEF IInv, TypeOK, WorkerTypeOK, StoreTypeOK
<1>5. worker[w].attempt \in Attempt
  BY <1>3, <1>4, AttemptsAssumption DEF WorkerState, Attempt
<1>6. HasRow(worker[w].job[1])
  BY <1>1, <1>2, <1>3 DEF IInv, RowsMatch, ApprovedRows, HasRow
<1> QED
  BY <1>1, <1>2, <1>3, <1>4, <1>5, <1>6

\* A preflight that finds the invoice changed withdraws the notification and
\* keeps the invariant.
LEMMA PreflightStaleKeeps ==
  ASSUME IInv, NEW w \in Worker, PreflightStale(w), UNCHANGED <<approvalVars, webhookVars>>
  PROVE  IInv'
<1>1. Holding(w) /\ worker[w].pc \in {"preflight", "send", "post"}
  BY DEF PreflightStale, Holding
<1>2. /\ notification' \in [Notification -> Row]
      /\ recipients' \in [Delivery -> Recipient]
      /\ RowInv'
      /\ \A d \in Delivery : QuietRecipient(d)
  BY <1>1, HeldRows, MarkStaleRows DEF PreflightStale
<1>3. FailsWith(w, Failure("cancelled", FALSE))
  BY DEF PreflightStale, FailsWith
<1>4. /\ QuietWorker(w)
      /\ worker' \in [Worker -> WorkerState]
      /\ \A v \in Worker \ {w} : worker'[v] = worker[v]
  BY <1>1, <1>3, FailureIsQuiet DEF IInv, TypeOK, WorkerTypeOK
<1>5. QuietStep
  BY <1>2, <1>4 DEF QuietStep, QuietWorker, PreflightStale
<1>6. TypeOK' /\ GenerationsTrail' /\ SendsAreTimed'
  BY <1>2, <1>4 DEF IInv, TypeOK, StoreTypeOK, ApprovalTypeOK, WorkerTypeOK, WebhookTypeOK,
     GenerationsTrail, SendsAreTimed, approvalVars, webhookVars, PreflightStale
<1> QED
  BY <1>2, <1>5, <1>6, QuietFinish

\* An expired lease (repository.rs recover_leases) makes a claimed send uncertain
\* and keeps the invariant, whether or not its worker still lives.
LEMMA RecoverLeaseKeeps ==
  ASSUME IInv, NEW d \in Delivery, RecoverLease(d), UNCHANGED <<approvalVars, webhookVars>>
  PROVE  IInv'
<1>1. /\ recipients[d].status = "submitting" /\ recipients[d] \in Recipient
      /\ recipients' = [recipients EXCEPT ![d] = [recipients[d] EXCEPT !.status = "uncertain"]]
  BY DEF RecoverLease, IInv, TypeOK, StoreTypeOK
<1>2. [recipients[d] EXCEPT !.status = "uncertain"] \in Recipient
  BY <1>1, RecipientTypes DEF RecipientStatus
<1>3. recipients' \in [Delivery -> Recipient]
  BY <1>1, <1>2 DEF IInv, TypeOK, StoreTypeOK
<1>4. \A e \in Delivery : e # d => recipients'[e] = recipients[e]
  BY <1>1 DEF IInv, TypeOK, StoreTypeOK
<1>5. /\ recipients'[d] = [recipients[d] EXCEPT !.status = "uncertain"]
      /\ recipients'[d].status = "uncertain"
      /\ recipients'[d].selected = recipients[d].selected
  BY <1>1 DEF IInv, TypeOK, StoreTypeOK, Recipient
<1>6. UNCHANGED <<invoice, notification, attempts, worker, accepted, staff, clock,
                  pending, processed>>
  BY DEF RecoverLease, approvalVars, webhookVars
<1>7. RowInv'
  <2>1. ApprovedRows'
    BY <1>6 DEF IInv, ApprovedRows, Approved
  <2>2. Approved(d[1]) /\ recipients[d].selected /\ HasRow(d[1])
          /\ notification[d[1]].state # "draft"
    BY <1>1 DEF IInv, RowsMatch
  <2>3. RowsMatch'
    <3> SUFFICES ASSUME NEW e \in Delivery
                 PROVE  /\ notification'[e[1]].state = "draft" => recipients'[e].status = "draft"
                        /\ ~HasRow(e[1])' => recipients'[e].status = "none"
                        /\ recipients'[e].status \notin {"none", "draft", "cancelled"}
                             => Approved(e[1])' /\ recipients'[e].selected
      BY DEF RowsMatch
    <3>1. CASE e = d
      BY <1>5, <1>6, <2>2, <3>1 DEF Approved, HasRow
    <3>2. CASE e # d
      BY <1>4, <1>6, <3>2 DEF IInv, RowsMatch, Approved, HasRow
    <3> QED
      BY <3>1, <3>2
  <2>4. AttemptsLeft'
    BY <1>4, <1>5 DEF IInv, AttemptsLeft
  <2> QED
    BY <2>1, <2>3, <2>4 DEF RowInv
<1>8. QuietStep
  BY <1>1, <1>4, <1>5, <1>6 DEF QuietStep, QuietRecipient, QuietWorker
<1>9. TypeOK' /\ GenerationsTrail' /\ SendsAreTimed'
  BY <1>3, <1>6 DEF IInv, TypeOK, StoreTypeOK, ApprovalTypeOK, WorkerTypeOK, WebhookTypeOK,
     GenerationsTrail, SendsAreTimed
<1> QED
  BY <1>7, <1>8, <1>9, QuietFinish

-----------------------------------------------------------------------------
(* Callbacks. *)

\* Storing a callback keeps the invariant.
LEMMA ReceiveKeeps ==
  ASSUME IInv, ReceiveStep PROVE IInv'
<1>1. PICK e \in Callback : ReceiveWebhook(e)
  BY DEF ReceiveStep
<1>2. TypeOK' /\ GenerationsTrail' /\ SendsAreTimed'
  BY <1>1 DEF IInv, TypeOK, StoreTypeOK, ApprovalTypeOK, WorkerTypeOK, WebhookTypeOK,
     GenerationsTrail, SendsAreTimed, ReceiveStep, ReceiveWebhook, storeVars, approvalVars,
     workerVars
<1>3. MessageInv'
  BY <1>1, MessageFrame DEF IInv, MessageInv, ReceiveWebhook, ReceiveStep, storeVars, workerVars
<1> QED
  BY <1>2, <1>3 DEF IInv, MessageInv

\* Applying a callback keeps the invariant: it concerns an accepted message.
LEMMA ApplyKeeps ==
  ASSUME IInv, ApplyStep PROVE IInv'
<1>1. PICK e \in Callback, checked \in BOOLEAN : ProcessWebhook(e, checked)
  BY DEF ApplyStep
<1> DEFINE d == e.delivery
           row == [recipients[d] EXCEPT !.status = NextStatus(recipients[d].status, e.status)]
           Known == {"accepted", "delivered", "read", "failed"}
<1>2. /\ d \in Delivery /\ e.attempt # 0 /\ recipients[d] \in Recipient
      /\ recipients[d].provider_message_id = e.attempt
      /\ e.status \in {"sent", "delivered", "read", "failed"}
  BY <1>1, WebhookAssumption DEF Callback, ProcessWebhook, Matches, Attempt, IInv, TypeOK, StoreTypeOK
<1>3. recipients[d].status \in Known /\ <<d, recipients[d].provider_message_id>> \in accepted
  BY <1>2 DEF IInv, MessageIdsAreTrue
<1>4. NextStatus(recipients[d].status, e.status) \in Known
  BY <1>2, <1>3 DEF NextStatus
<1>5. row \in Recipient
  BY <1>2, <1>4, RecipientTypes DEF RecipientStatus
<1>6. /\ row.status \in Known
      /\ row.provider_message_id = recipients[d].provider_message_id
      /\ row.attempt_count = recipients[d].attempt_count
      /\ row.selected = recipients[d].selected
  BY <1>2, <1>4 DEF Recipient
<1>7. recipients' = [recipients EXCEPT ![d] = row]
  BY <1>1 DEF ProcessWebhook
<1>8. UNCHANGED <<invoice, notification, attempts, worker, accepted, staff, clock>>
  BY <1>1 DEF ProcessWebhook, ApplyStep, approvalVars, workerVars
<1>9. WebhookTypeOK'
  BY <1>1 DEF IInv, TypeOK, WebhookTypeOK, ProcessWebhook
<1> HIDE DEF row, d
<1>10. recipients' \in [Delivery -> Recipient]
  BY <1>2, <1>5, <1>7 DEF IInv, TypeOK, StoreTypeOK
<1>11. \A x \in Delivery : recipients'[x] = IF x = d THEN row ELSE recipients[x]
  BY <1>2, <1>7 DEF IInv, TypeOK, StoreTypeOK
<1>12. TypeOK' /\ GenerationsTrail' /\ SendsAreTimed'
  BY <1>8, <1>9, <1>10 DEF IInv, TypeOK, StoreTypeOK, ApprovalTypeOK, WorkerTypeOK,
     GenerationsTrail, SendsAreTimed
<1>13. ApprovedRows' /\ CandidateHasJob' /\ AttemptLogIsAhead' /\ OneHolder' /\ ResultsAreTrue'
  BY <1>8 DEF IInv, ApprovedRows, Approved, CandidateHasJob, AttemptLogIsAhead, OneHolder,
     Holding, ResultsAreTrue, ResultOf, Message
<1>14. RowsMatch'
  <2>1. Approved(d[1]) /\ recipients[d].selected /\ HasRow(d[1])
          /\ notification[d[1]].state # "draft"
    BY <1>2, <1>3 DEF IInv, RowsMatch
  <2> SUFFICES ASSUME NEW x \in Delivery
               PROVE  /\ notification'[x[1]].state = "draft" => recipients'[x].status = "draft"
                      /\ ~HasRow(x[1])' => recipients'[x].status = "none"
                      /\ recipients'[x].status \notin {"none", "draft", "cancelled"}
                           => Approved(x[1])' /\ recipients'[x].selected
    BY DEF RowsMatch
  <2>2. CASE x = d
    BY <1>6, <1>8, <1>11, <2>1, <2>2 DEF Approved, HasRow
  <2>3. CASE x # d
    BY <1>8, <1>11, <2>3 DEF IInv, RowsMatch, Approved, HasRow
  <2> QED
    BY <2>2, <2>3
<1>15. AttemptsLeft'
  BY <1>6, <1>11 DEF IInv, AttemptsLeft
<1>16. HolderOwnsAttempt'
  <2>1. \A w \in Worker : Holding(w) => worker[w].job # d
    BY <1>2 DEF IInv, HolderOwnsAttempt
  <2>2. \A w \in Worker : Holding(w) => worker[w].job \in Delivery
    BY DEF IInv, CandidateHasJob, Holding
  <2> QED
    BY <1>8, <1>11, <2>1, <2>2 DEF IInv, HolderOwnsAttempt, Holding
<1>17. AcceptedIsLast'
  <2> SUFFICES ASSUME NEW x \in Delivery, NEW a \in Attempt, <<x, a>> \in accepted
               PROVE  /\ a = recipients'[x].attempt_count
                      /\ recipients'[x].status \in {"submitting", "uncertain", "accepted",
                                                    "delivered", "read", "failed"}
                      /\ recipients'[x].status = "failed"
                           => recipients'[x].provider_message_id = a
                      /\ \A w \in Worker : Holding(w)' /\ worker'[w].job = x =>
                           /\ worker'[w].pc = "finish"
                           /\ worker'[w].result \in {MessageId(a), UnknownReply}
    BY <1>8 DEF AcceptedIsLast
  <2>1. /\ a = recipients[x].attempt_count
        /\ recipients[x].status \in {"submitting", "uncertain", "accepted",
                                      "delivered", "read", "failed"}
        /\ recipients[x].status = "failed" => recipients[x].provider_message_id = a
        /\ \A w \in Worker : Holding(w) /\ worker[w].job = x =>
             worker[w].pc = "finish" /\ worker[w].result \in {MessageId(a), UnknownReply}
    BY DEF IInv, AcceptedIsLast
  <2>2. x = d => recipients[d].provider_message_id = a
    <3>1. recipients[d].provider_message_id \in Attempt
      BY <1>2, AttemptsAssumption DEF Recipient, Attempt
    <3> QED
      BY <1>2, <1>3, <2>1, <3>1 DEF IInv, AcceptedIsLast
  <2> QED
    BY <1>6, <1>8, <1>11, <2>1, <2>2 DEF Holding
<1>18. MessageIdsAreTrue'
  BY <1>3, <1>6, <1>8, <1>11 DEF IInv, MessageIdsAreTrue
<1> QED
  BY <1>12, <1>13, <1>14, <1>15, <1>16, <1>17, <1>18 DEF IInv

-----------------------------------------------------------------------------
(* Worker steps that claim, send and record. *)

\* The claim under the lock (repository.rs lock_job, start_attempt) keeps the
\* invariant.  A queued recipient has no holder and no message, so the new attempt is
\* the only one that can send.
LEMMA ClaimKeeps ==
  ASSUME IInv, NEW w \in Worker, ClaimJob(w), UNCHANGED <<approvalVars, webhookVars>>
  PROVE  IInv'
<1> DEFINE d == worker[w].job
           number == recipients[d].attempt_count + 1
           row == [recipients[d] EXCEPT !.status = "submitting", !.attempt_count = number]
           state == [worker[w] EXCEPT !.pc = "preflight", !.attempt = number,
                                      !.claimed = invoice.revision]
           log == [attempts[d] EXCEPT ![number] = "preparing"]
<1>1. /\ d \in Delivery /\ d[1] \in Notification /\ recipients[d] \in Recipient
      /\ recipients[d].status = "queued"
      /\ invoice \in Invoice /\ worker[w] \in WorkerState
  BY DEF ClaimJob, LockJob, Claimable, IInv, CandidateHasJob, TypeOK, StoreTypeOK,
     WorkerTypeOK, Delivery
<1>2. recipients[d].attempt_count \in Nat /\ recipients[d].attempt_count < MaxAttempts
  BY <1>1, AttemptsAssumption DEF IInv, AttemptsLeft, Recipient
<1>3. number \in Attempt /\ number # 0 /\ number \in 0..MaxAttempts
  BY <1>2, AttemptsAssumption DEF Attempt
<1>4. invoice.revision \in 0..MaxRevision
  BY <1>1, BoundsAssumption DEF Invoice
<1>5. recipients[d].provider_message_id = 0 /\ Approved(d[1]) /\ recipients[d].selected
      /\ HasRow(d[1]) /\ notification[d[1]].state # "draft"
  BY <1>1 DEF IInv, MessageIdsAreTrue, RowsMatch
<1>6. \A a \in Attempt : <<d, a>> \notin accepted
  BY <1>1 DEF IInv, AcceptedIsLast
<1>7. \A v \in Worker : Holding(v) => worker[v].job # d
  BY <1>1 DEF IInv, HolderOwnsAttempt
<1>8. recipients' = [recipients EXCEPT ![d] = row]
  BY <1>1 DEF ClaimJob, IInv, TypeOK, StoreTypeOK
<1>9. attempts' = [attempts EXCEPT ![d] = log]
  BY DEF ClaimJob
<1>10. worker' = [worker EXCEPT ![w] = state]
  BY DEF ClaimJob
<1>11. UNCHANGED <<invoice, notification, accepted, staff, clock, pending, processed>>
  BY DEF ClaimJob, approvalVars, webhookVars
<1> HIDE DEF number
<1>12. /\ row \in Recipient /\ row.status = "submitting" /\ row.attempt_count = number
       /\ row.provider_message_id = 0 /\ row.selected
  <2>1. "submitting" \in RecipientStatus
    BY DEF RecipientStatus
  <2>2. row \in Recipient
    BY <1>1, <1>3, <2>1, RecipientTypes
  <2> QED
    BY <1>1, <1>3, <1>5, <2>1, <2>2 DEF Recipient
<1>13. /\ state \in WorkerState /\ state.pc = "preflight" /\ state.job = d
       /\ state.attempt = number
  <2>1. WorkerTypeOK
    BY DEF IInv, TypeOK
  <2>2. state \in WorkerState
    BY <1>3, <1>4, <2>1, WorkerTypes
  <2> QED
    BY <1>1, <2>2 DEF WorkerState
<1>14. log \in [Attempt -> AttemptOutcome]
       /\ \A a \in Attempt \ {number} : log[a] = attempts[d][a]
  BY <1>1, <1>3 DEF IInv, TypeOK, StoreTypeOK, AttemptOutcome
<1> HIDE DEF d, row, state, log
<1>15. /\ \A x \in Delivery : recipients'[x] = IF x = d THEN row ELSE recipients[x]
       /\ \A x \in Delivery : attempts'[x] = IF x = d THEN log ELSE attempts[x]
       /\ \A v \in Worker : worker'[v] = IF v = w THEN state ELSE worker[v]
  BY <1>1, <1>8, <1>9, <1>10 DEF IInv, TypeOK, StoreTypeOK, WorkerTypeOK
<1>16. TypeOK'
  <2>1. StoreTypeOK'
    BY <1>1, <1>8, <1>9, <1>11, <1>12, <1>14 DEF IInv, TypeOK, StoreTypeOK
  <2>2. WorkerTypeOK'
    BY <1>10, <1>11, <1>13 DEF IInv, TypeOK, WorkerTypeOK
  <2> QED
    BY <1>11, <2>1, <2>2 DEF IInv, TypeOK, ApprovalTypeOK, WebhookTypeOK
<1>17. GenerationsTrail' /\ SendsAreTimed' /\ ApprovedRows'
  BY <1>11 DEF IInv, GenerationsTrail, SendsAreTimed, ApprovedRows, Approved
<1>18. RowsMatch'
  <2> SUFFICES ASSUME NEW x \in Delivery
               PROVE  /\ notification'[x[1]].state = "draft" => recipients'[x].status = "draft"
                      /\ ~HasRow(x[1])' => recipients'[x].status = "none"
                      /\ recipients'[x].status \notin {"none", "draft", "cancelled"}
                           => Approved(x[1])' /\ recipients'[x].selected
    BY DEF RowsMatch
  <2>1. CASE x = d
    BY <1>5, <1>11, <1>12, <1>15, <2>1 DEF Approved, HasRow
  <2>2. CASE x # d
    BY <1>11, <1>15, <2>2 DEF IInv, RowsMatch, Approved, HasRow
  <2> QED
    BY <2>1, <2>2
<1>19. AttemptsLeft'
  BY <1>12, <1>15 DEF IInv, AttemptsLeft
<1>20. CandidateHasJob'
  BY <1>1, <1>13, <1>15 DEF IInv, CandidateHasJob
<1>21. HolderOwnsAttempt'
  <2> SUFFICES ASSUME NEW v \in Worker, Holding(v)'
               PROVE  LET r == recipients'[worker'[v].job] IN
                      /\ worker'[v].attempt = r.attempt_count
                      /\ worker'[v].attempt # 0
                      /\ r.status \in {"submitting", "uncertain"}
                      /\ r.provider_message_id = 0
    BY DEF HolderOwnsAttempt
  <2>1. CASE v = w
    BY <1>1, <1>3, <1>12, <1>13, <1>15, <2>1
  <2>2. CASE v # w
    <3>1. Holding(v) /\ worker'[v] = worker[v]
      BY <1>15, <2>2 DEF Holding
    <3>2. worker[v].job # d /\ worker[v].job \in Delivery
      BY <1>7, <3>1 DEF IInv, CandidateHasJob, Holding
    <3> QED
      BY <1>15, <3>1, <3>2 DEF IInv, HolderOwnsAttempt
  <2> QED
    BY <2>1, <2>2
<1>22. OneHolder'
  BY <1>7, <1>13, <1>15 DEF IInv, OneHolder, Holding
<1>23. ResultsAreTrue'
  <2> SUFFICES ASSUME NEW v \in Worker
               PROVE  /\ worker'[v].pc = "finish" => worker'[v].result \in ResultOf(v)'
                      /\ worker'[v].pc = "finish" /\ worker'[v].result.message_id # 0
                           => Message(v)' \in accepted'
                      /\ worker'[v].pc = "post" =>
                           attempts'[worker'[v].job][worker'[v].attempt] = "request_started"
    BY DEF ResultsAreTrue
  <2>1. CASE v = w
    BY <1>13, <1>15, <2>1
  <2>2. CASE v # w
    <3>1. worker'[v] = worker[v]
      BY <1>15, <2>2
    <3>2. worker[v].pc = "post" => worker[v].job \in Delivery /\ worker[v].job # d
      BY <1>7 DEF IInv, CandidateHasJob, Holding
    <3> QED
      <4>1. worker[v].pc = "post" => attempts'[worker[v].job] = attempts[worker[v].job]
        BY <1>15, <3>2
      <4>2. /\ worker[v].pc = "finish" => worker[v].result \in ResultOf(v)
            /\ worker[v].pc = "finish" /\ worker[v].result.message_id # 0
                 => Message(v) \in accepted
            /\ worker[v].pc = "post" =>
                 attempts[worker[v].job][worker[v].attempt] = "request_started"
        BY DEF IInv, ResultsAreTrue
      <4>3. ResultOf(v)' = ResultOf(v) /\ Message(v)' = Message(v)
        BY <3>1 DEF ResultOf, Message
      <4> QED
        BY <1>11, <3>1, <4>1, <4>2, <4>3
  <2> QED
    BY <2>1, <2>2
<1>24. AcceptedIsLast'
  <2> SUFFICES ASSUME NEW x \in Delivery, NEW a \in Attempt, <<x, a>> \in accepted
               PROVE  /\ a = recipients'[x].attempt_count
                      /\ recipients'[x].status \in {"submitting", "uncertain", "accepted",
                                                    "delivered", "read", "failed"}
                      /\ recipients'[x].status = "failed"
                           => recipients'[x].provider_message_id = a
                      /\ \A v \in Worker : Holding(v)' /\ worker'[v].job = x =>
                           /\ worker'[v].pc = "finish"
                           /\ worker'[v].result \in {MessageId(a), UnknownReply}
    BY <1>11 DEF AcceptedIsLast
  <2>1. x # d
    BY <1>6
  <2> QED
    BY <1>13, <1>15, <2>1 DEF IInv, AcceptedIsLast, Holding
<1>25. MessageIdsAreTrue'
  BY <1>11, <1>12, <1>15 DEF IInv, MessageIdsAreTrue
<1>26. AttemptLogIsAhead'
  BY <1>6, <1>11, <1>15 DEF IInv, AttemptLogIsAhead
<1> QED
  BY <1>16, <1>17, <1>18, <1>19, <1>20, <1>21, <1>22, <1>23, <1>24, <1>25, <1>26 DEF IInv

\* Writing ahead that the request starts keeps the invariant.
LEMMA RequestStartedKeeps ==
  ASSUME IInv, NEW w \in Worker, RequestStarted(w), UNCHANGED <<approvalVars, webhookVars>>
  PROVE  IInv'
<1> DEFINE d == worker[w].job
           number == worker[w].attempt
           state == [worker[w] EXCEPT !.pc = "post"]
           log == [attempts[d] EXCEPT ![number] = "request_started"]
<1>1. Holding(w) /\ worker[w].pc = "send"
  BY DEF RequestStarted, Holding
<1>2. d \in Delivery /\ number \in Attempt /\ worker[w] \in WorkerState
  BY <1>1, HeldRows
<1>3. /\ state \in WorkerState /\ state.pc = "post" /\ state.job = d
      /\ state.attempt = number /\ state.result = worker[w].result
  <2>1. WorkerTypeOK
    BY DEF IInv, TypeOK
  <2>2. state \in WorkerState
    BY <1>2, <2>1, WorkerTypes
  <2> QED
    BY <1>2, <2>2 DEF WorkerState
<1>4. /\ log \in [Attempt -> AttemptOutcome] /\ log[number] = "request_started"
      /\ \A a \in Attempt \ {number} : log[a] = attempts[d][a]
  BY <1>2 DEF IInv, TypeOK, StoreTypeOK, AttemptOutcome
<1>5. attempts' = [attempts EXCEPT ![d] = log] /\ worker' = [worker EXCEPT ![w] = state]
  BY DEF RequestStarted
<1>6. UNCHANGED <<invoice, notification, recipients, accepted, staff, clock, pending, processed>>
  BY DEF RequestStarted, approvalVars, webhookVars
<1> HIDE DEF d, number, state, log
<1>7. /\ \A x \in Delivery : attempts'[x] = IF x = d THEN log ELSE attempts[x]
      /\ \A v \in Worker : worker'[v] = IF v = w THEN state ELSE worker[v]
  BY <1>2, <1>5 DEF IInv, TypeOK, StoreTypeOK, WorkerTypeOK
<1>8. \A v \in Worker : /\ Holding(v)' <=> Holding(v)
                        /\ worker'[v].job = worker[v].job
                        /\ worker'[v].attempt = worker[v].attempt
                        /\ worker'[v].result = worker[v].result
                        /\ v # w => worker'[v].pc = worker[v].pc
  BY <1>1, <1>3, <1>7 DEF Holding, d, number
<1>9. \A v \in Worker : Holding(v) /\ v # w => worker[v].job # d
  BY <1>1 DEF IInv, OneHolder, d
<1>10. \A a \in Attempt : <<d, a>> \notin accepted
  BY <1>1, <1>2 DEF IInv, AcceptedIsLast, d
<1>11. TypeOK'
  <2>1. StoreTypeOK'
    BY <1>2, <1>4, <1>5, <1>6 DEF IInv, TypeOK, StoreTypeOK
  <2>2. WorkerTypeOK'
    BY <1>3, <1>5, <1>6 DEF IInv, TypeOK, WorkerTypeOK
  <2> QED
    BY <1>6, <2>1, <2>2 DEF IInv, TypeOK, ApprovalTypeOK, WebhookTypeOK
<1>12. GenerationsTrail' /\ SendsAreTimed' /\ RowInv' /\ MessageIdsAreTrue'
  BY <1>6 DEF IInv, GenerationsTrail, SendsAreTimed, RowInv, ApprovedRows, RowsMatch,
     AttemptsLeft, Approved, HasRow, MessageIdsAreTrue
<1>13. CandidateHasJob' /\ HolderOwnsAttempt' /\ OneHolder'
  <2>1. CandidateHasJob'
    BY <1>1, <1>2, <1>7, <1>8 DEF IInv, CandidateHasJob, d
  <2>2. HolderOwnsAttempt'
    BY <1>6, <1>8 DEF IInv, HolderOwnsAttempt
  <2>3. OneHolder'
    BY <1>8 DEF IInv, OneHolder
  <2> QED
    BY <2>1, <2>2, <2>3
<1>14. ResultsAreTrue'
  <2> SUFFICES ASSUME NEW v \in Worker
               PROVE  /\ worker'[v].pc = "finish" => worker'[v].result \in ResultOf(v)'
                      /\ worker'[v].pc = "finish" /\ worker'[v].result.message_id # 0
                           => Message(v)' \in accepted'
                      /\ worker'[v].pc = "post" =>
                           attempts'[worker'[v].job][worker'[v].attempt] = "request_started"
    BY DEF ResultsAreTrue
  <2>1. CASE v = w
    BY <1>2, <1>3, <1>4, <1>7, <2>1
  <2>2. CASE v # w
    <3>1. worker'[v] = worker[v]
      BY <1>7, <2>2
    <3>2. worker[v].pc = "post" => worker[v].job \in Delivery /\ worker[v].job # d
      BY <1>9, <2>2 DEF IInv, CandidateHasJob, Holding
    <3> QED
      BY <1>6, <1>7, <3>1, <3>2 DEF IInv, ResultsAreTrue, ResultOf, Message
  <2> QED
    BY <2>1, <2>2
<1>15. AcceptedIsLast'
  <2> SUFFICES ASSUME NEW x \in Delivery, NEW a \in Attempt, <<x, a>> \in accepted
               PROVE  /\ a = recipients[x].attempt_count
                      /\ recipients[x].status \in {"submitting", "uncertain", "accepted",
                                                   "delivered", "read", "failed"}
                      /\ recipients[x].status = "failed"
                           => recipients[x].provider_message_id = a
                      /\ \A v \in Worker : Holding(v)' /\ worker'[v].job = x =>
                           /\ worker'[v].pc = "finish"
                           /\ worker'[v].result \in {MessageId(a), UnknownReply}
    BY <1>6 DEF AcceptedIsLast
  <2>1. x # d
    BY <1>10
  <2>2. \A v \in Worker : worker[v].job = x => v # w
    BY <2>1 DEF d
  <2> QED
    BY <1>8, <2>2 DEF IInv, AcceptedIsLast
<1>16. AttemptLogIsAhead'
  BY <1>6, <1>7, <1>10 DEF IInv, AttemptLogIsAhead
<1> QED
  BY <1>11, <1>12, <1>13, <1>14, <1>15, <1>16 DEF IInv, RowInv

\* The provider takes the message, or the reply says nothing.
Posted(w, result, messages) ==
    /\ worker[w].pc = "post"
    /\ result \in {MessageId(worker[w].attempt), UnknownReply}
    /\ messages \subseteq {Message(w)}
    /\ result.message_id # 0 => messages = {Message(w)}
    /\ accepted' = accepted \cup messages
    /\ FailsWith(w, result)
    /\ UNCHANGED storeVars

\* A post that the provider took, or of which nothing is known, keeps the
\* invariant: the message belongs to the attempt its worker owns.
LEMMA PostedKeeps ==
  ASSUME IInv, NEW w \in Worker, NEW result, NEW messages, Posted(w, result, messages),
         UNCHANGED <<approvalVars, webhookVars>>
  PROVE  IInv'
<1> DEFINE d == worker[w].job
           number == worker[w].attempt
           state == [worker[w] EXCEPT !.pc = "finish", !.result = result]
<1>1. Holding(w) /\ worker[w].pc = "post"
  BY DEF Posted, Holding
<1>2. /\ d \in Delivery /\ number \in Attempt /\ worker[w] \in WorkerState
      /\ number = recipients[d].attempt_count
      /\ recipients[d].status \in {"submitting", "uncertain"}
  BY <1>1, HeldRows
<1>3. attempts[d][number] = "request_started"
  BY <1>1 DEF IInv, ResultsAreTrue
<1>4. result \in Result
  BY <1>2, ResultTypes DEF Posted, Attempt
<1>5. /\ state \in WorkerState /\ state.pc = "finish" /\ state.job = d
      /\ state.attempt = number /\ state.result = result
  <2>1. WorkerTypeOK
    BY DEF IInv, TypeOK
  <2>2. state \in WorkerState
    BY <1>4, <2>1, WorkerTypes
  <2> QED
    BY <1>2, <2>2 DEF WorkerState
<1>6. /\ worker' = [worker EXCEPT ![w] = state]
      /\ result \in {MessageId(number), UnknownReply}
      /\ accepted' = accepted \cup messages
      /\ messages \subseteq {<<d, number>>}
      /\ result.message_id # 0 => <<d, number>> \in accepted'
  BY DEF Posted, FailsWith, Message
<1>7. UNCHANGED <<invoice, notification, recipients, attempts, staff, clock, pending, processed>>
  BY DEF Posted, storeVars, approvalVars, webhookVars
<1> HIDE DEF d, number, state
<1>8. \A v \in Worker : worker'[v] = IF v = w THEN state ELSE worker[v]
  BY <1>6 DEF IInv, TypeOK, WorkerTypeOK
<1>9. \A v \in Worker : /\ Holding(v)' <=> Holding(v)
                        /\ worker'[v].job = worker[v].job
                        /\ worker'[v].attempt = worker[v].attempt
  BY <1>1, <1>5, <1>8 DEF Holding, d, number
<1>10. \A v \in Worker : Holding(v) /\ worker[v].job = d => v = w
  BY <1>1 DEF IInv, OneHolder, d
<1>11. TypeOK'
  <2>1. WorkerTypeOK'
    BY <1>2, <1>5, <1>6 DEF IInv, TypeOK, WorkerTypeOK
  <2> QED
    BY <1>7, <2>1 DEF IInv, TypeOK, StoreTypeOK, ApprovalTypeOK, WebhookTypeOK
<1>12. GenerationsTrail' /\ SendsAreTimed' /\ RowInv' /\ MessageIdsAreTrue'
  BY <1>6, <1>7 DEF IInv, GenerationsTrail, SendsAreTimed, RowInv, ApprovedRows, RowsMatch,
     AttemptsLeft, Approved, HasRow, MessageIdsAreTrue
<1>13. CandidateHasJob' /\ HolderOwnsAttempt' /\ OneHolder'
  <2>1. CandidateHasJob'
    BY <1>1, <1>2, <1>8, <1>9 DEF IInv, CandidateHasJob, d
  <2>2. HolderOwnsAttempt'
    BY <1>7, <1>9 DEF IInv, HolderOwnsAttempt
  <2>3. OneHolder'
    BY <1>9 DEF IInv, OneHolder
  <2> QED
    BY <2>1, <2>2, <2>3
<1>14. ResultsAreTrue'
  <2> SUFFICES ASSUME NEW v \in Worker
               PROVE  /\ worker'[v].pc = "finish" => worker'[v].result \in ResultOf(v)'
                      /\ worker'[v].pc = "finish" /\ worker'[v].result.message_id # 0
                           => Message(v)' \in accepted'
                      /\ worker'[v].pc = "post" =>
                           attempts'[worker'[v].job][worker'[v].attempt] = "request_started"
    BY DEF ResultsAreTrue
  <2>1. CASE v = w
    BY <1>5, <1>6, <1>8, <2>1 DEF ResultOf, Message
  <2>2. CASE v # w
    <3>1. worker'[v] = worker[v]
      BY <1>8, <2>2
    <3>2. ResultOf(v)' = ResultOf(v) /\ Message(v)' = Message(v)
      BY <3>1 DEF ResultOf, Message
    <3>3. /\ worker[v].pc = "finish" => worker[v].result \in ResultOf(v)
          /\ worker[v].pc = "finish" /\ worker[v].result.message_id # 0
               => Message(v) \in accepted
          /\ worker[v].pc = "post" =>
               attempts[worker[v].job][worker[v].attempt] = "request_started"
      BY DEF IInv, ResultsAreTrue
    <3> QED
      BY <1>6, <1>7, <3>1, <3>2, <3>3
  <2> QED
    BY <2>1, <2>2
<1>15. AcceptedIsLast'
  <2> SUFFICES ASSUME NEW x \in Delivery, NEW a \in Attempt, <<x, a>> \in accepted'
               PROVE  /\ a = recipients[x].attempt_count
                      /\ recipients[x].status \in {"submitting", "uncertain", "accepted",
                                                   "delivered", "read", "failed"}
                      /\ recipients[x].status = "failed"
                           => recipients[x].provider_message_id = a
                      /\ \A v \in Worker : Holding(v)' /\ worker'[v].job = x =>
                           /\ worker'[v].pc = "finish"
                           /\ worker'[v].result \in {MessageId(a), UnknownReply}
    BY <1>7 DEF AcceptedIsLast
  <2>1. CASE <<x, a>> \in accepted
    <3>1. \A v \in Worker : Holding(v) /\ worker[v].job = x =>
             worker[v].pc = "finish" /\ worker[v].result \in {MessageId(a), UnknownReply}
      BY <2>1 DEF IInv, AcceptedIsLast
    <3>2. x # d
      BY <1>1, <3>1 DEF d
    <3> QED
      BY <1>5, <1>8, <1>9, <2>1, <3>1, <3>2 DEF IInv, AcceptedIsLast
  <2>2. CASE <<x, a>> \notin accepted
    <3>1. x = d /\ a = number
      BY <1>6, <2>2
    <3> QED
      BY <1>2, <1>5, <1>6, <1>8, <1>9, <1>10, <3>1
  <2> QED
    BY <2>1, <2>2
<1>16. AttemptLogIsAhead'
  BY <1>3, <1>6, <1>7 DEF IInv, AttemptLogIsAhead
<1> QED
  BY <1>11, <1>12, <1>13, <1>14, <1>15, <1>16 DEF IInv, RowInv

\* The outcomes of a post keep the invariant.
LEMMA PostKeeps ==
  ASSUME IInv, NEW w \in Worker, UNCHANGED <<approvalVars, webhookVars>>,
         PostAccepted(w) \/ \E took \in BOOLEAN : PostUnknown(w, took)
  PROVE  IInv'
<1>1. CASE PostAccepted(w)
  <2>1. Posted(w, MessageId(worker[w].attempt), {Message(w)})
    BY <1>1 DEF Posted, PostAccepted, FailsWith
  <2> QED
    BY <2>1, PostedKeeps
<1>2. ASSUME NEW took \in BOOLEAN, PostUnknown(w, took)
      PROVE  IInv'
  <2>1. PICK messages \in SUBSET {Message(w)} : accepted' = accepted \cup messages
    <3>1. CASE took
      <4>1. accepted' = accepted \cup {Message(w)}
        BY <1>2, <3>1 DEF PostUnknown
      <4> QED
        BY <4>1
    <3>2. CASE ~took
      <4>1. accepted' = accepted \cup {}
        BY <1>2, <3>2 DEF PostUnknown
      <4> QED
        BY <4>1
    <3> QED
      BY <3>1, <3>2
  <2>2. UnknownReply.message_id = 0
    BY DEF UnknownReply, Failure
  <2>3. Posted(w, UnknownReply, messages)
    BY <1>2, <2>1, <2>2 DEF Posted, PostUnknown, FailsWith
  <2> QED
    BY <2>3, PostedKeeps
<1> QED
  BY <1>1, <1>2

\* Recording the result (repository.rs finish_attempt) keeps the invariant: only a
\* result that excludes a message may queue the recipient again or call it failed.
LEMMA FinishKeeps ==
  ASSUME IInv, NEW w \in Worker, Finish(w), UNCHANGED <<approvalVars, webhookVars>>
  PROVE  IInv'
<1> DEFINE d == worker[w].job
           number == worker[w].attempt
           result == worker[w].result
           row == FinishedRecipient(recipients[d], result, Retries(w))
           outcome == IF Retries(w) THEN "retry_scheduled" ELSE result.status
           log == [attempts[d] EXCEPT ![number] = outcome]
<1>1. Holding(w) /\ worker[w].pc = "finish"
  BY DEF Finish, Holding
<1>2. /\ d \in Delivery /\ number \in Attempt /\ worker[w] \in WorkerState
      /\ number = recipients[d].attempt_count /\ recipients[d] \in Recipient
      /\ recipients[d].status \in {"submitting", "uncertain"}
      /\ recipients[d].provider_message_id = 0
  BY <1>1, HeldRows
<1>3. /\ Approved(d[1]) /\ recipients[d].selected /\ HasRow(d[1])
      /\ notification[d[1]].state # "draft"
  BY <1>2 DEF IInv, RowsMatch
<1>4. result \in ResultOf(w) /\ (result.message_id # 0 => <<d, number>> \in accepted)
  BY <1>1 DEF IInv, ResultsAreTrue, Message
<1>5. /\ result.status \in {"accepted", "failed", "uncertain", "cancelled"}
      /\ result.status = "accepted" <=> result.message_id # 0
      /\ result.message_id \in {0, number}
      /\ result.message_id # 0 => ~result.retry
      /\ result.retry => result.status = "failed"
  BY <1>2, <1>4, AttemptsAssumption DEF ResultOf, MessageId, UnknownReply, Failure, Attempt
<1>6. \A a \in Attempt : <<d, a>> \in accepted =>
        a = number /\ result \in {MessageId(a), UnknownReply}
  BY <1>1, <1>2 DEF IInv, AcceptedIsLast
<1>7. \A a \in Attempt : <<d, a>> \in accepted =>
        /\ ~Retries(w) /\ result.status \in {"accepted", "uncertain"}
  BY <1>6 DEF MessageId, UnknownReply, Failure, Retries
<1>8. Retries(w) => number < MaxAttempts
  BY DEF Retries
<1>9. /\ row \in Recipient /\ row.selected = recipients[d].selected
      /\ row.attempt_count = number
      /\ recipients[d].status = "uncertain" => row = recipients[d]
      /\ recipients[d].status = "submitting" =>
           /\ row.status = IF Retries(w) THEN "queued" ELSE result.status
           /\ row.provider_message_id = result.message_id
  <2>1. CASE recipients[d].status = "uncertain"
    BY <1>2, <2>1 DEF FinishedRecipient
  <2>2. CASE recipients[d].status = "submitting"
    <3> DEFINE status == IF Retries(w) THEN "queued" ELSE result.status
    <3>1. status \in RecipientStatus /\ result.message_id \in 0..MaxAttempts
      BY <1>2, <1>5, AttemptsAssumption DEF RecipientStatus, Attempt
    <3>2. row = [recipients[d] EXCEPT !.status = status,
                                      !.provider_message_id = result.message_id]
      BY <1>2, <2>2 DEF FinishedRecipient
    <3> HIDE DEF status, row, result
    <3>3. row \in Recipient
      BY <1>2, <3>1, <3>2, RecipientTypes
    <3>4. /\ row.selected = recipients[d].selected /\ row.attempt_count = number
          /\ row.status = status /\ row.provider_message_id = result.message_id
      BY <1>2, <3>2 DEF Recipient
    <3> QED
      BY <2>2, <3>3, <3>4 DEF status
  <2> QED
    BY <1>2, <2>1, <2>2
<1>10. /\ outcome \in AttemptOutcome /\ outcome \notin {"none", "preparing"}
  BY <1>5 DEF AttemptOutcome
<1>11. recipients' = [recipients EXCEPT ![d] = row]
  BY <1>2 DEF Finish, IInv, TypeOK, StoreTypeOK
<1>12. attempts' = [attempts EXCEPT ![d] = log] /\ worker' = [worker EXCEPT ![w] = IdleWorker]
  BY DEF Finish
<1>13. UNCHANGED <<invoice, notification, accepted, staff, clock, pending, processed>>
  BY DEF Finish, approvalVars, webhookVars
<1> HIDE DEF outcome
<1>14. log \in [Attempt -> AttemptOutcome]
       /\ \A a \in Attempt : log[a] = IF a = number THEN outcome ELSE attempts[d][a]
  BY <1>2, <1>10 DEF IInv, TypeOK, StoreTypeOK
<1> HIDE DEF d, number, result, row, log
<1>15. /\ \A x \in Delivery : recipients'[x] = IF x = d THEN row ELSE recipients[x]
       /\ \A x \in Delivery : attempts'[x] = IF x = d THEN log ELSE attempts[x]
       /\ \A v \in Worker : worker'[v] = IF v = w THEN IdleWorker ELSE worker[v]
  BY <1>2, <1>11, <1>12 DEF IInv, TypeOK, StoreTypeOK, WorkerTypeOK
<1>16. ~Holding(w)' /\ worker'[w].pc = "idle" /\ \A v \in Worker \ {w} : worker'[v] = worker[v]
  BY <1>15 DEF Holding, IdleWorker
<1>17. \A v \in Worker : Holding(v)' => Holding(v) /\ v # w /\ worker'[v] = worker[v]
                                       /\ worker[v].job # d /\ worker[v].job \in Delivery
  BY <1>1, <1>16 DEF IInv, OneHolder, Holding, CandidateHasJob, d
<1>18. TypeOK'
  <2>1. StoreTypeOK'
    BY <1>2, <1>9, <1>11, <1>12, <1>13, <1>14 DEF IInv, TypeOK, StoreTypeOK
  <2>2. WorkerTypeOK'
    BY <1>12, <1>13, WorkerTypes DEF IInv, TypeOK, WorkerTypeOK
  <2> QED
    BY <1>13, <2>1, <2>2 DEF IInv, TypeOK, ApprovalTypeOK, WebhookTypeOK
<1>19. GenerationsTrail' /\ SendsAreTimed' /\ ApprovedRows'
  BY <1>13 DEF IInv, GenerationsTrail, SendsAreTimed, ApprovedRows, Approved
<1>20. RowsMatch'
  <2> SUFFICES ASSUME NEW x \in Delivery
               PROVE  /\ notification'[x[1]].state = "draft" => recipients'[x].status = "draft"
                      /\ ~HasRow(x[1])' => recipients'[x].status = "none"
                      /\ recipients'[x].status \notin {"none", "draft", "cancelled"}
                           => Approved(x[1])' /\ recipients'[x].selected
    BY DEF RowsMatch
  <2>1. CASE x = d
    BY <1>3, <1>9, <1>13, <1>15, <2>1 DEF Approved, HasRow
  <2>2. CASE x # d
    BY <1>13, <1>15, <2>2 DEF IInv, RowsMatch, Approved, HasRow
  <2> QED
    BY <2>1, <2>2
<1>21. AttemptsLeft'
  <2>1. /\ row.status \notin {"none", "draft"}
        /\ row.status = "queued" => row.attempt_count < MaxAttempts
    BY <1>2, <1>5, <1>8, <1>9
  <2> QED
    BY <1>15, <2>1 DEF IInv, AttemptsLeft
<1>22. CandidateHasJob' /\ OneHolder'
  BY <1>16, <1>17 DEF IInv, CandidateHasJob, OneHolder
<1>23. HolderOwnsAttempt'
  BY <1>15, <1>17 DEF IInv, HolderOwnsAttempt
<1>24. ResultsAreTrue'
  <2> SUFFICES ASSUME NEW v \in Worker
               PROVE  /\ worker'[v].pc = "finish" => worker'[v].result \in ResultOf(v)'
                      /\ worker'[v].pc = "finish" /\ worker'[v].result.message_id # 0
                           => Message(v)' \in accepted'
                      /\ worker'[v].pc = "post" =>
                           attempts'[worker'[v].job][worker'[v].attempt] = "request_started"
    BY DEF ResultsAreTrue
  <2>1. CASE v = w
    BY <1>16, <2>1
  <2>2. CASE v # w
    <3>1. worker'[v] = worker[v]
      BY <1>16, <2>2
    <3>2. ResultOf(v)' = ResultOf(v) /\ Message(v)' = Message(v)
      BY <3>1 DEF ResultOf, Message
    <3>3. /\ worker[v].pc = "finish" => worker[v].result \in ResultOf(v)
          /\ worker[v].pc = "finish" /\ worker[v].result.message_id # 0
               => Message(v) \in accepted
          /\ worker[v].pc = "post" =>
               attempts[worker[v].job][worker[v].attempt] = "request_started"
      BY DEF IInv, ResultsAreTrue
    <3>4. worker[v].pc = "post" => worker[v].job \in Delivery /\ worker[v].job # d
      BY <1>17, <3>1 DEF Holding
    <3> QED
      BY <1>13, <1>15, <3>1, <3>2, <3>3, <3>4
  <2> QED
    BY <2>1, <2>2
<1>25. AcceptedIsLast'
  <2> SUFFICES ASSUME NEW x \in Delivery, NEW a \in Attempt, <<x, a>> \in accepted
               PROVE  /\ a = recipients'[x].attempt_count
                      /\ recipients'[x].status \in {"submitting", "uncertain", "accepted",
                                                    "delivered", "read", "failed"}
                      /\ recipients'[x].status = "failed"
                           => recipients'[x].provider_message_id = a
                      /\ \A v \in Worker : Holding(v)' /\ worker'[v].job = x =>
                           /\ worker'[v].pc = "finish"
                           /\ worker'[v].result \in {MessageId(a), UnknownReply}
    BY <1>13 DEF AcceptedIsLast
  <2>1. \A v \in Worker : Holding(v)' /\ worker'[v].job = x =>
                           /\ worker'[v].pc = "finish"
                           /\ worker'[v].result \in {MessageId(a), UnknownReply}
    BY <1>17 DEF IInv, AcceptedIsLast
  <2>2. CASE x = d
    <3>1. a = number /\ ~Retries(w) /\ result.status \in {"accepted", "uncertain"}
      BY <1>6, <1>7, <2>2
    <3> QED
      BY <1>2, <1>9, <1>15, <2>1, <2>2, <3>1
  <2>3. CASE x # d
    BY <1>15, <2>1, <2>3 DEF IInv, AcceptedIsLast
  <2> QED
    BY <2>2, <2>3
<1>26. MessageIdsAreTrue'
  <2>1. row.provider_message_id # 0 =>
          <<d, row.provider_message_id>> \in accepted /\ row.status = "accepted"
    BY <1>2, <1>4, <1>5, <1>7, <1>9
  <2> QED
    BY <1>13, <1>15, <2>1 DEF IInv, MessageIdsAreTrue
<1>27. AttemptLogIsAhead'
  BY <1>10, <1>13, <1>14, <1>15 DEF IInv, AttemptLogIsAhead
<1> QED
  BY <1>18, <1>19, <1>20, <1>21, <1>22, <1>23, <1>24, <1>25, <1>26, <1>27 DEF IInv

-----------------------------------------------------------------------------
\* Every step of a worker keeps the invariant.
LEMMA WorkerKeeps ==
  ASSUME IInv, NEW w \in Worker, WorkerStep(w) PROVE IInv'
<1>1. UNCHANGED <<approvalVars, webhookVars>>
  BY DEF WorkerStep
<1>2. ASSUME NEW d \in Delivery, NextJob(w, d) PROVE IInv'
  BY <1>1, <1>2, NextJobKeeps
<1>3. CASE ClaimJob(w)
  BY <1>1, <1>3, ClaimKeeps
<1>4. CASE LoseJob(w)
  BY <1>1, <1>4, ForgetKeeps
<1>5. CASE PreflightCurrent(w)
  BY <1>1, <1>5, PreflightCurrentKeeps
<1>6. CASE PreflightStale(w)
  BY <1>1, <1>6, PreflightStaleKeeps
<1>7. CASE \/ PreflightError(w)
           \/ \E retry \in BOOLEAN : UploadFails(w, retry)
           \/ \E retry \in BOOLEAN : PostRejected(w, retry)
  BY <1>1, <1>7, FailureKeeps
<1>8. CASE RequestStarted(w)
  BY <1>1, <1>8, RequestStartedKeeps
<1>9. CASE PostAccepted(w) \/ \E took \in BOOLEAN : PostUnknown(w, took)
  BY <1>1, <1>9, PostKeeps
<1>10. CASE Finish(w)
  BY <1>1, <1>10, FinishKeeps
<1> QED
  BY <1>2, <1>3, <1>4, <1>5, <1>6, <1>7, <1>8, <1>9, <1>10 DEF WorkerStep, Tick

\* Crashes and expired leases keep the invariant.
LEMMA FailureStepKeeps ==
  ASSUME IInv, FailureStep PROVE IInv'
  BY ForgetKeeps, RecoverLeaseKeeps DEF FailureStep

\* A step that changes nothing keeps the invariant.
LEMMA StutterKeeps ==
  ASSUME IInv, UNCHANGED vars PROVE IInv'
<1>1. UNCHANGED <<invoice, notification, recipients, attempts, staff, clock, worker,
                  accepted, pending, processed>>
  BY DEF vars, storeVars, approvalVars, workerVars, webhookVars
<1>2. TypeOK' /\ GenerationsTrail' /\ SendsAreTimed'
  BY <1>1 DEF IInv, TypeOK, StoreTypeOK, ApprovalTypeOK, WorkerTypeOK, WebhookTypeOK,
     GenerationsTrail, SendsAreTimed
<1>3. MessageInv'
  BY <1>1, MessageFrame DEF IInv, MessageInv
<1> QED
  BY <1>2, <1>3 DEF IInv, MessageInv

\* The invariant of NotificationsInductive holds in every reachable state, for
\* any number of notifications, destinations, requests, workers and attempts.
THEOREM Invariant == Spec => []IInv
<1>1. IInv /\ [Next]_vars => IInv'
  BY InvoiceKeeps, StaffKeeps, WorkerKeeps, FailureStepKeeps, ReceiveKeeps, ApplyKeeps,
     CleanupKeeps, StutterKeeps DEF Next
<1> QED
  BY <1>1, InitInv, PTL DEF Spec

\* Every variable keeps its shape: no attempt number passes
\* NOTIFICATION_MAX_ATTEMPTS and no status is outside the CHECK constraints.
THEOREM TypeCorrect == Spec => []TypeOK
<1>1. IInv => TypeOK
  BY DEF IInv
<1> QED
  BY <1>1, Invariant, PTL

\* A destination gets at most one message, whatever workers, crashes, leases
\* and retries do (worker.rs tick, repository.rs finish_attempt).
THEOREM AtMostOne == Spec => []AtMostOneMessage
<1>1. IInv => AtMostOneMessage
  BY DEF IInv, AcceptedIsLast, AtMostOneMessage, Messages
<1> QED
  BY <1>1, Invariant, PTL

\* A message that left is never reported as unsent.
THEOREM NeverSilent == Spec => []NoSilentSend
<1>1. IInv => NoSilentSend
  BY DEF IInv, AcceptedIsLast, NoSilentSend, Messages
<1> QED
  BY <1>1, Invariant, PTL

\* Only selected destinations of approved notifications get messages.
THEOREM OnlySelected == Spec => []OnlySelectedDestinations
<1>1. IInv => OnlySelectedDestinations
  BY DEF IInv, AcceptedIsLast, RowsMatch, OnlySelectedDestinations, Messages
<1> QED
  BY <1>1, Invariant, PTL

\* The attempt log is ahead of the network.
THEOREM LogIsAhead == Spec => []AttemptLogIsAhead
<1>1. IInv => AttemptLogIsAhead
  BY DEF IInv
<1> QED
  BY <1>1, Invariant, PTL

-----------------------------------------------------------------------------
(***************************************************************************)
(* Proofs about what staff are promised: previews, approvals and resends   *)
(* (HistoryInv), claims (ClaimsPass), callbacks (CallbacksMatch), and the  *)
(* refinement of MessagePromise.                                           *)
(*                                                                         *)
(* The argument for approvals.  What a request read before the lock stays  *)
(* true of the revision it read; so it is true now if the revision still   *)
(* is the same.  Most steps take a row back or leave it alone (Retreat),   *)
(* and those keep everything; the others change the invoice, read, insert  *)
(* a preview or approve.                                                   *)
(***************************************************************************)

\* A row keeps what it says of its event, and does not become active again.
SameStory(n) ==
    /\ notification'[n].kind = notification[n].kind
    /\ notification'[n].event_key = notification[n].event_key
    /\ notification'[n].source_hash = notification[n].source_hash
    /\ notification'[n].resend_of = notification[n].resend_of
    /\ notification'[n].approved_at = notification[n].approved_at
    /\ \/ notification'[n].state = notification[n].state
       \/ HasRow(n) /\ notification'[n].state \in {"stale", "cancelled"}

Retreat ==
    /\ \A n \in Notification :
         SameStory(n) \/ (~Approved(n) /\ notification'[n] = DeletedRow)
    /\ \A s \in Staff : staff'[s] = staff[s] \/ staff'[s] = IdleStaff
    /\ UNCHANGED <<invoice, clock>>

\* Requests have the types of their two halves.
LEMMA StaffTypes ==
  ASSUME IInv, NEW s \in Staff
  PROVE  /\ staff[s].pc = "rendering" => staff[s] \in PrepareRequest
         /\ staff[s].pc = "approving" => staff[s] \in ApproveRequest
         /\ staff[s].pc = "rendering" =>
              /\ staff[s].source_hash.revision \in Nat
              /\ staff[s].resend_of \in Notification \cup {None}
         /\ staff[s].pc = "approving" =>
              /\ staff[s].revision \in Nat /\ staff[s].now \in Nat
              /\ staff[s].notification \in Notification
<1>1. /\ staff[s].pc = "rendering" => staff[s] \in PrepareRequest
      /\ staff[s].pc = "approving" => staff[s] \in ApproveRequest
  BY DEF IInv, TypeOK, ApprovalTypeOK, PrepareRequest, ApproveRequest, IdleStaff
<1>2. 0..MaxRevision \subseteq Nat
  BY BoundsAssumption
<1>3. \A h \in Hash : h.revision \in Nat
  BY <1>2 DEF Hash
<1> QED
  BY <1>1, <1>2, <1>3 DEF PrepareRequest, ApproveRequest

\* The numbers that the invariant compares.
LEMMA HistoryTypes ==
  ASSUME IInv
  PROVE  /\ invoice.revision \in Nat /\ clock \in Nat
         /\ \A n \in Notification :
              /\ notification[n] \in Row
              /\ notification[n].source_hash.revision \in Nat
              /\ notification[n].approved_at \in Nat
              /\ notification[n].resend_of \in Notification \cup {None}
<1>1. 0..MaxRevision \subseteq Nat /\ 1..MaxRevision \subseteq Nat /\ 0..MaxClock \subseteq Nat
  BY BoundsAssumption, ClockAssumption
<1>2. \A h \in Hash : h.revision \in Nat
  BY <1>1 DEF Hash
<1>3. \A n \in Notification : notification[n] \in Row
  BY DEF IInv, TypeOK, StoreTypeOK
<1>4. invoice.revision \in Nat /\ clock \in Nat
  BY <1>1 DEF IInv, TypeOK, StoreTypeOK, ApprovalTypeOK, Invoice
<1> QED
  BY <1>2, <1>3, <1>4 DEF Row

\* The rows of ids without a notification say nothing.
LEMMA EmptyStory ==
  /\ DeletedRow.state = "deleted" /\ DeletedRow.approved_at = 0
  /\ DeletedRow.resend_of = None /\ DeletedRow.source_hash.revision = 0
  BY DEF DeletedRow, AbsentRow

\* Nothing was prepared or approved at the start.
LEMMA InitHistory == Init => HistoryInv
<1> SUFFICES ASSUME Init PROVE HistoryInv
  OBVIOUS
<1>1. \A n \in Notification : notification[n] = AbsentRow
  BY DEF Init, StoreInit
<1>2. \A s \in Staff : staff[s].pc = "idle"
  BY DEF Init, ApprovalInit, IdleStaff
<1>3. /\ AbsentRow.state = "absent" /\ AbsentRow.approved_at = 0
      /\ AbsentRow.resend_of = None /\ AbsentRow.source_hash.revision = 0
  BY DEF AbsentRow
<1>4. clock = 0 /\ invoice.revision = 1
  BY DEF Init, StoreInit, ApprovalInit
<1>5. RevisionsPass /\ GenerationsAreRead /\ RequestsHaveRead
  BY <1>1, <1>2, <1>3, <1>4 DEF RevisionsPass, GenerationsAreRead, RequestsHaveRead, HasRow
<1>6. ApprovedEventsAreClosed /\ ApprovalsArePast /\ ResendsFollow
  BY <1>1, <1>2, <1>3, <1>4 DEF ApprovedEventsAreClosed, ApprovalsArePast, ResendsFollow
<1>7. OneNotificationPerEvent /\ ResentAtMostOnce
  BY <1>1, <1>3 DEF OneNotificationPerEvent, ResentAtMostOnce, Active, Approved
<1> QED
  BY <1>5, <1>6, <1>7 DEF HistoryInv

\* Taking rows back, or leaving them alone, keeps the history.
LEMMA RetreatKeeps ==
  ASSUME IInv, HistoryInv, Retreat
  PROVE  HistoryInv'
<1> USE DEF HistoryInv
<1>1. \A n \in Notification :
        /\ notification'[n].source_hash.revision \in {notification[n].source_hash.revision, 0}
        /\ notification'[n].approved_at = notification[n].approved_at
        /\ Active(n)' => Active(n) /\ SameStory(n)
        /\ notification'[n].state = "draft" => notification[n].state = "draft" /\ SameStory(n)
        /\ HasRow(n)' => HasRow(n) /\ SameStory(n)
        /\ Approved(n) => SameStory(n)
        /\ notification'[n].resend_of # None =>
             SameStory(n) /\ (notification'[n].state = "deleted" => notification[n].state = "deleted")
        /\ notification'[n].state = "absent" => notification[n].state = "absent"
  BY EmptyStory DEF Retreat, SameStory, HasRow, Active, Approved
<1>2. /\ invoice' = invoice /\ clock' = clock
      /\ \A s \in Staff : staff'[s].pc # "idle" => staff'[s] = staff[s]
  BY DEF Retreat, IdleStaff
<1>3. RevisionsPass'
  <2>1. \A n \in Notification : notification'[n].source_hash.revision <= invoice.revision
    BY <1>1, HistoryTypes DEF RevisionsPass
  <2> QED
    BY <1>2, <2>1 DEF RevisionsPass
<1>4. GenerationsAreRead'
  BY <1>1, <1>2 DEF GenerationsAreRead, SameStory
<1>5. RequestsHaveRead'
  <2> SUFFICES ASSUME NEW s \in Staff, staff'[s].pc = "approving"
               PROVE  LET n == staff'[s].notification
                          row == notification'[n]
                      IN /\ row.state # "absent"
                         /\ row.state \notin {"absent", "deleted"} =>
                              /\ row.source_hash.revision = staff'[s].revision
                              /\ IsPickup(row.kind) /\ staff'[s].revision = invoice.revision
                                   => invoice.ready
                              /\ staff'[s].send /\ row.resend_of # None
                                   => notification'[row.resend_of].approved_at < staff'[s].now
    BY <1>2 DEF RequestsHaveRead, HasRow, IsPickup
  <2>1. staff'[s] = staff[s] /\ staff[s].notification \in Notification
    BY <1>2, StaffTypes
  <2>2. notification[staff[s].notification].resend_of \in Notification \cup {None}
    BY <2>1, HistoryTypes
  <2> QED
    BY <1>1, <2>1, <2>2 DEF RequestsHaveRead, HasRow, SameStory
<1>6. ApprovedEventsAreClosed'
  BY <1>1 DEF ApprovedEventsAreClosed, Approved, SameStory
<1>7. ApprovalsArePast'
  BY <1>1, <1>2 DEF ApprovalsArePast
<1>8. ResendsFollow'
  <2> SUFFICES ASSUME NEW n \in Notification, notification'[n].resend_of # None
               PROVE  LET original == notification'[n].resend_of IN
                      /\ notification'[original].approved_at # 0
                      /\ notification'[n].state # "deleted"
                      /\ IsPickup(notification'[n].kind) = IsPickup(notification'[original].kind)
                      /\ Approved(n)' => notification'[original].approved_at
                                           < notification'[n].approved_at
    BY DEF ResendsFollow, IsPickup, Approved
  <2>1. SameStory(n) /\ (notification'[n].state = "deleted" => notification[n].state = "deleted")
    BY <1>1
  <2>2. notification[n].resend_of # None /\ notification[n].resend_of \in Notification
    BY <2>1, HistoryTypes DEF SameStory
  <2>3. SameStory(notification[n].resend_of)
    BY <1>1, <2>2 DEF ResendsFollow
  <2> QED
    BY <2>1, <2>2, <2>3 DEF ResendsFollow, SameStory, Approved
<1>9. OneNotificationPerEvent'
  BY <1>1 DEF OneNotificationPerEvent, SameStory, Approved
<1>10. ResentAtMostOnce'
  BY <1>1 DEF ResentAtMostOnce, SameStory, Approved
<1> QED
  BY <1>3, <1>4, <1>5, <1>6, <1>7, <1>8, <1>9, <1>10

\* A change of the invoice leaves what was read at an earlier revision; an edit of
\* the catalogue changes neither the revision nor the readiness.
LEMMA InvoiceHistory ==
  ASSUME IInv, HistoryInv, InvoiceStep
  PROVE  HistoryInv'
<1> USE DEF HistoryInv
<1>1. /\ UNCHANGED <<notification, staff, clock>>
      /\ \/ invoice'.revision = invoice.revision + 1
         \/ /\ invoice'.revision = invoice.revision /\ invoice'.ready = invoice.ready
            /\ invoice'.generation = invoice.generation
  BY DEF IInv, TypeOK, StoreTypeOK, Invoice, InvoiceStep, ChangeInvoice, ConfirmReady,
     EditCatalog, approvalVars
<1>2. /\ invoice.revision \in Nat
      /\ \A n \in Notification : notification[n].source_hash.revision \in Nat
      /\ \A s \in Staff :
           /\ staff[s].pc = "rendering" => staff[s].source_hash.revision \in Nat
           /\ staff[s].pc = "approving" => staff[s].revision \in Nat
  BY HistoryTypes, StaffTypes
<1>3. RevisionsPass'
  BY <1>1, <1>2 DEF RevisionsPass
<1>4. GenerationsAreRead'
  BY <1>1, <1>2 DEF GenerationsAreRead, RevisionsPass, HasRow
<1>5. RequestsHaveRead'
  BY <1>1, <1>2 DEF RequestsHaveRead, RevisionsPass, HasRow
<1>6. (ApprovedEventsAreClosed /\ ApprovalsArePast /\ ResendsFollow)'
  BY <1>1 DEF ApprovedEventsAreClosed, ApprovalsArePast, ResendsFollow, Approved
<1>7. (OneNotificationPerEvent /\ ResentAtMostOnce)'
  BY <1>1 DEF OneNotificationPerEvent, ResentAtMostOnce, Active, Approved
<1> QED
  BY <1>3, <1>4, <1>5, <1>6, <1>7

\* What a request reads outside the lock: the rest of the system does not change.
LEMMA ReadHistory ==
  ASSUME IInv, HistoryInv, NEW s \in Staff,
         UNCHANGED <<notification, invoice>>, clock' \in Nat, clock <= clock',
         \A t \in Staff : t # s => staff'[t] = staff[t],
         staff'[s].pc = "rendering" =>
           /\ staff'[s].source_hash.revision = invoice.revision
           /\ staff'[s].event_key[1] = "ready" => staff'[s].event_key[2] = invoice.generation,
         staff'[s].pc = "approving" =>
           LET row == notification[staff'[s].notification] IN
           /\ HasRow(staff'[s].notification)
           /\ staff'[s].revision = invoice.revision
           /\ row.source_hash.revision = invoice.revision
           /\ IsPickup(row.kind) => invoice.ready
           /\ staff'[s].now <= clock'
           /\ staff'[s].send /\ row.resend_of # None
                => notification[row.resend_of].approved_at < staff'[s].now
  PROVE  HistoryInv'
<1> USE DEF HistoryInv
<1>1. /\ invoice.revision \in Nat /\ clock \in Nat
      /\ \A n \in Notification : notification[n].approved_at \in Nat
      /\ \A t \in Staff : staff[t].pc = "approving" => staff[t].now \in Nat
  BY HistoryTypes, StaffTypes
<1>2. RevisionsPass'
  BY <1>1 DEF RevisionsPass
<1>3. GenerationsAreRead'
  BY DEF GenerationsAreRead, HasRow
<1>4. RequestsHaveRead'
  <2> SUFFICES ASSUME NEW t \in Staff, staff'[t].pc = "approving"
               PROVE  LET row == notification[staff'[t].notification] IN
                      /\ row.state # "absent"
                      /\ row.state \notin {"absent", "deleted"} =>
                           /\ row.source_hash.revision = staff'[t].revision
                           /\ IsPickup(row.kind) /\ staff'[t].revision = invoice.revision
                                => invoice.ready
                           /\ staff'[t].send /\ row.resend_of # None
                                => notification[row.resend_of].approved_at < staff'[t].now
    BY DEF RequestsHaveRead, HasRow, IsPickup
  <2>1. CASE t = s
    BY <2>1 DEF HasRow
  <2>2. CASE t # s
    BY <2>2 DEF RequestsHaveRead, HasRow
  <2> QED
    BY <2>1, <2>2
<1>5. ApprovalsArePast'
  BY <1>1 DEF ApprovalsArePast
<1>6. (ApprovedEventsAreClosed /\ ResendsFollow)'
  BY DEF ApprovedEventsAreClosed, ResendsFollow, Approved
<1>7. (OneNotificationPerEvent /\ ResentAtMostOnce)'
  BY DEF OneNotificationPerEvent, ResentAtMostOnce, Active, Approved
<1> QED
  BY <1>2, <1>3, <1>4, <1>5, <1>6, <1>7

\* prepare reads the source and names the event by what it read.
LEMMA PrepareReadHistory ==
  ASSUME IInv, HistoryInv, NEW s \in Staff, NEW kind \in Kind,
         NEW original \in Notification \cup {None}, NEW q \in Request,
         PrepareRead(s, kind, original, q)
  PROVE  HistoryInv'
<1> DEFINE p == [pc |-> "rendering", kind |-> kind, resend_of |-> original,
                 event_key |-> EventKey(kind, original, q), source_hash |-> SourceHash(kind)]
<1>1. /\ staff'[s] = p /\ UNCHANGED <<notification, invoice, clock>>
      /\ \A t \in Staff : t # s => staff'[t] = staff[t]
  BY DEF IInv, TypeOK, ApprovalTypeOK, PrepareRead, storeVars
<1>2. p.source_hash.revision = invoice.revision
  BY DEF SourceHash
<1>3. p.event_key[1] = "ready" => p.event_key[2] = invoice.generation
  BY DEF EventKey
<1>4. p.pc = "rendering"
  OBVIOUS
<1> HIDE DEF p
<1> QED
  BY <1>1, <1>2, <1>3, <1>4, HistoryTypes, ReadHistory

\* approve reads the row and compares its fingerprint with the present source.
LEMMA ApproveReadHistory ==
  ASSUME IInv, HistoryInv, NEW s \in Staff, NEW n \in Notification,
         NEW selected \in SUBSET Mobile, NEW send \in BOOLEAN,
         ApproveRead(s, n, selected, send)
  PROVE  HistoryInv'
<1> DEFINE p == [pc |-> "approving", notification |-> n, selected |-> selected,
                 send |-> send, version |-> notification[n].preview_version,
                 revision |-> invoice.revision, now |-> clock']
<1>1. /\ staff'[s] = p /\ UNCHANGED <<notification, invoice>>
      /\ \A t \in Staff : t # s => staff'[t] = staff[t]
      /\ clock' = IF send THEN clock + 1 ELSE clock
  BY DEF IInv, TypeOK, ApprovalTypeOK, ApproveRead, storeVars
<1>2. clock \in Nat /\ clock' \in Nat /\ clock <= clock'
  BY <1>1, HistoryTypes
<1>3. /\ HasRow(n) /\ notification[n].source_hash.revision = invoice.revision
      /\ IsPickup(notification[n].kind) => invoice.ready
  BY DEF ApproveRead, SourceHash, SourceAvailable
<1>4. send /\ notification[n].resend_of # None
        => notification[notification[n].resend_of].approved_at < clock'
  <2> SUFFICES ASSUME send, notification[n].resend_of # None
               PROVE  notification[notification[n].resend_of].approved_at < clock'
    OBVIOUS
  <2>1. notification[n].resend_of \in Notification
    BY HistoryTypes
  <2>2. /\ notification[notification[n].resend_of].approved_at \in Nat
        /\ notification[notification[n].resend_of].approved_at <= clock
    BY <2>1, HistoryTypes DEF HistoryInv, ApprovalsArePast
  <2> QED
    BY <1>1, <1>2, <2>2
<1>5. /\ p.pc = "approving" /\ p.notification = n /\ p.revision = invoice.revision
      /\ p.now = clock' /\ p.send = send
  OBVIOUS
<1> HIDE DEF p
<1> QED
  BY <1>1, <1>2, <1>3, <1>4, <1>5, ReadHistory

\* The insertion of a preview withdraws the older draft of its event.
LEMMA PrepareInsertHistory ==
  ASSUME IInv, HistoryInv, NEW s \in Staff, NEW n \in Notification, PrepareInsert(s, n)
  PROVE  HistoryInv'
<1> USE DEF HistoryInv
<1> DEFINE p == staff[s]
           older == ActiveEvent(p.event_key)
           row == [AbsentRow EXCEPT !.state = "draft", !.kind = p.kind,
                     !.event_key = p.event_key, !.source_hash = p.source_hash,
                     !.resend_of = p.resend_of]
<1>1. /\ row.state = "draft" /\ row.kind = p.kind /\ row.event_key = p.event_key
      /\ row.source_hash = p.source_hash /\ row.resend_of = p.resend_of
      /\ row.approved_at = 0
  BY DEF AbsentRow
<1> HIDE DEF row
<1>2. /\ p.pc = "rendering" /\ notification[n].state = "absent"
      /\ p.source_hash.revision = invoice.revision
      /\ ApprovedEvent(p.event_key) = {} /\ ResendAllowed(p.kind, p.resend_of)
      /\ UNCHANGED <<invoice, clock>>
      /\ p.resend_of \in Notification \cup {None}
  BY StaffTypes DEF PrepareInsert, PrepareInserts
<1>3. /\ n \notin older /\ ~Approved(n)
      /\ notification[n].resend_of = None \/ notification[n].state # "deleted"
  BY <1>2 DEF ActiveEvent, Active, IInv, ApprovedRows
<1>4. /\ notification'[n] = row
      /\ \A x \in Notification \ {n} : x \in older =>
           notification'[x] = [notification[x] EXCEPT !.state = "stale"]
      /\ \A x \in Notification \ {n} : x \notin older => notification'[x] = notification[x]
  BY DEF PrepareInsert, row
<1>5. \A x \in Notification \ {n} :
        /\ SameStory(x)
        /\ Active(x)' => Active(x) /\ x \notin older
        /\ notification'[x].state = "draft" => notification[x].state = "draft"
        /\ HasRow(x)' => HasRow(x)
        /\ notification'[x].state = "deleted" => notification[x].state = "deleted"
        /\ notification'[x].state = "absent" => notification[x].state = "absent"
        /\ Approved(x)' = Approved(x)
  <2> SUFFICES ASSUME NEW x \in Notification, x # n
               PROVE  /\ SameStory(x)
                      /\ Active(x)' => Active(x) /\ x \notin older
                      /\ notification'[x].state = "draft" => notification[x].state = "draft"
                      /\ HasRow(x)' => HasRow(x)
                      /\ notification'[x].state = "deleted" => notification[x].state = "deleted"
                      /\ notification'[x].state = "absent" => notification[x].state = "absent"
                      /\ Approved(x)' = Approved(x)
    OBVIOUS
  <2>1. CASE x \in older
    <3>1. notification'[x] = [notification[x] EXCEPT !.state = "stale"]
      BY <1>4, <2>1
    <3>2. notification[x] \in Row /\ Active(x)
      BY <2>1, HistoryTypes DEF ActiveEvent
    <3>3. HasRow(x)
      BY <3>2 DEF Active, HasRow
    <3> QED
      BY <3>1, <3>2, <3>3 DEF SameStory, Active, HasRow, Approved, Row
  <2>2. CASE x \notin older
    BY <1>4, <2>2 DEF SameStory, Active, HasRow, Approved
  <2> QED
    BY <2>1, <2>2
<1>6. \A t \in Staff : staff'[t].pc # "idle" => staff'[t] = staff[t]
  BY DEF IInv, TypeOK, ApprovalTypeOK, PrepareInsert, IdleStaff
<1>7. ~Approved(n)' /\ \A m \in Notification : Approved(m) => notification[m].event_key # p.event_key
  BY <1>1, <1>2, <1>4 DEF ApprovedEvent, Approved
<1>8. \A m \in Notification \ {n} : Active(m)' => notification[m].event_key # p.event_key
  BY <1>5 DEF ActiveEvent
<1>9. RevisionsPass'
  <2>1. \A x \in Notification : notification'[x].source_hash.revision <= invoice.revision
    BY <1>1, <1>2, <1>4, <1>5, HistoryTypes DEF RevisionsPass, SameStory
  <2> QED
    BY <1>2, <1>6, <2>1 DEF RevisionsPass
<1>10. GenerationsAreRead'
  BY <1>1, <1>2, <1>4, <1>5, <1>6 DEF GenerationsAreRead, SameStory
<1>11. RequestsHaveRead'
  <2> SUFFICES ASSUME NEW t \in Staff, staff'[t].pc = "approving"
               PROVE  LET x == notification'[staff'[t].notification] IN
                      /\ x.state # "absent"
                      /\ x.state \notin {"absent", "deleted"} =>
                           /\ x.source_hash.revision = staff'[t].revision
                           /\ IsPickup(x.kind) /\ staff'[t].revision = invoice.revision
                                => invoice.ready
                           /\ staff'[t].send /\ x.resend_of # None
                                => notification'[x.resend_of].approved_at < staff'[t].now
    BY <1>2 DEF RequestsHaveRead, HasRow, IsPickup
  <2>1. staff'[t] = staff[t] /\ staff[t].notification \in Notification \ {n}
    BY <1>2, <1>6, StaffTypes DEF RequestsHaveRead
  <2>2. /\ notification[staff[t].notification].resend_of \in Notification \cup {None}
        /\ notification[staff[t].notification].resend_of # n
    BY <1>3, <2>1, HistoryTypes, NoneAssumption DEF ResendsFollow
  <2> QED
    BY <1>5, <2>1, <2>2 DEF RequestsHaveRead, HasRow, SameStory
<1>12. ApprovedEventsAreClosed'
  BY <1>1, <1>4, <1>5, <1>7 DEF ApprovedEventsAreClosed, SameStory
<1>13. ApprovalsArePast'
  <2>1. \A x \in Notification : notification'[x].approved_at <= clock
    BY <1>1, <1>4, <1>5, HistoryTypes DEF ApprovalsArePast, SameStory
  <2> QED
    BY <1>2, <1>6, <2>1 DEF ApprovalsArePast
<1>14. ResendsFollow'
  <2> SUFFICES ASSUME NEW x \in Notification, notification'[x].resend_of # None
               PROVE  LET original == notification'[x].resend_of IN
                      /\ notification'[original].approved_at # 0
                      /\ notification'[x].state # "deleted"
                      /\ IsPickup(notification'[x].kind) = IsPickup(notification'[original].kind)
                      /\ Approved(x)' => notification'[original].approved_at
                                           < notification'[x].approved_at
    BY DEF ResendsFollow, IsPickup, Approved
  <2>1. CASE x = n
    <3>1. p.resend_of \in Notification \ {n} /\ Approved(p.resend_of)
      BY <1>1, <1>2, <1>3, <1>4, <2>1 DEF ResendAllowed
    <3>2. IsPickup(notification[p.resend_of].kind) = IsPickup(p.kind)
      BY <1>1, <1>2, <1>4, <2>1 DEF ResendAllowed, LatestApproved
    <3> QED
      BY <1>1, <1>4, <1>5, <1>7, <2>1, <3>1, <3>2 DEF SameStory, Approved, IsPickup
  <2>2. CASE x # n
    <3>1. /\ notification[x].resend_of # None
          /\ notification[x].resend_of \in Notification
          /\ notification[x].resend_of # n
      BY <1>3, <1>5, <2>2, HistoryTypes DEF SameStory, ResendsFollow
    <3> QED
      BY <1>5, <2>2, <3>1 DEF ResendsFollow, SameStory, Approved
  <2> QED
    BY <2>1, <2>2
<1>15. OneNotificationPerEvent'
  BY <1>1, <1>4, <1>5, <1>7, <1>8 DEF OneNotificationPerEvent, SameStory
<1>16. ResentAtMostOnce'
  BY <1>5, <1>7 DEF ResentAtMostOnce, SameStory
<1> QED
  BY <1>9, <1>10, <1>11, <1>12, <1>13, <1>14, <1>15, <1>16

\* The approval: nothing else of its event is active or approved, and nobody approved
\* a resend of the same notification before.
LEMMA ApproveHistory ==
  ASSUME IInv, HistoryInv, NEW s \in Staff, Approve(s)
  PROVE  HistoryInv'
<1> USE DEF HistoryInv
<1> DEFINE p == staff[s]
           n == p.notification
<1>1. /\ p.pc = "approving" /\ p.send /\ n \in Notification /\ p.now \in Nat \ {0}
      /\ notification[n].state = "draft" /\ invoice.revision = p.revision
      /\ ResendAllowed(notification[n].kind, notification[n].resend_of)
      /\ UNCHANGED <<invoice, clock>>
  BY StaffTypes DEF Approve, ApprovalHolds, IInv, SendsAreTimed
<1>2. /\ notification' = [notification EXCEPT ![n] =
                            [notification[n] EXCEPT !.state = "approved", !.approved_at = p.now]]
      /\ \A t \in Staff : staff'[t].pc # "idle" => staff'[t] = staff[t]
  BY DEF IInv, TypeOK, ApprovalTypeOK, Approve, IdleStaff
<1>3. ~Approved(n) /\ HasRow(n) /\ Active(n)
  BY <1>1 DEF IInv, ApprovedRows, HasRow, Active
<1>4. /\ notification'[n].kind = notification[n].kind
      /\ notification'[n].event_key = notification[n].event_key
      /\ notification'[n].source_hash = notification[n].source_hash
      /\ notification'[n].resend_of = notification[n].resend_of
      /\ notification'[n].state = "approved" /\ notification'[n].approved_at = p.now
      /\ \A x \in Notification : x # n => notification'[x] = notification[x]
  <2>1. notification'[n] = [notification[n] EXCEPT !.state = "approved", !.approved_at = p.now]
    BY <1>1, <1>2 DEF IInv, TypeOK, StoreTypeOK
  <2>2. notification[n] \in Row
    BY <1>1, HistoryTypes
  <2>3. \A x \in Notification : x # n => notification'[x] = notification[x]
    BY <1>1, <1>2 DEF IInv, TypeOK, StoreTypeOK
  <2> HIDE DEF n, p
  <2> QED
    BY <2>1, <2>2, <2>3 DEF Row
<1>5. \A x \in Notification : notification[x].resend_of # n
  BY <1>3, <1>1, NoneAssumption DEF ResendsFollow
<1>6. notification[n].resend_of # None =>
        /\ notification[n].resend_of \in Notification \ {n}
        /\ notification[notification[n].resend_of].approved_at < p.now
  BY <1>1, <1>3, <1>5, HistoryTypes DEF RequestsHaveRead
<1>7. p.now <= clock
  BY <1>1 DEF ApprovalsArePast
<1> HIDE DEF n, p
<1>8. RevisionsPass'
  <2>1. \A x \in Notification : notification'[x].source_hash = notification[x].source_hash
    BY <1>4
  <2> QED
    BY <1>1, <1>2, <2>1 DEF RevisionsPass
<1>9. GenerationsAreRead'
  <2>1. \A x \in Notification :
          /\ notification'[x].source_hash = notification[x].source_hash
          /\ notification'[x].event_key = notification[x].event_key
          /\ HasRow(x)' => HasRow(x)
    BY <1>3, <1>4 DEF HasRow
  <2> QED
    BY <1>1, <1>2, <2>1 DEF GenerationsAreRead
<1>10. RequestsHaveRead'
  <2> SUFFICES ASSUME NEW t \in Staff, staff'[t].pc = "approving"
               PROVE  LET x == notification'[staff'[t].notification] IN
                      /\ x.state # "absent"
                      /\ x.state \notin {"absent", "deleted"} =>
                           /\ x.source_hash.revision = staff'[t].revision
                           /\ IsPickup(x.kind) /\ staff'[t].revision = invoice.revision
                                => invoice.ready
                           /\ staff'[t].send /\ x.resend_of # None
                                => notification'[x.resend_of].approved_at < staff'[t].now
    BY <1>1 DEF RequestsHaveRead, HasRow, IsPickup
  <2>1. staff'[t] = staff[t] /\ staff[t].notification \in Notification
    BY <1>2, StaffTypes
  <2>2. /\ notification[staff[t].notification].resend_of \in Notification \cup {None}
        /\ notification[staff[t].notification].resend_of # n
    BY <1>5, <2>1, HistoryTypes
  <2> QED
    BY <1>3, <1>4, <2>1, <2>2 DEF RequestsHaveRead, HasRow
<1>11. ApprovedEventsAreClosed'
  <2> SUFFICES ASSUME NEW x \in Notification, NEW m \in Notification,
                      notification'[x].state = "draft", Approved(m)'
               PROVE  notification'[x].event_key # notification'[m].event_key
    BY DEF ApprovedEventsAreClosed
  <2>1. x # n /\ notification[x].state = "draft"
    BY <1>4
  <2>2. CASE m = n
    BY <1>1, <1>3, <1>4, <2>1, <2>2 DEF OneNotificationPerEvent, Active
  <2>3. CASE m # n
    BY <1>4, <2>1, <2>3 DEF ApprovedEventsAreClosed, Approved
  <2> QED
    BY <2>2, <2>3
<1>12. ApprovalsArePast'
  <2>1. \A x \in Notification : notification'[x].approved_at <= clock
    BY <1>4, <1>7 DEF ApprovalsArePast
  <2> QED
    BY <1>1, <1>2, <2>1 DEF ApprovalsArePast
<1>13. ResendsFollow'
  <2> SUFFICES ASSUME NEW x \in Notification, notification'[x].resend_of # None
               PROVE  LET original == notification'[x].resend_of IN
                      /\ notification'[original].approved_at # 0
                      /\ notification'[x].state # "deleted"
                      /\ IsPickup(notification'[x].kind) = IsPickup(notification'[original].kind)
                      /\ Approved(x)' => notification'[original].approved_at
                                           < notification'[x].approved_at
    BY DEF ResendsFollow, IsPickup, Approved
  <2>1. notification'[x].resend_of = notification[x].resend_of
    BY <1>4
  <2>2. /\ notification[x].resend_of \in Notification /\ notification[x].resend_of # n
        /\ notification'[notification[x].resend_of] = notification[notification[x].resend_of]
    BY <1>4, <1>5, <2>1, HistoryTypes
  <2> QED
    BY <1>4, <1>6, <2>1, <2>2 DEF ResendsFollow, Approved
<1>14. OneNotificationPerEvent'
  <2>1. \A x \in Notification : Approved(x) => notification[x].event_key # notification[n].event_key
    BY <1>1 DEF ApprovedEventsAreClosed
  <2>2. \A x \in Notification :
          /\ notification'[x].event_key = notification[x].event_key
          /\ Active(x)' => Active(x)
          /\ Approved(x)' => x = n \/ Approved(x)
    BY <1>3, <1>4 DEF Active, Approved
  <2> QED
    BY <2>1, <2>2 DEF OneNotificationPerEvent
<1>15. ResentAtMostOnce'
  <2>1. ASSUME NEW x \in Notification, Approved(x), notification[n].resend_of # None,
               notification[x].resend_of = notification[n].resend_of
        PROVE  FALSE
    <3> DEFINE original == notification[n].resend_of
    <3>1. original \in Notification /\ notification[original].approved_at < notification[x].approved_at
      BY <1>6, <2>1 DEF ResendsFollow
    <3>2. IsPickup(notification[x].kind) = IsPickup(notification[n].kind)
      BY <1>1, <2>1 DEF ResendsFollow
    <3>3. notification[x].approved_at <= notification[original].approved_at
      BY <1>1, <2>1, <3>1, <3>2 DEF ResendAllowed, LatestApproved
    <3> QED
      BY <2>1, <3>1, <3>3, HistoryTypes
  <2>2. \A x \in Notification :
          /\ notification'[x].resend_of = notification[x].resend_of
          /\ Approved(x)' => x = n \/ Approved(x)
    BY <1>4 DEF Approved
  <2> QED
    BY <2>1, <2>2 DEF ResentAtMostOnce
<1> QED
  BY <1>8, <1>9, <1>10, <1>11, <1>12, <1>13, <1>14, <1>15

-----------------------------------------------------------------------------
(* Which steps retreat. *)

\* A withdrawn row keeps what it says of its event.
LEMMA WithdrawnStory ==
  ASSUME IInv, NEW n \in Notification, HasRow(n), NEW v,
         v \in {"stale", "cancelled"} \/ v = notification[n].state,
         notification' = [notification EXCEPT ![n].state = v]
  PROVE  \A x \in Notification : SameStory(x)
<1>1. notification[n] \in Row /\ notification \in [Notification -> Row]
  BY DEF IInv, TypeOK, StoreTypeOK
<1>2. notification'[n] = [notification[n] EXCEPT !.state = v]
  BY <1>1
<1>3. \A x \in Notification : x # n => notification'[x] = notification[x]
  BY <1>1
<1>4. SameStory(n)
  BY <1>1, <1>2 DEF SameStory, Row
<1> QED
  BY <1>3, <1>4 DEF SameStory

LEMMA StaleStory ==
  ASSUME IInv, NEW n \in Notification, HasRow(n), MarkStale(n)
  PROVE  \A x \in Notification : SameStory(x)
<1>1. PICK v \in {"stale", notification[n].state} :
        notification' = [notification EXCEPT ![n].state = v]
  <2>1. notification' = [notification EXCEPT ![n].state =
                           IF Active(n) THEN "stale" ELSE notification[n].state]
    BY DEF MarkStale
  <2> QED
    BY <2>1
<1> QED
  BY <1>1, WithdrawnStory

\* Only rows that were never approved are deleted.
LEMMA DeletedStory ==
  ASSUME NEW S \in SUBSET Notification, \A n \in S : ~Approved(n), DeleteRows(S)
  PROVE  \A n \in Notification :
           SameStory(n) \/ (~Approved(n) /\ notification'[n] = DeletedRow)
  BY DEF DeleteRows, SameStory

\* A request that ends holds nothing.
LEMMA IdleStory ==
  ASSUME IInv, NEW s \in Staff, staff' = [staff EXCEPT ![s] = IdleStaff]
  PROVE  \A t \in Staff : staff'[t] = staff[t] \/ staff'[t] = IdleStaff
  BY DEF IInv, TypeOK, ApprovalTypeOK

LEMMA StaffRetreats ==
  ASSUME IInv, StaffStep
  PROVE  \/ Retreat
         \/ \E s \in Staff :
              \/ \E kind \in Kind, original \in Notification \cup {None}, q \in Request :
                   PrepareRead(s, kind, original, q)
              \/ \E n \in Notification : PrepareInsert(s, n)
              \/ \E n \in Notification, selected \in SUBSET Mobile, send \in BOOLEAN :
                   ApproveRead(s, n, selected, send)
              \/ Approve(s)
<1>1. ASSUME NEW s \in Staff, PrepareReturn(s) \/ ApproveReturn(s) PROVE Retreat
  BY <1>1, IdleStory DEF PrepareReturn, ApproveReturn, storeVars, Retreat, SameStory
<1>2. ASSUME NEW s \in Staff, SaveSelection(s) PROVE Retreat
  <2> DEFINE n == staff[s].notification
  <2>1. /\ staff[s].pc = "approving" /\ UNCHANGED <<invoice, clock>>
        /\ staff' = [staff EXCEPT ![s] = IdleStaff]
        /\ notification' = [notification EXCEPT ![n] =
             [notification[n] EXCEPT !.preview_version = notification[n].preview_version + 1]]
    BY <1>2 DEF SaveSelection
  <2>2. n \in Notification /\ notification[n] \in Row /\ notification \in [Notification -> Row]
    BY <2>1, StaffTypes DEF IInv, TypeOK, StoreTypeOK
  <2> HIDE DEF n
  <2>3. SameStory(n)
    BY <2>1, <2>2 DEF SameStory, Row
  <2>4. \A x \in Notification : x # n => SameStory(x)
    BY <2>1, <2>2 DEF SameStory
  <2> QED
    BY <2>1, <2>3, <2>4, IdleStory DEF Retreat
<1>3. ASSUME NEW n \in Notification, ApproveFindsStale(n) PROVE Retreat
  BY <1>3, StaleStory DEF ApproveFindsStale, Retreat
<1>4. ASSUME NEW n \in Notification, Cancel(n) PROVE Retreat
  BY <1>4, WithdrawnStory DEF Cancel, Retreat
<1>5. ASSUME NEW n \in Notification, DiscardPreview(n) PROVE Retreat
  BY <1>5, DeletedStory DEF DiscardPreview, Retreat
<1> QED
  BY <1>1, <1>2, <1>3, <1>4, <1>5 DEF StaffStep

LEMMA WorkerRetreats ==
  ASSUME IInv, NEW w \in Worker, WorkerStep(w) PROVE Retreat
<1>1. CASE PreflightStale(w)
  <2>1. HasRow(worker[w].job[1]) /\ worker[w].job[1] \in Notification
    BY <1>1, HeldRows DEF PreflightStale, Holding
  <2> QED
    BY <1>1, <2>1, StaleStory DEF PreflightStale, WorkerStep, Retreat, approvalVars
<1>2. CASE ~PreflightStale(w)
  <2>1. UNCHANGED <<invoice, notification>>
    BY <1>2 DEF WorkerStep, Tick, storeVars, NextJob, ClaimJob, LoseJob, PreflightCurrent,
       PreflightError, UploadFails, RequestStarted, PostAccepted, PostRejected, PostUnknown,
       Finish
  <2> QED
    BY <2>1 DEF WorkerStep, approvalVars, Retreat, SameStory
<1> QED
  BY <1>1, <1>2

LEMMA OthersRetreat ==
  ASSUME IInv, FailureStep \/ ReceiveStep \/ ApplyStep \/ CleanupStep \/ UNCHANGED vars
  PROVE  Retreat
<1>1. CASE FailureStep
  BY <1>1 DEF FailureStep, Crash, RecoverLease, storeVars, approvalVars, Retreat, SameStory
<1>2. CASE ReceiveStep
  BY <1>2 DEF ReceiveStep, ReceiveWebhook, storeVars, approvalVars, Retreat, SameStory
<1>3. CASE ApplyStep
  BY <1>3 DEF ApplyStep, ProcessWebhook, approvalVars, Retreat, SameStory
<1>4. CASE CleanupStep
  <2>1. PICK aged \in SUBSET Notification : CleanupPreviews(aged)
    BY <1>4 DEF CleanupStep
  <2> DEFINE S == {n \in Notification :
                     /\ HasRow(n)
                     /\ ~Approved(n)
                     /\ notification[n].state \in {"stale", "cancelled"} \/ n \in aged}
  <2>2. DeleteRows(S) /\ UNCHANGED <<invoice, staff, clock>>
    BY <2>1 DEF CleanupPreviews
  <2>3. S \in SUBSET Notification /\ \A n \in S : ~Approved(n)
    OBVIOUS
  <2> HIDE DEF S
  <2> QED
    BY <2>2, <2>3, DeletedStory DEF Retreat
<1>5. CASE UNCHANGED vars
  BY <1>5 DEF vars, storeVars, approvalVars, Retreat, SameStory
<1> QED
  BY <1>1, <1>2, <1>3, <1>4, <1>5

\* Every step retreats, changes the invoice, reads, inserts a preview or approves.
LEMMA HistorySteps ==
  ASSUME IInv, [Next]_vars
  PROVE  \/ Retreat
         \/ InvoiceStep
         \/ \E s \in Staff :
              \/ \E kind \in Kind, original \in Notification \cup {None}, q \in Request :
                   PrepareRead(s, kind, original, q)
              \/ \E n \in Notification : PrepareInsert(s, n)
              \/ \E n \in Notification, selected \in SUBSET Mobile, send \in BOOLEAN :
                   ApproveRead(s, n, selected, send)
              \/ Approve(s)
  BY StaffRetreats, WorkerRetreats, OthersRetreat DEF Next

LEMMA StepHistory == IInv /\ HistoryInv /\ [Next]_vars => HistoryInv'
  BY HistorySteps, RetreatKeeps, InvoiceHistory, PrepareReadHistory, PrepareInsertHistory,
     ApproveReadHistory, ApproveHistory

\* What requests read before the lock, and the approvals so far, are consistent
\* with the rows in every reachable state (service.rs prepare, approve).
THEOREM History == Spec => []HistoryInv
<1>1. Init => HistoryInv
  BY InitHistory
<1>2. IInv /\ HistoryInv /\ [Next]_vars => HistoryInv'
  BY StepHistory
<1> QED
  BY <1>1, <1>2, Invariant, PTL DEF Spec

\* A business event has one active notification and is approved once.
THEOREM OnePerEvent == Spec => []OneNotificationPerEvent
<1>1. HistoryInv => OneNotificationPerEvent
  BY DEF HistoryInv
<1> QED
  BY <1>1, History, PTL

\* An approved notification is explicitly resent at most once.
THEOREM ResentOnce == Spec => []ResentAtMostOnce
<1>1. HistoryInv => ResentAtMostOnce
  BY DEF HistoryInv
<1> QED
  BY <1>1, History, PTL

\* What was approved stays approved, at its time and with what it shows.
LEMMA ApprovedStory ==
  ASSUME IInv, [Next]_vars, NEW n \in Notification, Approved(n)
  PROVE  /\ notification'[n].approved_at = notification[n].approved_at
         /\ notification'[n].source_hash = notification[n].source_hash
         /\ notification'[n].state \in {"approved", "stale", "cancelled"}
<1>1. notification[n].state \in {"approved", "stale", "cancelled"}
  BY DEF IInv, ApprovedRows
<1>2. CASE Retreat
  BY <1>1, <1>2 DEF Retreat, SameStory
<1>3. CASE InvoiceStep
  BY <1>1, <1>3 DEF InvoiceStep, ChangeInvoice, ConfirmReady, EditCatalog
<1>4. CASE \E s \in Staff : \E kind \in Kind, original \in Notification \cup {None},
                               q \in Request : PrepareRead(s, kind, original, q)
  BY <1>1, <1>4 DEF PrepareRead, storeVars
<1>5. CASE \E s \in Staff : \E m \in Notification, selected \in SUBSET Mobile,
                               send \in BOOLEAN : ApproveRead(s, m, selected, send)
  BY <1>1, <1>5 DEF ApproveRead, storeVars
<1>6. ASSUME NEW s \in Staff, NEW m \in Notification, PrepareInsert(s, m)
      PROVE  /\ notification'[n].approved_at = notification[n].approved_at
             /\ notification'[n].source_hash = notification[n].source_hash
             /\ notification'[n].state \in {"approved", "stale", "cancelled"}
  <2>1. n # m
    BY <1>1, <1>6 DEF PrepareInsert
  <2>2. \/ notification'[n] = notification[n]
        \/ notification'[n] = [notification[n] EXCEPT !.state = "stale"]
    BY <1>6, <2>1 DEF PrepareInsert
  <2>3. notification[n] \in Row
    BY HistoryTypes
  <2> QED
    BY <1>1, <2>2, <2>3 DEF Row
<1>7. ASSUME NEW s \in Staff, Approve(s)
      PROVE  /\ notification'[n].approved_at = notification[n].approved_at
             /\ notification'[n].source_hash = notification[n].source_hash
             /\ notification'[n].state \in {"approved", "stale", "cancelled"}
  <2>1. notification[staff[s].notification].state = "draft"
    BY <1>7 DEF Approve, ApprovalHolds
  <2>2. notification'[n] = notification[n]
    BY <1>1, <1>7, <2>1 DEF Approve, IInv, TypeOK, StoreTypeOK
  <2> QED
    BY <1>1, <2>2
<1> QED
  BY <1>2, <1>3, <1>4, <1>5, <1>6, <1>7, HistorySteps

\* No step deletes an approved notification or moves its approval.
THEOREM ApprovalStays == Spec => ApprovalIsPermanent
<1>1. IInv /\ [Next]_vars =>
        [\A n \in Notification : Approved(n) =>
           /\ notification'[n].approved_at = notification[n].approved_at
           /\ notification'[n].state \in {"approved", "stale", "cancelled"}]_vars
  BY ApprovedStory
<1> QED
  BY <1>1, Invariant, PTL DEF Spec, ApprovalIsPermanent

\* Approval happens only on the revision that the preview shows, and a pickup
\* message is approved only while the invoice is ready, in its generation.
THEOREM ApprovesTheShown == Spec => ApprovesWhatIsShown
<1>1. ASSUME IInv, HistoryInv, [Next]_vars, NEW n \in Notification, ~Approved(n), Approved(n)'
      PROVE  /\ notification[n].source_hash.revision = invoice.revision
             /\ IsPickup(notification[n].kind) =>
                  /\ invoice.ready
                  /\ notification[n].event_key[1] = "ready"
                       => notification[n].event_key[2] = invoice.generation
  <2>1. ~Retreat
    BY <1>1, EmptyStory DEF Retreat, SameStory, Approved
  <2>2. ~InvoiceStep
    BY <1>1 DEF InvoiceStep, ChangeInvoice, ConfirmReady, EditCatalog, Approved
  <2>3. ~\E s \in Staff : \E kind \in Kind, original \in Notification \cup {None},
                             q \in Request : PrepareRead(s, kind, original, q)
    BY <1>1 DEF PrepareRead, storeVars, Approved
  <2>4. ~\E s \in Staff : \E m \in Notification, selected \in SUBSET Mobile,
                             send \in BOOLEAN : ApproveRead(s, m, selected, send)
    BY <1>1 DEF ApproveRead, storeVars, Approved
  <2>5. ASSUME NEW s \in Staff, NEW m \in Notification, PrepareInsert(s, m) PROVE FALSE
    <3>1. \/ notification'[n] = notification[n]
          \/ notification'[n] = [notification[n] EXCEPT !.state = "stale"]
          \/ notification'[n] = [AbsentRow EXCEPT !.state = "draft", !.kind = staff[s].kind,
                                   !.event_key = staff[s].event_key,
                                   !.source_hash = staff[s].source_hash,
                                   !.resend_of = staff[s].resend_of]
      BY <2>5 DEF PrepareInsert
    <3>2. notification[n] \in Row
      BY <1>1, HistoryTypes
    <3> QED
      BY <1>1, <3>1, <3>2 DEF Approved, Row, AbsentRow
  <2>6. ASSUME NEW s \in Staff, Approve(s)
        PROVE  /\ notification[n].source_hash.revision = invoice.revision
               /\ IsPickup(notification[n].kind) =>
                    /\ invoice.ready
                    /\ notification[n].event_key[1] = "ready"
                         => notification[n].event_key[2] = invoice.generation
    <3>1. staff[s].notification = n
      BY <1>1, <2>6 DEF Approve, Approved, IInv, TypeOK, StoreTypeOK
    <3>2. /\ staff[s].pc = "approving" /\ invoice.revision = staff[s].revision /\ HasRow(n)
      BY <2>6, <3>1 DEF Approve, ApprovalHolds, HasRow
    <3>3. /\ notification[n].source_hash.revision = invoice.revision
          /\ IsPickup(notification[n].kind) => invoice.ready
      BY <1>1, <3>1, <3>2 DEF HistoryInv, RequestsHaveRead
    <3>4. notification[n].event_key[1] = "ready"
            => notification[n].event_key[2] = invoice.generation
      BY <1>1, <3>2, <3>3 DEF HistoryInv, GenerationsAreRead
    <3> QED
      BY <3>3, <3>4
  <2> QED
    BY <1>1, <2>1, <2>2, <2>3, <2>4, <2>5, <2>6, HistorySteps
<1>2. IInv /\ HistoryInv /\ [Next]_vars =>
        [\A n \in Notification : ~Approved(n) /\ Approved(n)' =>
           /\ notification[n].source_hash.revision = invoice.revision
           /\ IsPickup(notification[n].kind) =>
                /\ invoice.ready
                /\ notification[n].event_key[1] = "ready"
                     => notification[n].event_key[2] = invoice.generation]_vars
  BY <1>1
<1> QED
  BY <1>2, Invariant, History, PTL DEF Spec, ApprovesWhatIsShown

-----------------------------------------------------------------------------
(* Claims. *)

\* Nothing takes the revision of the invoice back.
LEMMA RevisionRises ==
  ASSUME IInv, [Next]_vars
  PROVE  invoice.revision \in Nat /\ invoice'.revision \in Nat
         /\ invoice.revision <= invoice'.revision
<1>1. invoice.revision \in Nat
  BY HistoryTypes
<1>2. invoice' = invoice \/ invoice'.revision = invoice.revision
                         \/ invoice'.revision = invoice.revision + 1
  BY HistorySteps DEF Retreat, InvoiceStep, ChangeInvoice, ConfirmReady, EditCatalog,
     PrepareRead, PrepareInsert, ApproveRead, Approve, storeVars, IInv, TypeOK,
     StoreTypeOK, Invoice
<1> QED
  BY <1>1, <1>2

\* Only ClaimJob begins to hold an attempt, and only PreflightCurrent sends on.
Proceeds(w) ==
    worker'[w].pc \in {"preflight", "send", "post", "finish"} =>
        /\ Holding(w) /\ worker'[w].job = worker[w].job
        /\ worker'[w].claimed = worker[w].claimed
        /\ worker'[w].pc \in {"send", "post"} => worker[w].pc \in {"send", "post"}

LEMMA WorkersProceed ==
  ASSUME IInv, [Next]_vars, NEW v \in Worker
  PROVE  Proceeds(v) \/ ClaimJob(v) \/ PreflightCurrent(v)
<1>1. CASE UNCHANGED worker
  BY <1>1 DEF Proceeds, Holding
<1>2. ASSUME NEW w \in Worker, WorkerStep(w) \/ Crash(w)
      PROVE  Proceeds(v) \/ ClaimJob(v) \/ PreflightCurrent(v)
  <2>1. worker \in [Worker -> WorkerState] /\ IdleWorker.pc = "idle"
    BY DEF IInv, TypeOK, WorkerTypeOK, IdleWorker
  <2>2. CASE v # w
    <3>1. worker'[v] = worker[v]
      BY <1>2, <2>1, <2>2 DEF WorkerStep, Tick, Crash, NextJob, ClaimJob, LoseJob,
         PreflightCurrent, PreflightStale, PreflightError, UploadFails, RequestStarted,
         PostAccepted, PostRejected, PostUnknown, Finish
    <3> QED
      BY <3>1 DEF Proceeds, Holding
  <2>3. CASE v = w /\ WorkerStep(w)
    <3>1. CASE (\E d \in Delivery : NextJob(w, d)) \/ LoseJob(w) \/ Finish(w)
      <4>1. worker'[w].pc \in {"idle", "candidate"}
        BY <2>1, <3>1 DEF NextJob, LoseJob, Finish, WorkerState
      <4> QED
        BY <2>3, <4>1 DEF Proceeds
    <3>2. CASE \/ PreflightStale(w) \/ PreflightError(w)
               \/ (\E retry \in BOOLEAN : UploadFails(w, retry) \/ PostRejected(w, retry))
               \/ PostAccepted(w) \/ \E took \in BOOLEAN : PostUnknown(w, took)
      <4>1. PICK result : worker' = [worker EXCEPT ![w].pc = "finish", ![w].result = result]
        BY <3>2 DEF PreflightStale, PreflightError, UploadFails, PostRejected, PostAccepted,
           PostUnknown
      <4>2. Holding(w)
        BY <3>2 DEF Holding, PreflightStale, PreflightError, UploadFails, PostRejected,
           PostAccepted, PostUnknown
      <4>3. /\ worker'[w].pc = "finish" /\ worker'[w].job = worker[w].job
            /\ worker'[w].claimed = worker[w].claimed
        BY <2>1, <4>1 DEF WorkerState
      <4> QED
        BY <2>3, <4>2, <4>3 DEF Proceeds
    <3>3. CASE RequestStarted(w)
      BY <2>1, <2>3, <3>3 DEF RequestStarted, Proceeds, Holding, WorkerState
    <3> QED
      BY <2>3, <3>1, <3>2, <3>3 DEF WorkerStep, Tick
  <2>4. CASE v = w /\ Crash(w)
    BY <2>1, <2>4 DEF Crash, Proceeds
  <2> QED
    BY <1>2, <2>2, <2>3, <2>4
<1> QED
  BY <1>1, <1>2 DEF Next, vars, InvoiceStep, StaffStep, FailureStep, RecoverLease, ReceiveStep,
     ApplyStep, CleanupStep, workerVars

\* A claim is a cutoff: what is rendered after it is not older.
LEMMA ClaimsKept == IInv /\ IInv' /\ ClaimsPass /\ [Next]_vars => ClaimsPass'
<1> SUFFICES ASSUME IInv, IInv', ClaimsPass, [Next]_vars, NEW w \in Worker
             PROVE  /\ Holding(w)' => worker'[w].claimed <= invoice'.revision
                    /\ worker'[w].pc \in {"send", "post"} =>
                         notification'[worker'[w].job[1]].source_hash.revision
                           >= worker'[w].claimed
  BY DEF ClaimsPass, NothingStaleIsSent, Holding
<1>1. invoice.revision \in Nat /\ invoice'.revision \in Nat /\ invoice.revision <= invoice'.revision
  BY RevisionRises
<1>2. worker[w] \in WorkerState /\ \A c \in 0..MaxRevision : c \in Nat
  BY BoundsAssumption DEF IInv, TypeOK, WorkerTypeOK
<1>3. worker[w].claimed \in Nat
  BY <1>2 DEF WorkerState
<1>4. Holding(w) => /\ worker[w].job[1] \in Notification
                    /\ notification'[worker[w].job[1]].source_hash
                         = notification[worker[w].job[1]].source_hash
                    /\ notification[worker[w].job[1]].source_hash.revision \in Nat
  <2> SUFFICES ASSUME Holding(w)
               PROVE  /\ worker[w].job[1] \in Notification
                      /\ notification'[worker[w].job[1]].source_hash
                           = notification[worker[w].job[1]].source_hash
                      /\ notification[worker[w].job[1]].source_hash.revision \in Nat
    OBVIOUS
  <2>1. Approved(worker[w].job[1]) /\ worker[w].job[1] \in Notification
    BY HeldRows DEF IInv, RowsMatch
  <2> QED
    BY <2>1, ApprovedStory, HistoryTypes
<1>5. CASE Proceeds(w)
  BY <1>1, <1>3, <1>4, <1>5 DEF Proceeds, ClaimsPass, NothingStaleIsSent, Holding
<1>6. CASE ClaimJob(w)
  <2>1. invoice' = invoice /\ worker'[w].pc = "preflight"
        /\ worker'[w].claimed = invoice.revision
    BY <1>2, <1>6 DEF ClaimJob, IInv, TypeOK, WorkerTypeOK, WorkerState
  <2> QED
    BY <1>1, <2>1
<1>7. CASE PreflightCurrent(w)
  <2>1. /\ UNCHANGED <<invoice, notification>>
        /\ worker' = [worker EXCEPT ![w].pc = "send"] /\ worker[w].pc = "preflight"
        /\ notification[worker[w].job[1]].source_hash.revision = invoice.revision
    BY <1>7 DEF PreflightCurrent, SourceUnchanged, SourceHash, storeVars
  <2>2. /\ worker'[w].claimed = worker[w].claimed /\ worker'[w].job = worker[w].job
        /\ worker[w].claimed <= invoice.revision
    BY <1>2, <2>1 DEF IInv, TypeOK, WorkerTypeOK, WorkerState, ClaimsPass, Holding
  <2> QED
    BY <1>1, <1>3, <2>1, <2>2
<1> QED
  BY <1>5, <1>6, <1>7, WorkersProceed

\* What a worker is about to send was current at some time after its claim (worker.rs
\* tick claims before it renders).
THEOREM NothingStale == Spec => []NothingStaleIsSent
<1>1. Init => ClaimsPass
  BY DEF Init, WorkerInit, IdleWorker, ClaimsPass, NothingStaleIsSent, Holding
<1>2. IInv /\ IInv' /\ ClaimsPass /\ [Next]_vars => ClaimsPass'
  BY ClaimsKept
<1>3. ClaimsPass => NothingStaleIsSent
  BY DEF ClaimsPass
<1> QED
  BY <1>1, <1>2, <1>3, Invariant, PTL DEF Spec

-----------------------------------------------------------------------------
(* Recipients. *)

\* A row says the same, is opened or withdrawn before anything was sent, or goes
\* with its notification.
Moved(d) ==
    \/ /\ recipients'[d].status = recipients[d].status
       /\ recipients'[d].provider_message_id = recipients[d].provider_message_id
       /\ notification'[d[1]].state = "deleted" <=> notification[d[1]].state = "deleted"
    \/ /\ recipients[d].status \in Unstarted
       /\ recipients[d].provider_message_id = 0 /\ recipients'[d].provider_message_id = 0
       /\ notification[d[1]].state # "deleted"
       /\ \/ notification'[d[1]].state = "deleted" /\ recipients'[d].status = "none"
          \/ /\ notification'[d[1]].state # "deleted"
             /\ recipients[d].status # "cancelled"
             /\ recipients'[d].status \in {"draft", "queued", "cancelled"}

\* What has not started has no message id.
LEMMA UnstartedRows ==
  ASSUME IInv, NEW d \in Delivery
  PROVE  /\ recipients[d] \in Recipient /\ d[1] \in Notification
         /\ recipients[d].status \in Unstarted => recipients[d].provider_message_id = 0
  BY DEF IInv, TypeOK, StoreTypeOK, Delivery, Unstarted, MessageIdsAreTrue

LEMMA CancelMoves ==
  ASSUME IInv, NEW n \in Notification, HasRow(n), recipients' = CancelUnstarted(n),
         \A x \in Notification : SameStory(x)
  PROVE  \A d \in Delivery : Moved(d)
<1> SUFFICES ASSUME NEW d \in Delivery PROVE Moved(d)
  OBVIOUS
<1>1. notification'[d[1]].state = "deleted" <=> notification[d[1]].state = "deleted"
  BY UnstartedRows DEF SameStory, HasRow
<1>2. CASE d[1] = n /\ recipients[d].status \in {"draft", "queued"}
  <2>1. recipients'[d] = [recipients[d] EXCEPT !.status = "cancelled"]
    BY <1>2 DEF CancelUnstarted
  <2> QED
    BY <1>1, <1>2, <2>1, UnstartedRows DEF Recipient, Moved, Unstarted, HasRow
<1>3. CASE ~(d[1] = n /\ recipients[d].status \in {"draft", "queued"})
  BY <1>1, <1>3 DEF CancelUnstarted, Moved
<1> QED
  BY <1>2, <1>3

LEMMA DeleteMoves ==
  ASSUME IInv, NEW S \in SUBSET Notification, DeleteRows(S),
         \A n \in S : HasRow(n) /\ ~Approved(n)
  PROVE  \A d \in Delivery : Moved(d)
<1> SUFFICES ASSUME NEW d \in Delivery PROVE Moved(d)
  OBVIOUS
<1>1. CASE d[1] \in S
  <2>1. recipients'[d] = NoRecipient /\ notification'[d[1]] = DeletedRow
    BY <1>1 DEF DeleteRows
  <2>2. HasRow(d[1]) /\ recipients[d].status \in Unstarted
    BY <1>1 DEF IInv, RowsMatch, Unstarted
  <2> QED
    BY <2>1, <2>2, EmptyStory, UnstartedRows DEF NoRecipient, HasRow, Moved
<1>2. CASE d[1] \notin S
  BY <1>2, UnstartedRows DEF DeleteRows, Moved
<1> QED
  BY <1>1, <1>2

LEMMA SelectMoves ==
  ASSUME IInv, NEW n \in Notification, NEW selected, NEW queue,
         notification[n].state = "draft", recipients' = SelectRecipients(n, selected, queue),
         notification'[n].state # "deleted",
         \A x \in Notification : x # n => notification'[x] = notification[x]
  PROVE  \A d \in Delivery : Moved(d)
<1> SUFFICES ASSUME NEW d \in Delivery PROVE Moved(d)
  OBVIOUS
<1>1. CASE d[1] = n
  <2>1. recipients[d].status = "draft"
    BY <1>1 DEF IInv, RowsMatch
  <2> DEFINE status == IF queue /\ d[2] \in selected THEN "queued" ELSE "draft"
  <2>2. recipients'[d] = [recipients[d] EXCEPT !.selected = d[2] \in selected, !.status = status]
    BY <1>1 DEF SelectRecipients
  <2>3. status \in {"draft", "queued"}
    OBVIOUS
  <2> HIDE DEF status
  <2> QED
    BY <1>1, <2>1, <2>2, <2>3, UnstartedRows DEF Recipient, Moved, Unstarted
<1>2. CASE d[1] # n
  BY <1>2, UnstartedRows DEF SelectRecipients, Moved
<1> QED
  BY <1>1, <1>2

LEMMA InsertMoves ==
  ASSUME IInv, NEW s \in Staff, NEW n \in Notification, PrepareInsert(s, n)
  PROVE  \A d \in Delivery : Moved(d)
<1> SUFFICES ASSUME NEW d \in Delivery PROVE Moved(d)
  OBVIOUS
<1> DEFINE older == ActiveEvent(staff[s].event_key)
<1>1. notification[n].state = "absent" /\ n \notin older
  BY DEF PrepareInsert, ActiveEvent, Active
<1>2. CASE d[1] = n
  <2>1. recipients[d].status = "none"
    BY <1>1, <1>2 DEF IInv, RowsMatch, HasRow
  <2>2. /\ recipients'[d].status = "draft" /\ recipients'[d].provider_message_id = 0
        /\ notification'[n].state = "draft"
    BY <1>2 DEF PrepareInsert, NoRecipient, AbsentRow
  <2> QED
    BY <1>1, <1>2, <2>1, <2>2, UnstartedRows DEF Moved, Unstarted
<1>3. CASE d[1] # n /\ d[1] \in older
  <2>1. /\ recipients'[d] = CancelUnstarted(d[1])[d]
        /\ notification'[d[1]] = [notification[d[1]] EXCEPT !.state = "stale"]
        /\ Active(d[1])
    BY <1>3, UnstartedRows DEF PrepareInsert, ActiveEvent
  <2>2. notification'[d[1]].state # "deleted" /\ notification[d[1]].state # "deleted"
    BY <2>1, HistoryTypes, UnstartedRows DEF Row, Active
  <2>3. CASE recipients[d].status \in {"draft", "queued"}
    <3>1. recipients'[d] = [recipients[d] EXCEPT !.status = "cancelled"]
      BY <2>1, <2>3 DEF CancelUnstarted
    <3> QED
      BY <2>2, <2>3, <3>1, UnstartedRows DEF Recipient, Moved, Unstarted
  <2>4. CASE recipients[d].status \notin {"draft", "queued"}
    BY <2>1, <2>2, <2>4 DEF CancelUnstarted, Moved
  <2> QED
    BY <2>3, <2>4
<1>4. CASE d[1] # n /\ d[1] \notin older
  BY <1>4, UnstartedRows DEF PrepareInsert, Moved
<1> QED
  BY <1>2, <1>3, <1>4

\* Staff move rows and send nothing.
LEMMA StaffMoves ==
  ASSUME IInv, StaffStep
  PROVE  \A d \in Delivery : Moved(d)
<1>1. ASSUME UNCHANGED storeVars PROVE \A d \in Delivery : Moved(d)
  BY <1>1 DEF storeVars, Moved
<1>2. ASSUME NEW s \in Staff, Approve(s) \/ SaveSelection(s)
      PROVE  \A d \in Delivery : Moved(d)
  <2> DEFINE n == staff[s].notification
  <2>1. /\ staff[s].pc = "approving" /\ notification[n].state = "draft"
        /\ \E queue \in BOOLEAN :
             recipients' = SelectRecipients(n, staff[s].selected, queue)
    BY <1>2 DEF Approve, SaveSelection, ApprovalHolds
  <2>2. n \in Notification /\ notification \in [Notification -> Row] /\ notification[n] \in Row
    BY <2>1, StaffTypes DEF IInv, TypeOK, StoreTypeOK
  <2>3. \E row \in {[notification[n] EXCEPT !.state = "approved", !.approved_at = staff[s].now],
                    [notification[n] EXCEPT !.preview_version =
                       notification[n].preview_version + 1]} :
          notification' = [notification EXCEPT ![n] = row]
    BY <1>2 DEF Approve, SaveSelection
  <2> HIDE DEF n
  <2>4. /\ notification'[n].state # "deleted"
        /\ \A x \in Notification : x # n => notification'[x] = notification[x]
    BY <2>1, <2>2, <2>3 DEF Row
  <2> QED
    BY <2>1, <2>2, <2>4, SelectMoves
<1>3. ASSUME NEW n \in Notification, ApproveFindsStale(n) PROVE \A d \in Delivery : Moved(d)
  BY <1>3, StaleStory, CancelMoves DEF ApproveFindsStale, MarkStale
<1>4. ASSUME NEW n \in Notification, Cancel(n) PROVE \A d \in Delivery : Moved(d)
  BY <1>4, WithdrawnStory, CancelMoves DEF Cancel
<1>5. ASSUME NEW n \in Notification, DiscardPreview(n) PROVE \A d \in Delivery : Moved(d)
  BY <1>5, DeleteMoves DEF DiscardPreview
<1> QED
  BY <1>1, <1>2, <1>3, <1>4, <1>5, InsertMoves
  DEF StaffStep, PrepareRead, PrepareReturn, ApproveRead, ApproveReturn

LEMMA CleanupMoves ==
  ASSUME IInv, CleanupStep PROVE \A d \in Delivery : Moved(d)
<1>1. PICK aged \in SUBSET Notification : CleanupPreviews(aged)
  BY DEF CleanupStep
<1> DEFINE S == {n \in Notification :
                   /\ HasRow(n)
                   /\ ~Approved(n)
                   /\ notification[n].state \in {"stale", "cancelled"} \/ n \in aged}
<1>2. DeleteRows(S)
  BY <1>1 DEF CleanupPreviews
<1>3. S \in SUBSET Notification /\ \A n \in S : HasRow(n) /\ ~Approved(n)
  OBVIOUS
<1> HIDE DEF S
<1> QED
  BY <1>2, <1>3, DeleteMoves

\* Of a worker's steps, only the claim and the record of the result say something
\* new about a send.
LEMMA WorkerMoves ==
  ASSUME IInv, NEW w \in Worker, WorkerStep(w), ~ClaimJob(w), ~Finish(w)
  PROVE  \A d \in Delivery : Moved(d)
<1>1. CASE PreflightStale(w)
  <2>1. HasRow(worker[w].job[1]) /\ worker[w].job[1] \in Notification
    BY <1>1, HeldRows DEF PreflightStale, Holding
  <2> QED
    BY <1>1, <2>1, StaleStory, CancelMoves DEF PreflightStale, MarkStale
<1>2. CASE ~PreflightStale(w)
  <2>1. UNCHANGED <<notification, recipients>>
    BY <1>2 DEF WorkerStep, Tick, storeVars, NextJob, LoseJob, PreflightCurrent,
       PreflightError, UploadFails, RequestStarted, PostAccepted, PostRejected, PostUnknown
  <2> QED
    BY <2>1 DEF Moved
<1> QED
  BY <1>1, <1>2

\* Every step moves the rows of all deliveries, or is one of four about one of them.
LEMMA RecipientSteps ==
  ASSUME IInv, [Next]_vars
  PROVE  \/ \A d \in Delivery : Moved(d)
         \/ \E w \in Worker : ClaimJob(w) \/ Finish(w)
         \/ \E d \in Delivery : RecoverLease(d)
         \/ ApplyStep
<1>1. CASE InvoiceStep \/ ReceiveStep \/ UNCHANGED vars \/ \E w \in Worker : Crash(w)
  <2>1. UNCHANGED <<notification, recipients>>
    BY <1>1 DEF InvoiceStep, ChangeInvoice, ConfirmReady, EditCatalog, ReceiveStep,
       ReceiveWebhook, Crash, storeVars, vars
  <2> QED
    BY <2>1 DEF Moved
<1> QED
  BY <1>1, StaffMoves, CleanupMoves, WorkerMoves DEF Next, FailureStep

\* What the record of a result says of its send: that it was accepted, that nobody
\* knows, or that nothing was sent; and nothing at all when the lease was faster.
LEMMA FinishSays ==
  ASSUME IInv, NEW w \in Worker, Finish(w)
  PROVE  /\ worker[w].job \in Delivery /\ UNCHANGED <<notification, accepted>>
         /\ \A q \in Delivery : q # worker[w].job => recipients'[q] = recipients[q]
         /\ \/ recipients'[worker[w].job] = recipients[worker[w].job]
            \/ /\ recipients[worker[w].job].status = "submitting"
               /\ recipients[worker[w].job].provider_message_id = 0
               /\ \/ /\ recipients'[worker[w].job].status = "accepted"
                     /\ Messages(worker[w].job) # {}
                  \/ /\ recipients'[worker[w].job].status = "uncertain"
                     /\ recipients'[worker[w].job].provider_message_id = 0
                  \/ /\ recipients'[worker[w].job].status \in {"queued", "failed", "cancelled"}
                     /\ recipients'[worker[w].job].provider_message_id = 0
                     /\ Messages(worker[w].job) = {}
<1> DEFINE d == worker[w].job
           result == worker[w].result
           status == IF Retries(w) THEN "queued" ELSE result.status
<1>1. Holding(w) /\ worker[w].pc = "finish"
  BY DEF Finish, Holding
<1>2. /\ d \in Delivery /\ worker[w].attempt \in Attempt /\ recipients[d] \in Recipient
      /\ recipients[d].status \in {"submitting", "uncertain"}
      /\ recipients[d].provider_message_id = 0
  BY <1>1, HeldRows
<1>3. result \in ResultOf(w) /\ (result.message_id # 0 => <<d, worker[w].attempt>> \in accepted)
  BY <1>1 DEF IInv, ResultsAreTrue, Message
<1>4. \A a \in Attempt : <<d, a>> \in accepted => result \in {MessageId(a), UnknownReply}
  BY <1>1, <1>2 DEF IInv, AcceptedIsLast
<1>5. \/ status = "accepted" /\ Messages(d) # {}
      \/ status = "uncertain" /\ result.message_id = 0
      \/ status \in {"queued", "failed", "cancelled"} /\ result.message_id = 0
         /\ Messages(d) = {}
  <2>1. CASE result = MessageId(worker[w].attempt)
    BY <1>2, <1>3, <2>1, AttemptsAssumption DEF MessageId, Retries, Messages, Attempt
  <2>2. CASE result = UnknownReply
    BY <2>2 DEF UnknownReply, Failure, Retries
  <2>3. CASE result \in {Failure("cancelled", FALSE)}
                        \cup {Failure("failed", retry) : retry \in BOOLEAN}
    <3>1. result.message_id = 0 /\ result.status \in {"failed", "cancelled"}
      BY <2>3 DEF Failure
    <3>2. status \in {"queued", "failed", "cancelled"}
      BY <3>1
    <3>3. Messages(d) = {}
      BY <1>4, <3>1 DEF Messages, MessageId, UnknownReply, Failure
    <3> QED
      BY <3>1, <3>2, <3>3
  <2> QED
    BY <1>3, <2>1, <2>2, <2>3 DEF ResultOf
<1>6. /\ UNCHANGED <<notification, accepted>>
      /\ recipients'[d] = FinishedRecipient(recipients[d], result, Retries(w))
      /\ \A q \in Delivery : q # d => recipients'[q] = recipients[q]
  BY <1>2 DEF Finish, IInv, TypeOK, StoreTypeOK
<1>7. CASE recipients[d].status = "uncertain"
  BY <1>2, <1>6, <1>7 DEF FinishedRecipient
<1>8. CASE recipients[d].status = "submitting"
  <2>1. recipients'[d] = [recipients[d] EXCEPT !.status = status,
                            !.provider_message_id = result.message_id]
    BY <1>2, <1>6, <1>8 DEF FinishedRecipient
  <2> HIDE DEF status, result
  <2>2. /\ recipients'[d].status = status
        /\ recipients'[d].provider_message_id = result.message_id
    BY <1>2, <2>1 DEF Recipient
  <2> QED
    BY <1>2, <1>5, <1>6, <1>8, <2>2
<1> QED
  BY <1>2, <1>7, <1>8

\* What a claim and the recovery of a lease say of their send.
LEMMA ClaimSays ==
  ASSUME IInv, NEW w \in Worker, ClaimJob(w)
  PROVE  /\ worker[w].job \in Delivery /\ UNCHANGED <<notification, accepted>>
         /\ \A q \in Delivery : q # worker[w].job => recipients'[q] = recipients[q]
         /\ recipients[worker[w].job].status = "queued"
         /\ recipients[worker[w].job].provider_message_id = 0
         /\ notification[worker[w].job[1]].state = "approved"
         /\ recipients'[worker[w].job].status = "submitting"
         /\ recipients'[worker[w].job].provider_message_id = 0
<1> DEFINE d == worker[w].job
           number == recipients[d].attempt_count + 1
<1>1. d \in Delivery /\ recipients[d].status = "queued" /\ notification[d[1]].state = "approved"
  BY DEF ClaimJob, LockJob, Claimable, IInv, CandidateHasJob
<1>2. recipients[d].provider_message_id = 0 /\ recipients[d] \in Recipient
  BY <1>1, UnstartedRows DEF Unstarted
<1>3. /\ UNCHANGED <<notification, accepted>>
      /\ recipients'[d] = [recipients[d] EXCEPT !.status = "submitting", !.attempt_count = number]
      /\ \A q \in Delivery : q # d => recipients'[q] = recipients[q]
  BY <1>1 DEF ClaimJob, IInv, TypeOK, StoreTypeOK
<1> HIDE DEF d, number
<1>4. recipients'[d].status = "submitting" /\ recipients'[d].provider_message_id = 0
  BY <1>2, <1>3 DEF Recipient
<1> QED
  BY <1>1, <1>2, <1>3, <1>4 DEF d

LEMMA RecoverSays ==
  ASSUME IInv, NEW d \in Delivery, RecoverLease(d)
  PROVE  /\ UNCHANGED <<notification, accepted>>
         /\ \A q \in Delivery : q # d => recipients'[q] = recipients[q]
         /\ recipients[d].status = "submitting" /\ recipients[d].provider_message_id = 0
         /\ recipients'[d].status = "uncertain" /\ recipients'[d].provider_message_id = 0
<1>1. recipients[d].status = "submitting" /\ recipients[d].provider_message_id = 0
  BY DEF RecoverLease, IInv, MessageIdsAreTrue
<1>2. /\ recipients'[d] = [recipients[d] EXCEPT !.status = "uncertain"]
      /\ \A q \in Delivery : q # d => recipients'[q] = recipients[q]
  BY DEF RecoverLease, IInv, TypeOK, StoreTypeOK
<1> QED
  BY <1>1, <1>2, UnstartedRows DEF RecoverLease, Recipient

-----------------------------------------------------------------------------
(* Callbacks. *)

Known == {"accepted", "delivered", "read", "failed"}

\* A callback never lowers a status, the status shows it, and shows nothing else that
\* was not there before (repository.rs delivery_status).
LEMMA CallbackRises ==
  ASSUME NEW current \in Known, NEW incoming \in {"sent", "delivered", "read", "failed"}
  PROVE  /\ NextStatus(current, incoming) \in Known
         /\ Rank(NextStatus(current, incoming)) >= Rank(current)
         /\ Rank(NextStatus(current, incoming)) >= Rank(incoming)
         /\ NextStatus(current, incoming) \in {current, incoming}
  BY DEF Known, NextStatus, Rank

\* The ranks of what a recipient and a callback can say.
LEMMA Ranks ==
  /\ \A status : Rank(status) \in Int
  /\ \A status \in Known : Rank(status) >= 0
  /\ \A status \in Unstarted \cup {"submitting", "uncertain"} : Rank(status) = -1
  BY DEF Known, Unstarted, Rank

\* What an applied callback says of its recipient.
LEMMA ApplySays ==
  ASSUME IInv, NEW e \in Callback, NEW checked \in BOOLEAN, ProcessWebhook(e, checked)
  PROVE  /\ e.delivery \in Delivery /\ e.status \in {"sent", "delivered", "read", "failed"}
         /\ e \in pending /\ Matches(e) /\ notification' = notification
         /\ \A q \in Delivery : q # e.delivery => recipients'[q] = recipients[q]
         /\ recipients[e.delivery].status \in Known
         /\ recipients[e.delivery].provider_message_id # 0
         /\ recipients'[e.delivery].status
              = NextStatus(recipients[e.delivery].status, e.status)
         /\ recipients'[e.delivery].provider_message_id
              = recipients[e.delivery].provider_message_id
         /\ processed' \subseteq processed \cup {e}
<1> DEFINE d == e.delivery
           status == NextStatus(recipients[d].status, e.status)
<1>1. /\ d \in Delivery /\ recipients[d] \in Recipient
      /\ recipients[d].provider_message_id = e.attempt /\ e.attempt # 0
      /\ e.status \in {"sent", "delivered", "read", "failed"}
  BY WebhookAssumption DEF Callback, ProcessWebhook, Matches, Attempt, IInv, TypeOK, StoreTypeOK
<1>0. e \in pending /\ Matches(e)
  BY DEF ProcessWebhook
<1>2. recipients[d].status \in Known
  BY <1>1 DEF IInv, MessageIdsAreTrue, Known
<1>3. /\ recipients'[d] = [recipients[d] EXCEPT !.status = status]
      /\ \A q \in Delivery : q # d => recipients'[q] = recipients[q]
      /\ notification' = notification /\ processed' \subseteq processed \cup {e}
  BY <1>1 DEF ProcessWebhook, IInv, TypeOK, StoreTypeOK
<1> HIDE DEF status, d
<1>4. /\ recipients'[d].status = status
      /\ recipients'[d].provider_message_id = recipients[d].provider_message_id
  BY <1>1, <1>3 DEF Recipient
<1> QED
  BY <1>0, <1>1, <1>2, <1>3, <1>4 DEF d, status

\* Without a callback, a recipient says the same, or begins to be known.
Begins(d) ==
    \/ /\ recipients'[d].status = recipients[d].status
       /\ recipients'[d].provider_message_id = recipients[d].provider_message_id
    \/ /\ recipients[d].status \in Unstarted \cup {"submitting"}
       /\ recipients[d].provider_message_id = 0
       /\ recipients'[d].provider_message_id = 0 \/ recipients'[d].status = "accepted"

LEMMA RecipientsBegin ==
  ASSUME IInv, [Next]_vars, ~ApplyStep
  PROVE  /\ processed' \subseteq processed
         /\ \A d \in Delivery : Begins(d)
<1>1. processed' \subseteq processed
  BY DEF Next, vars, webhookVars, InvoiceStep, StaffStep, WorkerStep, FailureStep, ReceiveStep,
     ReceiveWebhook, CleanupStep, ExpireWebhooks
<1>2. ASSUME \A d \in Delivery : Moved(d) PROVE \A d \in Delivery : Begins(d)
  BY <1>2 DEF Moved, Begins
<1>3. ASSUME NEW w \in Worker, ClaimJob(w) PROVE \A d \in Delivery : Begins(d)
  BY <1>3, ClaimSays DEF Begins, Unstarted
<1>4. ASSUME NEW w \in Worker, Finish(w) PROVE \A d \in Delivery : Begins(d)
  BY <1>4, FinishSays DEF Begins
<1>5. ASSUME NEW r \in Delivery, RecoverLease(r) PROVE \A d \in Delivery : Begins(d)
  BY <1>5, RecoverSays DEF Begins
<1> QED
  BY <1>1, <1>2, <1>3, <1>4, <1>5, RecipientSteps

\* The step of CallbacksConverge.
StatusesRise ==
    \A d \in Delivery :
        LET before == recipients[d].status
            after == recipients'[d].status
        IN  /\ before = "uncertain" => after = "uncertain"
            /\ Rank(before) >= 0 => Rank(after) >= Rank(before)
            /\ after # before /\ recipients'[d].provider_message_id # 0 =>
                 \/ recipients[d].provider_message_id = 0 /\ after = "accepted"
                 \/ \E e \in pending : e.delivery = d /\ Matches(e) /\ after = e.status

LEMMA CallbacksKept ==
  ASSUME IInv, IInv', CallbacksMatch, [Next]_vars
  PROVE  CallbacksMatch' /\ StatusesRise
<1>1. CASE ~ApplyStep
  <2>1. processed' \subseteq processed /\ \A d \in Delivery : Begins(d)
    BY <1>1, RecipientsBegin
  <2>2. \A e \in processed : e.delivery \in Delivery
    BY DEF IInv, TypeOK, WebhookTypeOK, Callback
  <2>3. StatusesRise
    BY <2>1, Ranks DEF StatusesRise, Begins, Unstarted
  <2>4. \A e \in processed' : recipients'[e.delivery].provider_message_id # 0
    BY <2>1, <2>2 DEF CallbacksMatch, Begins
  <2>5. \A d \in Delivery : ShowsTheStrongest(d)'
    <3> SUFFICES ASSUME NEW d \in Delivery, recipients'[d].provider_message_id # 0
                 PROVE  /\ Rank(recipients'[d].status) >= 0
                        /\ \A e \in processed' : e.delivery = d =>
                             Rank(recipients'[d].status) >= Rank(e.status)
      BY DEF ShowsTheStrongest, Rank
    <3>1. CASE /\ recipients'[d].status = recipients[d].status
               /\ recipients'[d].provider_message_id = recipients[d].provider_message_id
      BY <2>1, <3>1 DEF CallbacksMatch, ShowsTheStrongest
    <3>2. CASE recipients[d].provider_message_id = 0 /\ recipients'[d].status = "accepted"
      BY <2>1, <3>2, Ranks DEF CallbacksMatch, Known
    <3> QED
      BY <2>1, <3>1, <3>2 DEF Begins
  <2> QED
    BY <2>3, <2>4, <2>5 DEF CallbacksMatch
<1>2. ASSUME NEW e \in Callback, NEW checked \in BOOLEAN, ProcessWebhook(e, checked)
      PROVE  CallbacksMatch' /\ StatusesRise
  <2> DEFINE r == e.delivery
  <2>1. /\ r \in Delivery /\ e.status \in {"sent", "delivered", "read", "failed"}
        /\ \A q \in Delivery : q # r => recipients'[q] = recipients[q]
        /\ recipients[r].status \in Known /\ recipients[r].provider_message_id # 0
        /\ recipients'[r].status = NextStatus(recipients[r].status, e.status)
        /\ recipients'[r].provider_message_id = recipients[r].provider_message_id
        /\ processed' \subseteq processed \cup {e} /\ e \in pending /\ Matches(e)
    BY <1>2, ApplySays
  <2>2. /\ recipients'[r].status \in Known
        /\ recipients'[r].status \in {recipients[r].status, e.status}
        /\ Rank(recipients'[r].status) >= Rank(recipients[r].status)
        /\ Rank(recipients'[r].status) >= Rank(e.status)
    BY <2>1, CallbackRises
  <2>3. \A x \in processed : x.delivery \in Delivery
    BY DEF IInv, TypeOK, WebhookTypeOK, Callback
  <2>4. StatusesRise
    <3> SUFFICES ASSUME NEW d \in Delivery
                 PROVE  LET before == recipients[d].status
                            after == recipients'[d].status
                        IN  /\ before = "uncertain" => after = "uncertain"
                            /\ Rank(before) >= 0 => Rank(after) >= Rank(before)
                            /\ after # before =>
                                 \E x \in pending :
                                    x.delivery = d /\ Matches(x) /\ after = x.status
      BY DEF StatusesRise
    <3>1. CASE d # r
      BY <2>1, <3>1, Ranks
    <3>2. CASE d = r
      BY <2>1, <2>2, <3>2 DEF Known
    <3> QED
      BY <3>1, <3>2
  <2>5. \A x \in processed' : recipients'[x.delivery].provider_message_id # 0
    BY <2>1, <2>3 DEF CallbacksMatch
  <2>6. \A d \in Delivery : ShowsTheStrongest(d)'
    <3> SUFFICES ASSUME NEW d \in Delivery, recipients'[d].provider_message_id # 0
                 PROVE  /\ Rank(recipients'[d].status) >= 0
                        /\ \A x \in processed' : x.delivery = d =>
                             Rank(recipients'[d].status) >= Rank(x.status)
      BY DEF ShowsTheStrongest, Rank
    <3>1. CASE d # r
      BY <2>1, <3>1 DEF CallbacksMatch, ShowsTheStrongest
    <3>2. CASE d = r
      <4>1. \A x \in processed : x.delivery = d => Rank(recipients[d].status) >= Rank(x.status)
        BY <2>1, <3>2 DEF CallbacksMatch, ShowsTheStrongest
      <4> QED
        BY <2>1, <2>2, <3>2, <4>1, Ranks
    <3> QED
      BY <3>1, <3>2
  <2> QED
    BY <2>4, <2>5, <2>6 DEF CallbacksMatch
<1> QED
  BY <1>1, <1>2 DEF ApplyStep

\* Callbacks converge in every order, with repeats and crashes between the update and
\* the mark: no status is weaker than what was applied, and none comes from anything but
\* the saving of the message id or a stored callback of that message (repository.rs
\* delivery_status, finish_attempt).
THEOREM Converge == Spec => CallbacksConverge
<1>1. Init => CallbacksMatch
  <2> SUFFICES ASSUME Init PROVE CallbacksMatch
    OBVIOUS
  <2>1. processed = {} /\ \A d \in Delivery : recipients[d].provider_message_id = 0
    BY DEF Init, WebhookInit, StoreInit, NoRecipient
  <2> QED
    BY <2>1 DEF CallbacksMatch, ShowsTheStrongest
<1>2. IInv /\ IInv' /\ CallbacksMatch /\ [Next]_vars => CallbacksMatch' /\ StatusesRise
  BY CallbacksKept
<1>3. StatusesRise =>
        [\A d \in Delivery :
            LET before == recipients[d].status
                after == recipients'[d].status
            IN  /\ before = "uncertain" => after = "uncertain"
                /\ Rank(before) >= 0 => Rank(after) >= Rank(before)
                /\ after # before /\ recipients'[d].provider_message_id # 0 =>
                     \/ recipients[d].provider_message_id = 0 /\ after = "accepted"
                     \/ \E e \in pending :
                          e.delivery = d /\ Matches(e) /\ after = e.status]_vars
  BY DEF StatusesRise
<1>4. CallbacksMatch => \A d \in Delivery : ShowsTheStrongest(d)
  BY DEF CallbacksMatch
<1> QED
  BY <1>1, <1>2, <1>3, <1>4, Invariant, PTL DEF Spec, CallbacksConverge

-----------------------------------------------------------------------------
(* The promise. *)

PhaseMap == [d \in Delivery |-> PhaseOf(notification[d[1]].state, recipients[d])]
SentMap == [d \in Delivery |-> Messages(d)]

\* What the rows mean.
LEMMA Phases ==
  ASSUME NEW state, NEW x
  PROVE  /\ state = "deleted" => PhaseOf(state, x) = "dropped"
         /\ state # "deleted" =>
              /\ x.status \in {"none", "draft", "queued"} => PhaseOf(state, x) = "open"
              /\ x.status = "submitting" => PhaseOf(state, x) = "submitted"
              /\ x.status = "uncertain" => PhaseOf(state, x) = "unknown"
              /\ x.status \in {"accepted", "delivered", "read"} => PhaseOf(state, x) = "sent"
              /\ x.status = "failed" /\ x.provider_message_id # 0 => PhaseOf(state, x) = "sent"
              /\ x.status = "failed" /\ x.provider_message_id = 0 => PhaseOf(state, x) = "dropped"
              /\ x.status = "cancelled" => PhaseOf(state, x) = "dropped"
  BY DEF PhaseOf

\* Of a row only its status and message id count, and whether it was deleted.
LEMMA SamePhase ==
  ASSUME NEW before, NEW after, NEW x, NEW y, before = "deleted" <=> after = "deleted",
         x.status = y.status, x.provider_message_id = y.provider_message_id
  PROVE  PhaseOf(before, x) = PhaseOf(after, y)
<1>1. CASE before = "deleted"
  BY <1>1, Phases
<1>2. CASE before # "deleted" /\ x.status \in {"none", "draft", "queued"}
  BY <1>2, Phases
<1>3. CASE before # "deleted" /\ x.status \notin {"none", "draft", "queued"}
  BY <1>3 DEF PhaseOf
<1> QED
  BY <1>1, <1>2, <1>3

\* A step that moves rows and sends nothing withdraws what it drops.
LEMMA MovesOfPromise ==
  ASSUME IInv, \A d \in Delivery : Moved(d), accepted' = accepted
  PROVE  \E D \in SUBSET Delivery : Promise!Withdraw(D)
<1> DEFINE D == {d \in Delivery : PhaseMap[d] = "open" /\ PhaseMap'[d] = "dropped"}
<1>1. ASSUME NEW d \in Delivery
      PROVE  PhaseMap'[d] = PhaseMap[d] \/ (PhaseMap[d] = "open" /\ PhaseMap'[d] = "dropped")
  <2>1. /\ PhaseMap[d] = PhaseOf(notification[d[1]].state, recipients[d])
        /\ PhaseMap'[d] = PhaseOf(notification'[d[1]].state, recipients'[d])
    BY DEF PhaseMap
  <2>2. Moved(d)
    OBVIOUS
  <2>3. CASE /\ recipients'[d].status = recipients[d].status
             /\ recipients'[d].provider_message_id = recipients[d].provider_message_id
             /\ notification'[d[1]].state = "deleted" <=> notification[d[1]].state = "deleted"
    BY <2>1, <2>3, SamePhase
  <2>4. CASE /\ recipients[d].status \in Unstarted /\ notification[d[1]].state # "deleted"
             /\ notification'[d[1]].state = "deleted"
    BY <2>1, <2>4, Phases DEF Unstarted
  <2>5. CASE /\ recipients[d].status \in Unstarted \ {"cancelled"}
             /\ notification[d[1]].state # "deleted" /\ notification'[d[1]].state # "deleted"
             /\ recipients'[d].status \in {"draft", "queued", "cancelled"}
    BY <2>1, <2>5, Phases DEF Unstarted
  <2> QED
    BY <2>2, <2>3, <2>4, <2>5 DEF Moved
<1>2. /\ \A d \in D : PhaseMap[d] = "open"
      /\ PhaseMap' = [d \in Delivery |-> IF d \in D THEN "dropped" ELSE PhaseMap[d]]
  <2>1. \A d \in Delivery : PhaseMap'[d] = IF d \in D THEN "dropped" ELSE PhaseMap[d]
    BY <1>1
  <2>2. PhaseMap' = [d \in Delivery |-> PhaseMap'[d]]
    BY DEF PhaseMap
  <2> HIDE DEF D
  <2>3. PhaseMap' = [d \in Delivery |-> IF d \in D THEN "dropped" ELSE PhaseMap[d]]
    BY <2>1, <2>2
  <2> QED
    BY <2>3 DEF D
<1>3. SentMap' = SentMap
  BY DEF SentMap, Messages
<1>4. D \in SUBSET Delivery
  OBVIOUS
<1> HIDE DEF D
<1>5. Promise!Withdraw(D)
  BY <1>2, <1>3 DEF Promise!Withdraw, PhaseMap, SentMap
<1> QED
  BY <1>4, <1>5

\* A step that writes one recipient and sends nothing moves that delivery.
LEMMA MoveOfPromise ==
  ASSUME NEW d \in Delivery, \A q \in Delivery : q # d => recipients'[q] = recipients[q],
         UNCHANGED <<notification, accepted>>
  PROVE  Promise!Move(d, PhaseOf(notification[d[1]].state, recipients[d]),
                         PhaseOf(notification[d[1]].state, recipients'[d]))
<1>1. PhaseMap' = [PhaseMap EXCEPT ![d] = PhaseOf(notification[d[1]].state, recipients'[d])]
  BY DEF PhaseMap
<1>2. SentMap' = SentMap
  BY DEF SentMap, Messages
<1>3. PhaseMap[d] = PhaseOf(notification[d[1]].state, recipients[d])
  BY DEF PhaseMap
<1> QED
  BY <1>1, <1>2, <1>3 DEF Promise!Move, PhaseMap, SentMap

\* A send has a row as long as it is with a worker.
LEMMA StartedRows ==
  ASSUME IInv, NEW d \in Delivery, recipients[d].status \in {"submitting", "uncertain"}
  PROVE  notification[d[1]].state # "deleted"
  BY UnstartedRows DEF IInv, RowsMatch, ApprovedRows

LEMMA ClaimSubmits ==
  ASSUME IInv, NEW w \in Worker, ClaimJob(w)
  PROVE  \E d \in Delivery : Promise!Submit(d)
<1> DEFINE d == worker[w].job
<1>1. Promise!Move(d, "open", "submitted") /\ d \in Delivery
  BY ClaimSays, MoveOfPromise, Phases
<1> QED
  BY <1>1 DEF Promise!Submit

LEMMA RecoverLoses ==
  ASSUME IInv, NEW d \in Delivery, RecoverLease(d)
  PROVE  Promise!Lose(d)
<1>1. Promise!Move(d, "submitted", "unknown")
  BY RecoverSays, StartedRows, MoveOfPromise, Phases
<1> QED
  BY <1>1 DEF Promise!Lose

\* The record of a result confirms, loses, reopens or gives up what was submitted, or
\* comes too late to change anything.
LEMMA FinishTells ==
  ASSUME IInv, NEW w \in Worker, Finish(w)
  PROVE  \/ UNCHANGED <<PhaseMap, SentMap>>
         \/ \E d \in Delivery : \/ Promise!Confirm(d) \/ Promise!Lose(d)
                                \/ Promise!Reopen(d) \/ Promise!GiveUp(d)
<1> DEFINE d == worker[w].job
           phase == PhaseOf(notification[d[1]].state, recipients'[d])
<1>1. /\ d \in Delivery /\ UNCHANGED <<notification, accepted>>
      /\ \A q \in Delivery : q # d => recipients'[q] = recipients[q]
      /\ SentMap[d] = Messages(d)
  BY FinishSays DEF SentMap
<1>2. CASE recipients'[d] = recipients[d]
  BY <1>1, <1>2 DEF PhaseMap, SentMap, Messages
<1>3. CASE recipients[d].status = "submitting"
  <2>1. notification[d[1]].state # "deleted"
    BY <1>1, <1>3, StartedRows
  <2>2. Promise!Move(d, "submitted", phase)
    BY <1>1, <1>3, <2>1, MoveOfPromise, Phases
  <2>3. CASE recipients'[d].status = "accepted" /\ Messages(d) # {}
    <3>1. phase = "sent"
      BY <2>1, <2>3, Phases
    <3>2. Promise!Confirm(d)
      BY <1>1, <2>2, <2>3, <3>1 DEF Promise!Confirm, SentMap
    <3> QED
      BY <1>1, <3>2
  <2>4. CASE recipients'[d].status = "uncertain"
    <3>1. phase = "unknown"
      BY <2>1, <2>4, Phases
    <3>2. Promise!Lose(d)
      BY <2>2, <3>1 DEF Promise!Lose
    <3> QED
      BY <1>1, <3>2
  <2>5. CASE /\ recipients'[d].status \in {"queued", "failed", "cancelled"}
             /\ recipients'[d].provider_message_id = 0 /\ Messages(d) = {}
    <3>1. phase \in {"open", "dropped"}
      BY <2>1, <2>5, Phases
    <3>2. Promise!Reopen(d) \/ Promise!GiveUp(d)
      BY <1>1, <2>2, <2>5, <3>1 DEF Promise!Reopen, Promise!GiveUp, SentMap
    <3> QED
      BY <1>1, <3>2
  <2>6. CASE recipients'[d] = recipients[d]
    BY <1>2, <2>6
  <2> QED
    BY <2>3, <2>4, <2>5, <2>6, FinishSays
<1> QED
  BY <1>2, <1>3, FinishSays

\* A callback tells of a message that was sent, also when it says that it failed.
LEMMA ApplyStutters ==
  ASSUME IInv, ApplyStep
  PROVE  UNCHANGED <<PhaseMap, SentMap>>
<1>1. PICK e \in Callback, checked \in BOOLEAN : ProcessWebhook(e, checked)
  BY DEF ApplyStep
<1> DEFINE d == e.delivery
           state == notification[d[1]].state
<1>2. /\ d \in Delivery /\ e.status \in {"sent", "delivered", "read", "failed"}
      /\ notification' = notification
      /\ \A q \in Delivery : q # d => recipients'[q] = recipients[q]
      /\ recipients[d].status \in Known /\ recipients[d].provider_message_id # 0
      /\ recipients'[d].status = NextStatus(recipients[d].status, e.status)
      /\ recipients'[d].provider_message_id = recipients[d].provider_message_id
  BY <1>1, ApplySays
<1>3. accepted' = accepted
  BY DEF ApplyStep, workerVars
<1>4. recipients'[d].status \in Known
  BY <1>2, CallbackRises
<1>5. PhaseOf(state, recipients'[d]) = PhaseOf(state, recipients[d])
  <2>1. CASE state = "deleted"
    BY <2>1, Phases
  <2>2. CASE state # "deleted"
    BY <1>2, <1>4, <2>2, Phases DEF Known
  <2> QED
    BY <2>1, <2>2
<1> HIDE DEF d
<1> QED
  BY <1>2, <1>3, <1>5 DEF PhaseMap, SentMap, Messages

\* The provider takes at most one message, while the delivery is submitted or its
\* outcome is unknown.
LEMMA PostTakes ==
  ASSUME IInv, NEW w \in Worker, PostAccepted(w) \/ \E took \in BOOLEAN : PostUnknown(w, took)
  PROVE  UNCHANGED <<PhaseMap, SentMap>> \/ \E d \in Delivery : Promise!Take(d)
<1> DEFINE d == worker[w].job
           a == worker[w].attempt
<1>1. /\ worker[w].pc = "post" /\ UNCHANGED <<notification, recipients>>
      /\ accepted' = accepted \/ accepted' = accepted \cup {<<d, a>>}
  BY DEF PostAccepted, PostUnknown, Message, storeVars
<1>2. CASE accepted' = accepted
  BY <1>1, <1>2 DEF PhaseMap, SentMap, Messages
<1>3. CASE accepted' = accepted \cup {<<d, a>>}
  <2>1. /\ d \in Delivery /\ a \in Attempt
        /\ recipients[d].status \in {"submitting", "uncertain"}
    BY <1>1, HeldRows DEF Holding
  <2>2. Messages(d) = {}
    BY <1>1, <2>1 DEF IInv, AcceptedIsLast, Holding, Messages
  <2>3. PhaseMap[d] \in {"submitted", "unknown"} /\ SentMap[d] = {} /\ PhaseMap' = PhaseMap
    BY <1>1, <2>1, <2>2, StartedRows, Phases DEF PhaseMap, SentMap
  <2> HIDE DEF d, a
  <2>4. SentMap' = [SentMap EXCEPT ![d] = {a}]
    BY <1>3, <2>1, <2>2 DEF SentMap, Messages
  <2>5. Promise!Take(d)
    BY <2>1, <2>3, <2>4 DEF Promise!Take, PhaseMap, SentMap
  <2> QED
    BY <2>1, <2>5
<1> QED
  BY <1>1, <1>2, <1>3

\* Only these two steps reach the provider.
LEMMA OnlyPostsSend ==
  ASSUME [Next]_vars
  PROVE  \/ accepted' = accepted
         \/ \E w \in Worker : PostAccepted(w) \/ \E took \in BOOLEAN : PostUnknown(w, took)
  BY DEF Next, vars, workerVars, InvoiceStep, StaffStep, WorkerStep, Tick, FailureStep, Crash,
     RecoverLease, ReceiveStep, ApplyStep, CleanupStep, NextJob, ClaimJob, LoseJob,
     PreflightCurrent, PreflightStale, PreflightError, UploadFails, RequestStarted,
     PostRejected, Finish

\* Every step is a step of the promise or a stutter.
LEMMA PromiseStep ==
  ASSUME IInv, [Next]_vars
  PROVE  [Promise!Next]_<<PhaseMap, SentMap>>
<1>1. CASE \E w \in Worker : PostAccepted(w) \/ \E took \in BOOLEAN : PostUnknown(w, took)
  BY <1>1, PostTakes DEF Promise!Next
<1>2. CASE accepted' = accepted /\ \A d \in Delivery : Moved(d)
  BY <1>2, MovesOfPromise DEF Promise!Next
<1>3. ASSUME NEW w \in Worker, ClaimJob(w) PROVE [Promise!Next]_<<PhaseMap, SentMap>>
  BY <1>3, ClaimSubmits DEF Promise!Next
<1>4. ASSUME NEW w \in Worker, Finish(w) PROVE [Promise!Next]_<<PhaseMap, SentMap>>
  BY <1>4, FinishTells DEF Promise!Next
<1>5. ASSUME NEW d \in Delivery, RecoverLease(d) PROVE [Promise!Next]_<<PhaseMap, SentMap>>
  BY <1>5, RecoverLoses DEF Promise!Next
<1>6. CASE ApplyStep
  BY <1>6, ApplyStutters
<1> QED
  BY <1>1, <1>2, <1>3, <1>4, <1>5, <1>6, RecipientSteps, OnlyPostsSend

\* Notifications keep the promise: at most one message per delivery, none after it was
\* dropped, no way back from an unknown or a sent message (worker.rs tick, repository.rs
\* finish_attempt, recover_leases, cancel_unstarted, delivery_status).
THEOREM KeepsPromise == Spec => PromiseKept
<1>1. Init => Promise!Init
  <2> SUFFICES ASSUME Init PROVE Promise!Init
    OBVIOUS
  <2>1. \A d \in Delivery : notification[d[1]].state = "absent" /\ recipients[d].status = "none"
    BY DEF Init, StoreInit, AbsentRow, NoRecipient, Delivery
  <2>2. PhaseMap = [d \in Delivery |-> "open"]
    BY <2>1, Phases DEF PhaseMap
  <2>3. SentMap = [d \in Delivery |-> {}]
    BY DEF Init, WorkerInit, SentMap, Messages
  <2> QED
    BY <2>2, <2>3 DEF Promise!Init, PhaseMap, SentMap
<1>2. IInv /\ [Next]_vars => [Promise!Next]_<<PhaseMap, SentMap>>
  BY PromiseStep
<1> QED
  BY <1>1, <1>2, Invariant, PTL DEF Spec, PromiseKept, Promise!Spec, PhaseMap, SentMap

=============================================================================
