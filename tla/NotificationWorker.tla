------------------------- MODULE NotificationWorker -------------------------
(***************************************************************************)
(* The delivery workers: one loop per server process.  A pass picks a due  *)
(* send without a lock, claims it in a transaction, re-reads the invoice   *)
(* outside it, uploads the document, posts the message to the provider and *)
(* records the result in another transaction.  The process can die between *)
(* any two of these; a lease returns the send it held.                     *)
(*                                                                         *)
(* The provider (WhatsApp's Graph API) is external: it may accept a        *)
(* message and lose the reply.  A reply that carries an "error" object     *)
(* means the message was not accepted.                                     *)
(***************************************************************************)
EXTENDS NotificationStore

CONSTANTS
    Worker,         \* delivery loops
    NoDelivery      \* a worker that holds no send

ASSUME NoDeliveryAssumption == NoDelivery \notin Delivery

VARIABLES
    worker,         \* the local state of each loop
    accepted        \* messages the provider accepted: <<delivery, attempt>>

workerVars == <<worker, accepted>>

\* What finish() is about to record; message_id = 0 is None.
Result == [status: {"none", "accepted", "failed", "uncertain", "cancelled"},
           message_id: 0..MaxAttempts, retry: BOOLEAN]
NoResult == [status |-> "none", message_id |-> 0, retry |-> FALSE]
Failure(status, retry) == [status |-> status, message_id |-> 0, retry |-> retry]
MessageId(id) == [status |-> "accepted", message_id |-> id, retry |-> FALSE]

IdleWorker == [pc |-> "idle", job |-> NoDelivery, attempt |-> 0,
               claimed |-> 0, result |-> NoResult]

\* A worker between its claim and the record of the result.
Holding(w) == worker[w].pc \in {"preflight", "send", "post", "finish"}

\* claimed remembers the invoice's revision at the claim; nothing reads it.
WorkerState == [pc: {"idle", "candidate", "preflight", "send", "post", "finish"},
                job: Delivery \cup {NoDelivery}, attempt: 0..MaxAttempts,
                claimed: 0..MaxRevision, result: Result]

WorkerTypeOK ==
    /\ worker \in [Worker -> WorkerState]
    /\ accepted \subseteq Delivery \X Attempt

WorkerInit ==
    /\ worker = [w \in Worker |-> IdleWorker]
    /\ accepted = {}

\* Queued, under an approved notification, and due.
Claimable(d) ==
    /\ recipients[d].status = "queued"
    /\ notification[d[1]].state = "approved"

\* Mutant: the claim trusts the unlocked read of the candidate.
LockJobUnchecked(d) == TRUE

\* The same conditions under the row locks; a locked row is skipped.
LockJob(d) == Claimable(d)

\* The unlocked read of a candidate.
NextJob(w, d) ==
    /\ worker[w].pc = "idle"
    /\ Claimable(d)
    /\ worker' = [worker EXCEPT ![w].pc = "candidate", ![w].job = d]
    /\ UNCHANGED <<storeVars, accepted>>

\* Mutant: a retry is claimed as the first attempt again.
ClaimFirstAttempt(w) ==
    LET d == worker[w].job IN
    /\ worker[w].pc = "candidate"
    /\ LockJob(d)
    /\ recipients' = [recipients EXCEPT ![d].status = "submitting",
                                        ![d].attempt_count = 1]
    /\ attempts' = [attempts EXCEPT ![d][1] = "preparing"]
    /\ worker' = [worker EXCEPT ![w].pc = "preflight", ![w].attempt = 1,
                                ![w].claimed = invoice.revision]
    /\ UNCHANGED <<invoice, notification, accepted>>

\* The claim: the candidate is checked again under the locks, and the attempt
\* is inserted before anything leaves the process.
ClaimJob(w) ==
    LET d == worker[w].job
        number == recipients[d].attempt_count + 1
    IN
    /\ worker[w].pc = "candidate"
    /\ LockJob(d)
    /\ recipients' = [recipients EXCEPT ![d].status = "submitting",
                                        ![d].attempt_count = number]
    /\ attempts' = [attempts EXCEPT ![d][number] = "preparing"]
    /\ worker' = [worker EXCEPT ![w].pc = "preflight", ![w].attempt = number,
                                ![w].claimed = invoice.revision]
    /\ UNCHANGED <<invoice, notification, accepted>>

\* Another worker, or a cancellation, was faster.
LoseJob(w) ==
    /\ worker[w].pc = "candidate"
    /\ ~LockJob(worker[w].job)
    /\ worker' = [worker EXCEPT ![w] = IdleWorker]
    /\ UNCHANGED <<storeVars, accepted>>

(***************************************************************************)
(* Preflight: the source is recomputed and compared with what was approved.*)
(***************************************************************************)
\* Mutant: preflight asks only whether the invoice can still be rendered.
SourceStillAvailable(n) == SourceAvailable(notification[n].kind)

SourceUnchanged(n) ==
    /\ SourceAvailable(notification[n].kind)
    /\ SourceHash(notification[n].kind) = notification[n].source_hash

PreflightCurrent(w) ==
    /\ worker[w].pc = "preflight"
    /\ SourceUnchanged(worker[w].job[1])
    /\ worker' = [worker EXCEPT ![w].pc = "send"]
    /\ UNCHANGED <<storeVars, accepted>>

\* The notification and everything it has not started become void.
PreflightStale(w) ==
    /\ worker[w].pc = "preflight"
    /\ ~SourceUnchanged(worker[w].job[1])
    /\ MarkStale(worker[w].job[1])
    /\ worker' = [worker EXCEPT ![w].pc = "finish",
                                ![w].result = Failure("cancelled", FALSE)]
    /\ UNCHANGED <<invoice, attempts, accepted>>

\* The invoice could not be read or rendered.
PreflightError(w) ==
    /\ worker[w].pc = "preflight"
    /\ worker' = [worker EXCEPT ![w].pc = "finish",
                                ![w].result = Failure("failed", TRUE)]
    /\ UNCHANGED <<storeVars, accepted>>

(***************************************************************************)
(* send: upload, then the attempt says request_started, then the message.  *)
(***************************************************************************)
UploadFails(w, retry) ==
    /\ worker[w].pc = "send"
    /\ worker' = [worker EXCEPT ![w].pc = "finish",
                                ![w].result = Failure("failed", retry)]
    /\ UNCHANGED <<storeVars, accepted>>

\* Mutant: the message is posted without the log entry before it.
RequestNotLogged(w) ==
    /\ worker[w].pc = "send"
    /\ worker' = [worker EXCEPT ![w].pc = "post"]
    /\ UNCHANGED <<storeVars, accepted>>

RequestStarted(w) ==
    /\ worker[w].pc = "send"
    /\ attempts' = [attempts EXCEPT ![worker[w].job][worker[w].attempt] = "request_started"]
    /\ worker' = [worker EXCEPT ![w].pc = "post"]
    /\ UNCHANGED <<invoice, notification, recipients, accepted>>

Message(w) == <<worker[w].job, worker[w].attempt>>

PostAccepted(w) ==
    /\ worker[w].pc = "post"
    /\ accepted' = accepted \cup {Message(w)}
    /\ worker' = [worker EXCEPT ![w].pc = "finish",
                                ![w].result = MessageId(worker[w].attempt)]
    /\ UNCHANGED storeVars

\* An error object: 429 and 5xx are retried, the rest is final.
PostRejected(w, retry) ==
    /\ worker[w].pc = "post"
    /\ worker' = [worker EXCEPT ![w].pc = "finish",
                                ![w].result = Failure("failed", retry)]
    /\ UNCHANGED <<storeVars, accepted>>

\* Mutant: an unknown result is tried again.
UnknownReplyRetried == Failure("uncertain", TRUE)

\* Timeout, unreadable body, unknown error or no message id.
UnknownReply == Failure("uncertain", FALSE)

PostUnknown(w, took) ==
    /\ worker[w].pc = "post"
    /\ accepted' = IF took THEN accepted \cup {Message(w)} ELSE accepted
    /\ worker' = [worker EXCEPT ![w].pc = "finish", ![w].result = UnknownReply]
    /\ UNCHANGED storeVars

(***************************************************************************)
(* finish: only a send that is still submitting takes the result.          *)
(***************************************************************************)
Retries(w) == worker[w].result.retry /\ worker[w].attempt < MaxAttempts

\* Mutant: the result is written without asking for status 'submitting'.
FinishOverwrites(row, result, retry) ==
    [row EXCEPT !.status = IF retry THEN "queued" ELSE result.status,
                !.provider_message_id =
                    IF result.message_id # 0 THEN result.message_id ELSE @]

FinishedRecipient(row, result, retry) ==
    IF row.status = "submitting"
    THEN [row EXCEPT !.status = IF retry THEN "queued" ELSE result.status,
                     !.provider_message_id =
                         IF result.message_id # 0 THEN result.message_id ELSE @]
    ELSE row

Finish(w) ==
    LET d == worker[w].job
        result == worker[w].result
    IN
    /\ worker[w].pc = "finish"
    /\ recipients' = [recipients EXCEPT ![d] = FinishedRecipient(@, result, Retries(w))]
    /\ attempts' = [attempts EXCEPT ![d][worker[w].attempt] =
                      IF Retries(w) THEN "retry_scheduled" ELSE result.status]
    /\ worker' = [worker EXCEPT ![w] = IdleWorker]
    /\ UNCHANGED <<invoice, notification, accepted>>

(***************************************************************************)
(* Failure and its recovery.                                               *)
(***************************************************************************)

\* The process dies, or a statement after the claim fails: tick() returns and
\* what the worker knew is lost.
Crash(w) ==
    /\ Holding(w)
    /\ worker' = [worker EXCEPT ![w] = IdleWorker]
    /\ UNCHANGED <<storeVars, accepted>>

\* Mutant: an expired submission goes back to the queue.
RequeueExpired(d) ==
    /\ recipients[d].status = "submitting"
    /\ recipients' = [recipients EXCEPT ![d].status = "queued"]
    /\ UNCHANGED <<invoice, notification, attempts, worker, accepted>>

\* Mutant: only a claim whose request has started is recovered.
RecoverStartedOnly(d) ==
    /\ recipients[d].status = "submitting"
    /\ recipients[d].attempt_count > 0
    /\ attempts[d][recipients[d].attempt_count] = "request_started"
    /\ recipients' = [recipients EXCEPT ![d].status = "uncertain"]
    /\ UNCHANGED <<invoice, notification, attempts, worker, accepted>>

\* The lease ran out, whether the worker that held it is dead or only slow.
RecoverLease(d) ==
    /\ recipients[d].status = "submitting"
    /\ recipients' = [recipients EXCEPT ![d].status = "uncertain"]
    /\ UNCHANGED <<invoice, notification, attempts, worker, accepted>>

\* One iteration of the loop, without the failure of the process.
Tick(w) ==
    \/ \E d \in Delivery : NextJob(w, d)
    \/ ClaimJob(w)
    \/ LoseJob(w)
    \/ PreflightCurrent(w)
    \/ PreflightStale(w)
    \/ PreflightError(w)
    \/ \E retry \in BOOLEAN : UploadFails(w, retry)
    \/ RequestStarted(w)
    \/ PostAccepted(w)
    \/ \E retry \in BOOLEAN : PostRejected(w, retry)
    \/ \E took \in BOOLEAN : PostUnknown(w, took)
    \/ Finish(w)

=============================================================================
