----------------------- MODULE NotificationsInductive -----------------------
(***************************************************************************)
(* The invariant that makes at-most-once delivery inductive.  It relates   *)
(* the stored rows to what the workers hold in memory and to what the      *)
(* provider has already accepted, which no table records by itself.        *)
(***************************************************************************)
EXTENDS Notifications

\* Ready generations are opened by revisions.
GenerationsTrail == invoice.generation < invoice.revision

\* A Send request carries the time its transaction began.
SendsAreTimed ==
    \A s \in Staff : staff[s].pc = "approving" /\ staff[s].send => staff[s].now # 0

ApprovedRows ==
    \A n \in Notification :
        Approved(n) => notification[n].state \in {"approved", "stale", "cancelled"}

\* The recipients of a notification that is not approved have not started.
RowsMatch ==
    \A d \in Delivery :
        /\ notification[d[1]].state = "draft" => recipients[d].status = "draft"
        /\ ~HasRow(d[1]) => recipients[d].status = "none"
        /\ recipients[d].status \notin {"none", "draft", "cancelled"}
             => Approved(d[1]) /\ recipients[d].selected

AttemptsLeft ==
    \A d \in Delivery :
        /\ recipients[d].status \in {"none", "draft"} => recipients[d].attempt_count = 0
        /\ recipients[d].status = "queued" => recipients[d].attempt_count < MaxAttempts

CandidateHasJob ==
    \A w \in Worker : worker[w].pc # "idle" => worker[w].job \in Delivery

\* A worker past its claim owns the last attempt of a recipient that only a
\* lease recovery may have touched since.
HolderOwnsAttempt ==
    \A w \in Worker : Holding(w) =>
        LET row == recipients[worker[w].job] IN
        /\ worker[w].attempt = row.attempt_count
        /\ worker[w].attempt # 0
        /\ row.status \in {"submitting", "uncertain"}
        /\ row.provider_message_id = 0

OneHolder ==
    \A w1, w2 \in Worker :
        Holding(w1) /\ Holding(w2) /\ worker[w1].job = worker[w2].job => w1 = w2

\* The results a worker can be about to record.
ResultOf(w) ==
    {MessageId(worker[w].attempt), UnknownReply, Failure("cancelled", FALSE)}
    \cup {Failure("failed", retry) : retry \in BOOLEAN}

ResultsAreTrue ==
    \A w \in Worker :
        /\ worker[w].pc = "finish" => worker[w].result \in ResultOf(w)
        /\ worker[w].pc = "finish" /\ worker[w].result.message_id # 0
             => Message(w) \in accepted
        /\ worker[w].pc = "post"
             => attempts[worker[w].job][worker[w].attempt] = "request_started"

\* A message the provider accepted belongs to the last attempt, and a worker
\* that still holds it is about to say so, or that it does not know.
AcceptedIsLast ==
    \A d \in Delivery, a \in Attempt : <<d, a>> \in accepted =>
        /\ a = recipients[d].attempt_count
        /\ recipients[d].status \in {"submitting", "uncertain", "accepted",
                                     "delivered", "read", "failed"}
        /\ recipients[d].status = "failed" => recipients[d].provider_message_id = a
        /\ \A w \in Worker : Holding(w) /\ worker[w].job = d =>
             worker[w].pc = "finish" /\ worker[w].result \in {MessageId(a), UnknownReply}

MessageIdsAreTrue ==
    \A d \in Delivery : recipients[d].provider_message_id # 0 =>
        /\ <<d, recipients[d].provider_message_id>> \in accepted
        /\ recipients[d].status \in {"accepted", "delivered", "read", "failed"}

\* Holds in every reachable state and is kept by every step.
IInv ==
    /\ TypeOK
    /\ GenerationsTrail /\ SendsAreTimed /\ ApprovedRows /\ RowsMatch /\ AttemptsLeft
    /\ CandidateHasJob /\ HolderOwnsAttempt /\ OneHolder /\ ResultsAreTrue
    /\ AcceptedIsLast /\ MessageIdsAreTrue /\ AttemptLogIsAhead

-----------------------------------------------------------------------------
(***************************************************************************)
(* What previews, requests and claims were read from.  The rows say which  *)
(* revision a preview shows, but not that nothing happened since; a        *)
(* request remembers what it read before the lock.                         *)
(***************************************************************************)

\* Nothing was read from a revision that is still to come.
RevisionsPass ==
    /\ \A n \in Notification : notification[n].source_hash.revision <= invoice.revision
    /\ \A s \in Staff :
         /\ staff[s].pc = "rendering" => staff[s].source_hash.revision <= invoice.revision
         /\ staff[s].pc = "approving" => staff[s].revision <= invoice.revision

\* The event of a pickup preview names the readiness generation of its revision.
GenerationsAreRead ==
    LET current(x) == x.source_hash.revision = invoice.revision /\ x.event_key[1] = "ready"
                        => x.event_key[2] = invoice.generation
    IN /\ \A n \in Notification : HasRow(n) => current(notification[n])
       /\ \A s \in Staff : staff[s].pc = "rendering" => current(staff[s])

\* A request to approve has seen the preview on the revision that it remembers.
RequestsHaveRead ==
    \A s \in Staff : staff[s].pc = "approving" =>
        LET row == notification[staff[s].notification] IN
        /\ row.state # "absent"
        /\ HasRow(staff[s].notification) =>
             /\ row.source_hash.revision = staff[s].revision
             /\ IsPickup(row.kind) /\ staff[s].revision = invoice.revision => invoice.ready
             /\ staff[s].send /\ row.resend_of # None
                  => notification[row.resend_of].approved_at < staff[s].now

\* An event that was approved has no draft any more.
ApprovedEventsAreClosed ==
    \A n, m \in Notification :
        notification[n].state = "draft" /\ Approved(m)
          => notification[n].event_key # notification[m].event_key

ApprovalsArePast ==
    /\ \A n \in Notification : notification[n].approved_at <= clock
    /\ \A s \in Staff : staff[s].pc = "approving" => staff[s].now <= clock

\* A resend is about an approved notification of its sort, and approved after it.
ResendsFollow ==
    \A n \in Notification : notification[n].resend_of # None =>
        LET original == notification[n].resend_of IN
        /\ Approved(original) /\ notification[n].state # "deleted"
        /\ IsPickup(notification[n].kind) = IsPickup(notification[original].kind)
        /\ Approved(n) => notification[original].approved_at < notification[n].approved_at

HistoryInv ==
    /\ RevisionsPass /\ GenerationsAreRead /\ RequestsHaveRead
    /\ ApprovedEventsAreClosed /\ ApprovalsArePast /\ ResendsFollow
    /\ OneNotificationPerEvent /\ ResentAtMostOnce

\* A claim remembers a revision that has come, and what was rendered after it is
\* at least as new.
ClaimsPass ==
    /\ \A w \in Worker : Holding(w) => worker[w].claimed <= invoice.revision
    /\ NothingStaleIsSent

\* Callbacks are applied to recipients with a message id, and never take it away.
CallbacksMatch ==
    /\ \A e \in processed : recipients[e.delivery].provider_message_id # 0
    /\ \A d \in Delivery : ShowsTheStrongest(d)

=============================================================================
