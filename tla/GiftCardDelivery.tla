-------------------------- MODULE GiftCardDelivery --------------------------
(***************************************************************************)
(* Sending gift cards by WhatsApp: an approval queues a delivery, workers  *)
(* check that the card still is what was approved, claim the delivery,     *)
(* send and record (gift_cards/delivery.rs).                               *)
(*                                                                         *)
(* Approval, the check with the claim, and the record each are one         *)
(* transaction that holds the card or the delivery, so each is one step.   *)
(* A content stands for everything the preview hash covers.  Delays are    *)
(* any delay; the integrity check of the stored image is left out.         *)
(***************************************************************************)
EXTENDS Integers, FiniteSets

CONSTANTS
    Delivery,       \* request ids of approvals
    Card,
    Content,        \* what a card and its preview can look like
    Sendable,       \* contents of active cards with a balance, not expired
    Invalid,        \* contents with a bad number or an unresolved template
    Unprintable,    \* contents whose image cannot be drawn
    WebhookStatus,  \* of {"sent", "delivered", "read", "failed"}
    Worker,         \* one loop per server process
    MaxAttempts,    \* NOTIFICATION_MAX_ATTEMPTS
    None

VARIABLES
    card,       \* what each card looks like now
    row,        \* gift_card_deliveries
    worker,     \* what each loop knows
    accepted    \* the messages the provider took: <<delivery, attempt>>

vars == <<card, row, worker, accepted>>

Attempt == 1..MaxAttempts

Row == [card: Card, content: Content, attempt_count: 0..MaxAttempts,
        provider_message_id: 0..MaxAttempts,
        state: {"queued", "sending", "accepted", "delivered", "read", "failed",
                "uncertain", "cancelled"}]

ASSUME DeliveryAssumption ==
    /\ Sendable \cup Invalid \cup Unprintable \subseteq Content
    /\ Sendable \cap Invalid = {} /\ Unprintable \cap (Sendable \cup Invalid) = {}
    /\ WebhookStatus \subseteq {"sent", "delivered", "read", "failed"}
    /\ MaxAttempts \in Nat \ {0} /\ None \notin Delivery \cup Row

\* What a send ended with; message_id is the attempt that got one, or 0.
Result(state, retry, id) == [state |-> state, retry |-> retry, message_id |-> id]
NoResult == Result("none", FALSE, 0)
Idle == [pc |-> "idle", job |-> None, attempt |-> 0, result |-> NoResult]

SendResult == [state: {"none", "accepted", "uncertain", "failed"},
               retry: BOOLEAN, message_id: 0..MaxAttempts]

WorkerState == [pc: {"idle", "found", "upload", "post", "finish"},
                job: Delivery \cup {None}, attempt: 0..MaxAttempts,
                result: SendResult]

In(r, states) == row[r] # None /\ row[r].state \in states

TypeOK ==
    /\ card \in [Card -> Content]
    /\ row \in [Delivery -> Row \cup {None}]
    /\ accepted \subseteq Delivery \X Attempt
    /\ worker \in [Worker -> WorkerState]
    /\ \A w \in Worker : worker[w].pc = "idle" <=> worker[w].job = None

Init ==
    /\ card \in [Card -> Content]
    /\ row = [r \in Delivery |-> None]
    /\ worker = [w \in Worker |-> Idle]
    /\ accepted = {}

-----------------------------------------------------------------------------
(* Cards change; staff approve. *)

ChangeCard(c, content) ==
    /\ card' = [card EXCEPT ![c] = content]
    /\ UNCHANGED <<row, worker, accepted>>

\* Mutant: a delivery that is being sent is not counted.
Queued(c) == \E r \in Delivery : In(r, {"queued"}) /\ row[r].card = c

Pending(c) == \E r \in Delivery : In(r, {"queued", "sending"}) /\ row[r].card = c

\* The preview was of the card as it is now.  A repeated request finds its row.
Approve(r, c) ==
    /\ row[r] = None
    /\ card[c] \in Sendable /\ ~Pending(c)
    /\ row' = [row EXCEPT ![r] = [card |-> c, content |-> card[c], attempt_count |-> 0,
                                  provider_message_id |-> 0, state |-> "queued"]]
    /\ UNCHANGED <<card, worker, accepted>>

-----------------------------------------------------------------------------
(* The worker. *)

\* Read without a lock.
Candidate(w, r) ==
    /\ worker[w].pc = "idle" /\ In(r, {"queued"})
    /\ worker' = [worker EXCEPT ![w] = [Idle EXCEPT !.pc = "found", !.job = r]]
    /\ UNCHANGED <<card, row, accepted>>

Current(r) == card[row[r].card]

Drop(w, state) ==
    /\ worker[w].pc = "found"
    /\ In(worker[w].job, {"queued"})
    /\ row' = [row EXCEPT ![worker[w].job].state = state]
    /\ worker' = [worker EXCEPT ![w] = Idle]
    /\ UNCHANGED <<card, accepted>>

\* The preview cannot be made for a reason that staff can mend.
FailInvalid(w) == Drop(w, "failed") /\ Current(worker[w].job) \in Invalid

\* The card may no longer be sent, or is not what was approved.
CancelStale(w) ==
    /\ Drop(w, "cancelled")
    /\ LET now == Current(worker[w].job) IN
         /\ now \notin Invalid \cup Unprintable
         /\ now \notin Sendable \/ now # row[worker[w].job].content

\* Any other error ends the tick and leaves the delivery as it is; so does a
\* delivery that another loop has taken.
Skip(w) ==
    /\ worker[w].pc = "found"
    /\ In(worker[w].job, {"queued"}) => Current(worker[w].job) \in Unprintable
    /\ worker' = [worker EXCEPT ![w] = Idle]
    /\ UNCHANGED <<card, row, accepted>>

\* Mutant: the delivery is not looked at again under its lock.
ClaimUnchecked(w) ==
    LET r == worker[w].job IN
    /\ worker[w].pc = "found"
    /\ row[r].attempt_count < MaxAttempts
    /\ row' = [row EXCEPT ![r].state = "sending", ![r].attempt_count = @ + 1]
    /\ worker' = [worker EXCEPT ![w].pc = "upload", ![w].attempt = row[r].attempt_count + 1]
    /\ UNCHANGED <<card, accepted>>

Claim(w) ==
    LET r == worker[w].job IN
    /\ worker[w].pc = "found" /\ In(r, {"queued"})
    /\ Current(r) = row[r].content /\ Current(r) \in Sendable
    /\ row' = [row EXCEPT ![r].state = "sending", ![r].attempt_count = @ + 1]
    /\ worker' = [worker EXCEPT ![w].pc = "upload", ![w].attempt = row[r].attempt_count + 1]
    /\ UNCHANGED <<card, accepted>>

\* The image is uploaded first; without it no message leaves.
Upload(w) ==
    /\ worker[w].pc = "upload"
    /\ \/ worker' = [worker EXCEPT ![w].pc = "post"]
       \/ \E retry \in BOOLEAN : worker' = [worker EXCEPT ![w].pc = "finish",
                                                ![w].result = Result("failed", retry, 0)]
    /\ UNCHANGED <<card, row, accepted>>

Answered(w, result) == worker' = [worker EXCEPT ![w].pc = "finish", ![w].result = result]

\* The provider takes the message, refuses it, or nobody knows.
Post(w) ==
    LET took == accepted \cup {<<worker[w].job, worker[w].attempt>>} IN
    /\ worker[w].pc = "post"
    /\ UNCHANGED <<card, row>>
    /\ \/ accepted' = took /\ Answered(w, Result("accepted", FALSE, worker[w].attempt))
       \/ accepted' \in {accepted, took} /\ Answered(w, Result("uncertain", FALSE, 0))
       \/ UNCHANGED accepted
            /\ \E retry \in BOOLEAN : Answered(w, Result("failed", retry, 0))

\* Mutant: the attempts are not counted.
RetriesForever(w) == worker[w].result.retry

Retries(w) == worker[w].result.retry /\ worker[w].attempt < MaxAttempts

\* Only a delivery that is still being sent takes the result.
Finish(w) ==
    LET r == worker[w].job IN
    /\ worker[w].pc = "finish"
    /\ row' = IF ~In(r, {"sending"}) THEN row
              ELSE [row EXCEPT ![r].state = IF Retries(w) THEN "queued" ELSE worker[w].result.state,
                               ![r].provider_message_id = worker[w].result.message_id]
    /\ worker' = [worker EXCEPT ![w] = Idle]
    /\ UNCHANGED <<card, accepted>>

\* The process dies, or a statement after the claim fails; before it there is
\* nothing to lose.
Crash(w) ==
    /\ worker[w].pc \in {"upload", "post", "finish"}
    /\ worker' = [worker EXCEPT ![w] = Idle]
    /\ UNCHANGED <<card, row, accepted>>

\* Mutant: only the first claim sets a lease.
RecoverFirst(r) ==
    /\ In(r, {"sending"}) /\ row[r].attempt_count = 1
    /\ row' = [row EXCEPT ![r].state = "uncertain"]
    /\ UNCHANGED <<card, worker, accepted>>

\* The lease ran out, whether its worker is dead or slow.
Recover(r) ==
    /\ In(r, {"sending"})
    /\ row' = [row EXCEPT ![r].state = "uncertain"]
    /\ UNCHANGED <<card, worker, accepted>>

\* The status after a callback; the order of callbacks is the provider's.
NextStatus(current, incoming) ==
    CASE incoming = "read" -> "read"
      [] incoming = "delivered" /\ current # "read" -> "delivered"
      [] incoming = "sent" /\ current \notin {"read", "delivered", "failed"} -> "accepted"
      [] incoming = "failed" /\ current \notin {"read", "delivered"} -> "failed"
      [] OTHER -> current

\* A callback finds its delivery by the message id, so never before Finish.
Webhook(r, incoming) ==
    /\ row[r] # None /\ row[r].provider_message_id # 0
    /\ row' = [row EXCEPT ![r].state = NextStatus(@, incoming)]
    /\ UNCHANGED <<card, worker, accepted>>

-----------------------------------------------------------------------------
CardStep(c) ==
    \/ \E content \in Content : ChangeCard(c, content)
    \/ \E r \in Delivery : Approve(r, c)

Tick(w) ==
    \/ \E r \in Delivery : Candidate(w, r)
    \/ FailInvalid(w) \/ CancelStale(w) \/ Skip(w) \/ Claim(w)
    \/ Upload(w) \/ Post(w) \/ Finish(w)

ProviderStep(r) == \E incoming \in WebhookStatus : Webhook(r, incoming)

Next ==
    \/ \E c \in Card : CardStep(c)
    \/ \E w \in Worker : Tick(w) \/ Crash(w)
    \/ \E r \in Delivery : Recover(r) \/ ProviderStep(r)

Spec == Init /\ [][Next]_vars

\* The loop ticks every three seconds as long as the process lives, and begins
\* each tick with the recovery of leases.
Fairness ==
    /\ \A w \in Worker : WF_vars(Tick(w))
    /\ \A r \in Delivery : WF_vars(Recover(r))

FairSpec == Spec /\ Fairness

-----------------------------------------------------------------------------
(* Properties. *)

\* A card is on its way at most once at a time: a second approval waits for the
\* first to end, and a delivery that ended does not come back (approve; the unique
\* index gift_card_delivery_pending).
OneAtATime ==
    \A r, q \in Delivery :
        /\ In(r, {"queued", "sending"}) /\ In(q, {"queued", "sending"})
        /\ row[r].card = row[q].card
        => r = q

Holding(w) == worker[w].pc \in {"upload", "post", "finish"}

AttemptsLeft == \A r \in Delivery : In(r, {"queued"}) => row[r].attempt_count < MaxAttempts

\* A worker past its claim owns the last attempt of a delivery that only a lease
\* recovery may have touched since.
HolderOwnsAttempt ==
    \A w \in Worker : Holding(w) =>
        /\ In(worker[w].job, {"sending", "uncertain"})
        /\ worker[w].attempt \in Attempt
        /\ worker[w].attempt = row[worker[w].job].attempt_count

OneHolder ==
    \A w, v \in Worker : Holding(w) /\ Holding(v) /\ worker[w].job = worker[v].job => w = v

Sent(attempt) == Result("accepted", FALSE, attempt)
Unknown == Result("uncertain", FALSE, 0)
Refused == {Result("failed", retry, 0) : retry \in BOOLEAN}

ResultsAreTrue ==
    \A w \in Worker : worker[w].pc = "finish" =>
        /\ worker[w].result \in {Sent(worker[w].attempt), Unknown} \cup Refused
        /\ worker[w].result.message_id # 0 => <<worker[w].job, worker[w].attempt>> \in accepted

\* A message the provider took belongs to the last attempt; who still holds that
\* attempt is about to say so, or that it does not know.
AcceptedIsLast ==
    \A r \in Delivery, a \in Attempt : <<r, a>> \in accepted =>
        /\ In(r, {"sending", "uncertain", "accepted", "delivered", "read", "failed"})
        /\ a = row[r].attempt_count
        /\ In(r, {"failed"}) => row[r].provider_message_id = a
        /\ \A w \in Worker : Holding(w) /\ worker[w].job = r =>
             worker[w].pc = "finish" /\ worker[w].result \in {Sent(a), Unknown}

MessageIdsAreTrue ==
    \A r \in Delivery : row[r] # None /\ row[r].provider_message_id # 0 =>
        /\ <<r, row[r].provider_message_id>> \in accepted
        /\ In(r, {"accepted", "delivered", "read", "failed"})

\* What the rows say, what the loops remember and what the provider took stay
\* true of each other through crashes and lease recoveries, and a card is on its
\* way once at a time (approve, tick, recover, finish, webhook).
IInv ==
    /\ TypeOK /\ OneAtATime
    /\ AttemptsLeft /\ HolderOwnsAttempt /\ OneHolder
    /\ ResultsAreTrue /\ AcceptedIsLast /\ MessageIdsAreTrue

\* What a row, or no row, says of a delivery.
PhaseOf(x) ==
    IF x = None THEN "open"
    ELSE CASE x.state = "queued" -> "open"
           [] x.state = "sending" -> "submitted"
           [] x.state = "uncertain" -> "unknown"
           [] x.state \in {"accepted", "delivered", "read"} -> "sent"
           [] x.state = "failed" /\ x.provider_message_id # 0 -> "sent"
           [] OTHER -> "dropped"

Messages(r) == {a \in Attempt : <<r, a>> \in accepted}

Promise == INSTANCE MessagePromise
    WITH phase <- [r \in Delivery |-> PhaseOf(row[r])],
         sent <- [r \in Delivery |-> Messages(r)]

\* A delivery promises what an invoice notification does: at most one message for
\* each approval, none after it was dropped, and no way back from an unknown or a
\* sent message (tick, recover, finish, webhook).
PromiseKept == Promise!Spec

\* An approved delivery comes to an end, if the card can always be drawn.
DeliveriesEnd ==
    \A r \in Delivery : In(r, {"queued", "sending"}) ~> ~In(r, {"queued", "sending"})

\* "Recipient, balance, expiry, or active-status changes cancel unstarted sends"
\* (docs/whatsapp-notifications.md:145): a card that changed and stays changed
\* does not stay in the queue.
ChangesCancel ==
    \A r \in Delivery :
        ~<>[](In(r, {"queued"}) /\ Current(r) # row[r].content)

=============================================================================
