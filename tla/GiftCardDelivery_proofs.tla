----------------------- MODULE GiftCardDelivery_proofs -----------------------
(***************************************************************************)
(* Proofs about GiftCardDelivery, for every value of its constants.        *)
(*                                                                         *)
(* The argument.  Between a claim and its record only the worker knows     *)
(* whether a message left.  IInv says that this worker is alone, owns the  *)
(* last attempt, and that no other attempt had a message.  A step writes   *)
(* one row (RowStep), one worker (WorkerStep), or ends a worker's job with *)
(* a row (Drop, Claim, Finish).                                            *)
(***************************************************************************)
EXTENDS GiftCardDelivery, TLAPS

State == {"queued", "sending", "accepted", "delivered", "read", "failed",
          "uncertain", "cancelled"}

\* What the invariant says, besides types, of rows, workers and messages.
MessageInv ==
    /\ OneAtATime /\ AttemptsLeft /\ HolderOwnsAttempt /\ OneHolder
    /\ ResultsAreTrue /\ AcceptedIsLast /\ MessageIdsAreTrue

\* The statements that update a delivery leave a row of the table.
LEMMA RowUpdate ==
  ASSUME NEW x \in Row, NEW s \in State, NEW n \in 0..MaxAttempts
  PROVE  LET y == [x EXCEPT !.state = s]
             z == [x EXCEPT !.state = s, !.attempt_count = n]
             u == [x EXCEPT !.state = s, !.provider_message_id = n]
         IN /\ y \in Row /\ y.state = s /\ y.card = x.card
            /\ y.attempt_count = x.attempt_count
            /\ y.provider_message_id = x.provider_message_id
            /\ z \in Row /\ z.state = s /\ z.attempt_count = n /\ z.card = x.card
            /\ z.provider_message_id = x.provider_message_id
            /\ u \in Row /\ u.state = s /\ u.provider_message_id = n /\ u.card = x.card
            /\ u.attempt_count = x.attempt_count
  BY DEF Row, State

\* What types say of one delivery that has a row.
LEMMA RowTypes ==
  ASSUME TypeOK, NEW r \in Delivery, row[r] # None
  PROVE  /\ row[r] \in Row /\ row[r].state \in State /\ row[r].card \in Card
         /\ row[r].attempt_count \in 0..MaxAttempts
         /\ row[r].provider_message_id \in 0..MaxAttempts
<1>1. row[r] \in Row
  BY DEF TypeOK
<1> QED
  BY <1>1 DEF Row, State

\* What types say of a worker.
LEMMA WorkerTypes ==
  ASSUME TypeOK, NEW w \in Worker
  PROVE  /\ worker[w] \in WorkerState
         /\ worker[w].pc \in {"idle", "found", "upload", "post", "finish"}
         /\ worker[w].job \in Delivery \cup {None} /\ worker[w].attempt \in 0..MaxAttempts
         /\ worker[w].pc # "idle" => worker[w].job \in Delivery
<1>1. worker[w] \in WorkerState
  BY DEF TypeOK
<1> QED
  BY <1>1 DEF TypeOK, WorkerState

\* The results of a send have their type.
LEMMA ResultTypes ==
  /\ NoResult \in SendResult /\ Unknown \in SendResult /\ Refused \subseteq SendResult
  /\ \A a \in 0..MaxAttempts : Sent(a) \in SendResult
<1>1. 0 \in 0..MaxAttempts
  BY DeliveryAssumption
<1> QED
  BY <1>1 DEF NoResult, Sent, Unknown, Refused, Result, SendResult

Found(r) == [Idle EXCEPT !.pc = "found", !.job = r]

\* A worker that has not looked for a delivery yet, or has just found one.
LEMMA IdleTypes ==
  /\ Idle \in WorkerState /\ Idle.pc = "idle" /\ Idle.job = None
  /\ \A r \in Delivery : Found(r) \in WorkerState /\ Found(r).pc = "found" /\ Found(r).job = r
<1>1. 0 \in 0..MaxAttempts /\ NoResult \in SendResult
  BY ResultTypes, DeliveryAssumption
<1> QED
  BY <1>1 DEF Idle, Found, WorkerState

\* Nothing is queued, held or sent at the start.
LEMMA InitInv == Init => IInv
<1> SUFFICES ASSUME Init PROVE IInv
  OBVIOUS
<1>1. Idle \in WorkerState /\ Idle.pc = "idle" /\ Idle.job = None
  BY IdleTypes
<1>2. TypeOK
  BY <1>1 DEF Init, TypeOK
<1>3. MessageInv
  BY <1>1 DEF Init, MessageInv, OneAtATime, AttemptsLeft, HolderOwnsAttempt, OneHolder,
     ResultsAreTrue, AcceptedIsLast, MessageIdsAreTrue, In, Holding
<1> QED
  BY <1>2, <1>3 DEF IInv, MessageInv

-----------------------------------------------------------------------------
(* Steps of one worker that tell nobody anything yet. *)

\* A worker finds a delivery, gives up, dies, uploads, or posts a message that the
\* provider did not take.
QuietWorker(w) ==
    /\ worker' = [worker EXCEPT ![w] = worker'[w]]
    /\ worker'[w] \in WorkerState
    /\ worker'[w].pc = "idle" <=> worker'[w].job = None
    /\ \/ worker'[w].pc \in {"idle", "found"}
       \/ /\ worker[w].pc \in {"upload", "post"} /\ worker'[w].pc \in {"post", "finish"}
          /\ worker'[w].job = worker[w].job /\ worker'[w].attempt = worker[w].attempt
          /\ worker'[w].pc = "finish" => worker'[w].result \in {Unknown} \cup Refused

\* The invariant is kept by what a worker does before anybody can know of it.
LEMMA QuietWorkerKeeps ==
  ASSUME IInv, NEW w \in Worker, QuietWorker(w), UNCHANGED <<card, row, accepted>>
  PROVE  IInv'
<1> USE DEF IInv
<1>1. TypeOK'
  BY DEF TypeOK, QuietWorker
<1>2. \A v \in Worker : v # w => worker'[v] = worker[v]
  BY DEF TypeOK, QuietWorker
<1>3. (OneAtATime /\ AttemptsLeft /\ MessageIdsAreTrue)'
  BY DEF OneAtATime, AttemptsLeft, MessageIdsAreTrue, In
<1>4. \A v \in Worker : Holding(v)' =>
        /\ Holding(v) /\ worker'[v].job = worker[v].job
        /\ worker'[v].attempt = worker[v].attempt
        /\ worker'[v] = worker[v] \/ worker[v].pc # "finish"
  BY <1>2 DEF Holding, QuietWorker
<1>5. HolderOwnsAttempt'
  BY <1>4 DEF HolderOwnsAttempt, In
<1>6. OneHolder'
  BY <1>4 DEF OneHolder
<1>7. ResultsAreTrue'
  <2>1. ASSUME NEW v \in Worker, worker'[v].pc = "finish", worker'[v] # worker[v]
        PROVE  worker'[v].result \in {Unknown} \cup Refused
    BY <1>2, <2>1 DEF QuietWorker
  <2>2. ASSUME NEW x, x \in {Unknown} \cup Refused PROVE x.message_id = 0
    BY <2>2 DEF Unknown, Refused, Result
  <2> QED
    BY <2>1, <2>2 DEF ResultsAreTrue
<1>8. AcceptedIsLast'
  BY <1>4 DEF AcceptedIsLast, In
<1> QED
  BY <1>1, <1>3, <1>5, <1>6, <1>7, <1>8

\* Reading the queue, leaving a delivery alone, and the death of the process.
LEMMA ForgetKeeps ==
  ASSUME IInv, NEW w \in Worker, NEW r \in Delivery,
         Candidate(w, r) \/ Skip(w) \/ Crash(w)
  PROVE  IInv'
<1>1. worker'[w] \in {Idle, Found(r)}
  BY DEF IInv, TypeOK, Candidate, Skip, Crash, Found
<1>2. worker' = [worker EXCEPT ![w] = worker'[w]]
  BY DEF IInv, TypeOK, Candidate, Skip, Crash
<1>3. QuietWorker(w)
  <2>1. CASE worker'[w] = Idle
    BY <1>2, <2>1, IdleTypes DEF QuietWorker
  <2>2. CASE worker'[w] = Found(r)
    <3>1. worker'[w] \in WorkerState /\ worker'[w].pc = "found" /\ worker'[w].job # None
      BY <2>2, IdleTypes, DeliveryAssumption
    <3> QED
      BY <1>2, <3>1 DEF QuietWorker
  <2> QED
    BY <1>1, <2>1, <2>2
<1>4. UNCHANGED <<card, row, accepted>>
  BY DEF Candidate, Skip, Crash
<1> QED
  BY <1>3, <1>4, QuietWorkerKeeps

\* The upload of the image.
LEMMA UploadKeeps ==
  ASSUME IInv, NEW w \in Worker, Upload(w)
  PROVE  IInv'
<1>1. /\ worker[w] \in WorkerState /\ worker[w].pc = "upload"
      /\ worker[w].job \in Delivery /\ worker[w].attempt \in Attempt
  BY WorkerTypes DEF IInv, Upload, HolderOwnsAttempt, Holding
<1>2. PICK x \in {[worker[w] EXCEPT !.pc = "post"]}
              \cup {[worker[w] EXCEPT !.pc = "finish", !.result = y] : y \in Refused} :
        worker' = [worker EXCEPT ![w] = x]
  <2>1. CASE worker' = [worker EXCEPT ![w].pc = "post"]
    BY <2>1
  <2>2. ASSUME NEW retry \in BOOLEAN,
               worker' = [worker EXCEPT ![w].pc = "finish",
                                        ![w].result = Result("failed", retry, 0)]
        PROVE  \E y \in Refused :
                 worker' = [worker EXCEPT ![w] = [worker[w] EXCEPT !.pc = "finish", !.result = y]]
    <3>1. Result("failed", retry, 0) \in Refused
      BY DEF Refused
    <3> QED
      BY <2>2, <3>1 DEF IInv, TypeOK
  <2> QED
    BY <2>1, <2>2 DEF Upload
<1>3. worker'[w] = x /\ worker' = [worker EXCEPT ![w] = worker'[w]]
  BY <1>2 DEF IInv, TypeOK
<1>4. QuietWorker(w)
  <2>1. CASE x = [worker[w] EXCEPT !.pc = "post"]
    <3>1. /\ x \in WorkerState /\ x.pc = "post" /\ x.job = worker[w].job
          /\ x.attempt = worker[w].attempt
      BY <1>1, <2>1 DEF WorkerState
    <3> QED
      BY <1>1, <1>3, <3>1, DeliveryAssumption DEF QuietWorker
  <2>2. CASE x # [worker[w] EXCEPT !.pc = "post"]
    <3>1. PICK y \in Refused : x = [worker[w] EXCEPT !.pc = "finish", !.result = y]
      BY <2>2
    <3>2. y \in SendResult
      BY ResultTypes
    <3>3. /\ x \in WorkerState /\ x.pc = "finish" /\ x.job = worker[w].job
          /\ x.attempt = worker[w].attempt /\ x.result = y
      BY <1>1, <3>1, <3>2 DEF WorkerState
    <3> QED
      BY <1>1, <1>3, <3>1, <3>3, DeliveryAssumption DEF QuietWorker
  <2> QED
    BY <2>1, <2>2
<1>5. UNCHANGED <<card, row, accepted>>
  BY DEF Upload
<1> QED
  BY <1>4, <1>5, QuietWorkerKeeps

-----------------------------------------------------------------------------
(* Steps that write one row. *)

\* A card changes; nothing else does.
LEMMA ChangeCardKeeps ==
  ASSUME IInv, NEW c \in Card, NEW content \in Content, ChangeCard(c, content)
  PROVE  IInv'
<1> USE DEF IInv, ChangeCard
<1>1. TypeOK'
  BY DEF TypeOK
<1>2. (OneAtATime /\ AttemptsLeft /\ MessageIdsAreTrue /\ HolderOwnsAttempt)'
  BY DEF OneAtATime, AttemptsLeft, MessageIdsAreTrue, HolderOwnsAttempt, In, Holding
<1>3. (OneHolder /\ ResultsAreTrue /\ AcceptedIsLast)'
  BY DEF OneHolder, ResultsAreTrue, AcceptedIsLast, In, Holding
<1> QED
  BY <1>1, <1>2, <1>3

\* An update of one delivery, by a request, the recovery or a callback: it writes a
\* row that no worker past its claim holds and that stays without a message, or it
\* changes nothing but the state, to one that does not contradict what was sent.
RowStep(r) ==
    /\ row' = [row EXCEPT ![r] = row'[r]] /\ row'[r] \in Row
    /\ \/ /\ row[r] = None \/ In(r, {"queued"})
          /\ row'[r].provider_message_id = 0
       \/ /\ row[r] # None
          /\ row'[r].provider_message_id = row[r].provider_message_id
          /\ row'[r].attempt_count = row[r].attempt_count
          /\ \/ In(r, {"sending"}) /\ row'[r].state = "uncertain"
             \/ /\ row[r].provider_message_id # 0
                /\ row'[r].state \in {"accepted", "delivered", "read", "failed"}

\* A delivery that nobody claimed is held by nobody, and nothing was sent for it.
LEMMA Unclaimed ==
  ASSUME IInv, NEW r \in Delivery, row[r] = None \/ In(r, {"queued", "failed", "cancelled"}),
         row[r] # None => row[r].provider_message_id = 0
  PROVE  /\ \A w \in Worker : Holding(w) => worker[w].job # r
         /\ \A a \in Attempt : <<r, a>> \notin accepted
<1>1. ASSUME NEW w \in Worker, Holding(w) PROVE worker[w].job # r
  BY <1>1 DEF IInv, HolderOwnsAttempt, In
<1>2. ASSUME NEW a \in Attempt, <<r, a>> \in accepted PROVE FALSE
  <2>1. /\ In(r, {"sending", "uncertain", "accepted", "delivered", "read", "failed"})
        /\ In(r, {"failed"}) => row[r].provider_message_id = a
    BY <1>2 DEF IInv, AcceptedIsLast
  <2>2. row[r].provider_message_id = a
    BY <2>1 DEF In
  <2> QED
    BY <2>1, <2>2, DeliveryAssumption DEF In, Attempt
<1> QED
  BY <1>1, <1>2

\* Such an update keeps what the invariant says of holders and messages.
LEMMA RowStepKeeps ==
  ASSUME IInv, NEW r \in Delivery, RowStep(r), UNCHANGED <<worker, accepted>>
  PROVE  (HolderOwnsAttempt /\ OneHolder /\ ResultsAreTrue /\ AcceptedIsLast
           /\ MessageIdsAreTrue)'
<1> USE DEF IInv
<1>1. /\ \A q \in Delivery : q # r => row'[q] = row[q]
      /\ row'[r] # None
  BY DeliveryAssumption DEF TypeOK, RowStep
<1>2. ASSUME NEW w \in Worker, Holding(w), worker[w].job = r
      PROVE  /\ In(r, {"sending", "uncertain"})
             /\ row'[r].state = "uncertain" /\ row'[r].attempt_count = row[r].attempt_count
  <2>1. In(r, {"sending", "uncertain"})
    BY <1>2 DEF HolderOwnsAttempt
  <2>2. row[r].provider_message_id = 0
    BY <2>1 DEF MessageIdsAreTrue, In
  <2> QED
    BY <2>1, <2>2 DEF RowStep, In
<1>3. ASSUME NEW a \in Attempt, <<r, a>> \in accepted
      PROVE  /\ row'[r].attempt_count = row[r].attempt_count
             /\ row'[r].state \in {"uncertain", "accepted", "delivered", "read", "failed"}
             /\ row'[r].state = "failed" => row'[r].provider_message_id = a
  <2>1. row[r] # None /\ ~In(r, {"queued"}) /\ row[r].attempt_count = a
    BY <1>3 DEF AcceptedIsLast, In
  <2>2. ASSUME row[r].provider_message_id # 0 PROVE row[r].provider_message_id = a
    <3>1. row[r].provider_message_id \in Attempt
      BY <2>1, <2>2, RowTypes, DeliveryAssumption DEF Attempt
    <3> QED
      BY <2>1, <2>2, <3>1 DEF MessageIdsAreTrue, AcceptedIsLast
  <2> QED
    BY <2>1, <2>2 DEF RowStep, In
<1>4. HolderOwnsAttempt'
  <2> SUFFICES ASSUME NEW w \in Worker, Holding(w)
               PROVE  /\ In(worker[w].job, {"sending", "uncertain"})'
                      /\ worker[w].attempt \in Attempt
                      /\ worker[w].attempt = row'[worker[w].job].attempt_count
    BY DEF HolderOwnsAttempt, Holding
  <2>1. worker[w].job \in Delivery
    BY WorkerTypes DEF Holding
  <2> QED
    BY <1>1, <1>2, <2>1 DEF HolderOwnsAttempt, In
<1>5. (OneHolder /\ ResultsAreTrue)'
  BY DEF OneHolder, ResultsAreTrue, Holding
<1>6. AcceptedIsLast'
  <2> SUFFICES ASSUME NEW q \in Delivery, NEW a \in Attempt, <<q, a>> \in accepted
               PROVE  /\ In(q, {"sending", "uncertain", "accepted", "delivered", "read",
                                "failed"})'
                      /\ a = row'[q].attempt_count
                      /\ In(q, {"failed"})' => row'[q].provider_message_id = a
    BY DEF AcceptedIsLast, Holding
  <2> QED
    BY <1>1, <1>3 DEF AcceptedIsLast, In
<1>7. MessageIdsAreTrue'
  <2> SUFFICES ASSUME NEW q \in Delivery, row'[q] # None, row'[q].provider_message_id # 0
               PROVE  /\ <<q, row'[q].provider_message_id>> \in accepted
                      /\ In(q, {"accepted", "delivered", "read", "failed"})'
    BY DEF MessageIdsAreTrue
  <2>1. CASE q # r
    BY <1>1, <2>1 DEF MessageIdsAreTrue, In
  <2>2. CASE q = r
    <3>1. /\ row[r] # None /\ row[r].provider_message_id = row'[r].provider_message_id
          /\ In(r, {"sending"}) \/ row'[r].state \in {"accepted", "delivered", "read", "failed"}
      BY <2>2 DEF RowStep
    <3>2. <<r, row[r].provider_message_id>> \in accepted /\ ~In(r, {"sending"})
      BY <2>2, <3>1 DEF MessageIdsAreTrue, In
    <3> QED
      BY <1>1, <2>2, <3>1, <3>2 DEF In
  <2> QED
    BY <2>1, <2>2
<1> QED
  BY <1>4, <1>5, <1>6, <1>7

\* A delivery that is not taken up anew leaves its card to one delivery.
LEMMA OneAtATimeKept ==
  ASSUME IInv, NEW r \in Delivery, \A q \in Delivery : q # r => row'[q] = row[q],
         row'[r].state \in {"queued", "sending"} =>
           In(r, {"queued", "sending"}) /\ row'[r].card = row[r].card
  PROVE  OneAtATime'
  BY DEF IInv, OneAtATime, In

\* The new delivery waits for the card's earlier one to end.
LEMMA ApproveKeeps ==
  ASSUME IInv, NEW r \in Delivery, NEW c \in Card, Approve(r, c)
  PROVE  IInv'
<1> DEFINE new == [card |-> c, content |-> card[c], attempt_count |-> 0,
                   provider_message_id |-> 0, state |-> "queued"]
<1>1. new \in Row /\ row' = [row EXCEPT ![r] = new]
  BY DeliveryAssumption DEF IInv, TypeOK, Row, Approve
<1>2. /\ row'[r] = new /\ row'[r] \in Row /\ row'[r].provider_message_id = 0
      /\ row' = [row EXCEPT ![r] = row'[r]]
      /\ \A q \in Delivery : q # r => row'[q] = row[q]
  BY <1>1 DEF IInv, TypeOK
<1>3. UNCHANGED <<card, worker, accepted>> /\ row[r] = None /\ ~Pending(c)
  BY DEF Approve
<1>4. TypeOK'
  BY <1>1, <1>3 DEF IInv, TypeOK
<1>5. AttemptsLeft'
  BY <1>2, DeliveryAssumption DEF IInv, AttemptsLeft, In
<1>6. OneAtATime'
  BY <1>2, <1>3 DEF IInv, OneAtATime, Pending, In
<1>7. RowStep(r)
  BY <1>1, <1>2, <1>3 DEF RowStep
<1> QED
  BY <1>3, <1>4, <1>5, <1>6, <1>7, RowStepKeeps DEF IInv

\* The recovery of a lease only gives up a delivery.
LEMMA RecoverKeeps ==
  ASSUME IInv, NEW r \in Delivery, Recover(r)
  PROVE  IInv'
<1>1. row[r] # None /\ row[r].state = "sending" /\ UNCHANGED <<card, worker, accepted>>
  BY DEF Recover, In
<1>2. row' = [row EXCEPT ![r] = [row[r] EXCEPT !.state = "uncertain"]]
  BY DEF Recover
<1>3. /\ row'[r] = [row[r] EXCEPT !.state = "uncertain"]
      /\ \A q \in Delivery : q # r => row'[q] = row[q]
  BY <1>2 DEF IInv, TypeOK
<1>4. /\ row'[r] \in Row /\ row'[r].state = "uncertain"
      /\ row'[r].provider_message_id = row[r].provider_message_id
      /\ row'[r].attempt_count = row[r].attempt_count
  BY <1>1, <1>3, RowTypes DEF IInv, Row
<1>5. TypeOK'
  BY <1>1, <1>2, <1>3, <1>4 DEF IInv, TypeOK
<1>6. AttemptsLeft'
  BY <1>3, <1>4 DEF IInv, AttemptsLeft, In
<1>7. OneAtATime'
  BY <1>3, <1>4, OneAtATimeKept
<1>8. RowStep(r)
  BY <1>1, <1>2, <1>3, <1>4 DEF RowStep, In
<1> QED
  BY <1>1, <1>5, <1>6, <1>7, <1>8, RowStepKeeps DEF IInv

\* A callback moves a delivery with a message among the states that have one.
LEMMA NextStatusSent ==
  ASSUME NEW current \in {"accepted", "delivered", "read", "failed"}, NEW incoming
  PROVE  NextStatus(current, incoming) \in {"accepted", "delivered", "read", "failed"}
  BY DEF NextStatus

\* Callbacks, in any order.
LEMMA WebhookKeeps ==
  ASSUME IInv, NEW r \in Delivery, NEW incoming \in WebhookStatus, Webhook(r, incoming)
  PROVE  IInv'
<1> DEFINE s == NextStatus(row[r].state, incoming)
<1>1. row[r] # None /\ row[r].provider_message_id # 0 /\ UNCHANGED <<card, worker, accepted>>
  BY DEF Webhook
<1>2. s \in {"accepted", "delivered", "read", "failed"}
  BY <1>1, NextStatusSent DEF IInv, MessageIdsAreTrue, In
<1>3. row' = [row EXCEPT ![r] = [row[r] EXCEPT !.state = s]]
  BY DEF Webhook
<1>4. /\ row'[r] = [row[r] EXCEPT !.state = s]
      /\ \A q \in Delivery : q # r => row'[q] = row[q]
  BY <1>3 DEF IInv, TypeOK
<1> HIDE DEF s
<1>5. /\ row'[r] \in Row /\ row'[r].state = s
      /\ row'[r].provider_message_id = row[r].provider_message_id
      /\ row'[r].attempt_count = row[r].attempt_count
  BY <1>1, <1>2, <1>4, RowTypes DEF IInv, Row
<1>6. TypeOK'
  BY <1>1, <1>3, <1>4, <1>5 DEF IInv, TypeOK
<1>7. AttemptsLeft'
  BY <1>2, <1>4, <1>5 DEF IInv, AttemptsLeft, In
<1>8. OneAtATime'
  BY <1>2, <1>4, <1>5, OneAtATimeKept
<1>9. RowStep(r)
  BY <1>1, <1>2, <1>3, <1>4, <1>5 DEF RowStep
<1> QED
  BY <1>1, <1>6, <1>7, <1>8, <1>9, RowStepKeeps DEF IInv

-----------------------------------------------------------------------------
(* Steps that write a row and the worker's memory. *)

\* A worker that becomes idle takes nothing with it.
LEMMA IdleAgain ==
  ASSUME IInv, NEW w \in Worker, worker' = [worker EXCEPT ![w] = Idle]
  PROVE  /\ worker' \in [Worker -> WorkerState]
         /\ \A v \in Worker : worker'[v].pc = "idle" <=> worker'[v].job = None
         /\ \A v \in Worker : Holding(v)' => v # w /\ Holding(v) /\ worker'[v] = worker[v]
  BY IdleTypes DEF IInv, TypeOK, Holding

\* A delivery that no longer may be sent ends without an attempt.
LEMMA DropKeeps ==
  ASSUME IInv, NEW w \in Worker, NEW state \in {"failed", "cancelled"}, Drop(w, state)
  PROVE  IInv'
<1> DEFINE r == worker[w].job
<1>1. /\ r \in Delivery /\ In(r, {"queued"}) /\ UNCHANGED <<card, accepted>>
      /\ row' = [row EXCEPT ![r] = [row[r] EXCEPT !.state = state]]
  BY WorkerTypes DEF IInv, Drop
<1>2. /\ row'[r] = [row[r] EXCEPT !.state = state]
      /\ \A q \in Delivery : q # r => row'[q] = row[q]
  BY <1>1 DEF IInv, TypeOK
<1>3. row[r] # None /\ row[r].provider_message_id = 0
  BY <1>1 DEF IInv, MessageIdsAreTrue, In
<1>4. row'[r] \in Row /\ row'[r].state = state /\ row'[r].provider_message_id = 0
  BY <1>1, <1>2, <1>3, RowTypes DEF IInv, Row
<1>5. /\ \A v \in Worker : Holding(v) => worker[v].job # r
      /\ \A a \in Attempt : <<r, a>> \notin accepted
  BY <1>1, <1>3, Unclaimed DEF In
<1>6. worker' = [worker EXCEPT ![w] = Idle]
  BY DEF Drop
<1>7. /\ worker' \in [Worker -> WorkerState]
      /\ \A v \in Worker : worker'[v].pc = "idle" <=> worker'[v].job = None
      /\ \A v \in Worker : Holding(v)' => v # w /\ Holding(v) /\ worker'[v] = worker[v]
  BY <1>6, IdleAgain
<1> HIDE DEF r
<1>8. TypeOK'
  BY <1>1, <1>2, <1>4, <1>7 DEF IInv, TypeOK
<1>9. AttemptsLeft'
  BY <1>2, <1>4 DEF IInv, AttemptsLeft, In
<1>10. OneAtATime'
  BY <1>1, <1>2, <1>4, OneAtATimeKept
<1>11. HolderOwnsAttempt'
  <2> SUFFICES ASSUME NEW v \in Worker, Holding(v)'
               PROVE  /\ In(worker[v].job, {"sending", "uncertain"})'
                      /\ worker[v].attempt \in Attempt
                      /\ worker[v].attempt = row'[worker[v].job].attempt_count
    BY <1>7 DEF HolderOwnsAttempt
  <2>1. Holding(v) /\ worker[v].job \in Delivery /\ worker[v].job # r
    BY <1>5, <1>7, WorkerTypes DEF IInv, Holding
  <2> QED
    BY <1>2, <1>7, <2>1 DEF IInv, HolderOwnsAttempt, In
<1>12. OneHolder'
  BY <1>7 DEF IInv, OneHolder
<1>13. ResultsAreTrue'
  BY <1>1, <1>7 DEF IInv, ResultsAreTrue, Holding
<1>14. AcceptedIsLast'
  BY <1>1, <1>2, <1>5, <1>7 DEF IInv, AcceptedIsLast, In
<1>15. MessageIdsAreTrue'
  BY <1>1, <1>2, <1>4 DEF IInv, MessageIdsAreTrue, In
<1> QED
  BY <1>8, <1>9, <1>10, <1>11, <1>12, <1>13, <1>14, <1>15 DEF IInv

\* The claim makes the worker the only holder, of a new last attempt.
LEMMA ClaimKeeps ==
  ASSUME IInv, NEW w \in Worker, Claim(w)
  PROVE  IInv'
<1> DEFINE r == worker[w].job
           n == row[r].attempt_count + 1
<1>1. /\ r \in Delivery /\ In(r, {"queued"}) /\ worker[w].pc = "found"
      /\ UNCHANGED <<card, accepted>>
  BY WorkerTypes DEF IInv, Claim
<1>2. row[r] # None /\ row[r].provider_message_id = 0 /\ row[r] \in Row
  BY <1>1, RowTypes DEF IInv, MessageIdsAreTrue, In
<1>3. n \in Attempt /\ n \in 0..MaxAttempts
  BY <1>1, <1>2, RowTypes, DeliveryAssumption DEF IInv, AttemptsLeft, Attempt
<1>4. /\ row' = [row EXCEPT ![r] = [row[r] EXCEPT !.state = "sending", !.attempt_count = n]]
      /\ worker' = [worker EXCEPT ![w] = [worker[w] EXCEPT !.pc = "upload", !.attempt = n]]
  BY DEF Claim
<1> HIDE DEF n
<1>5. /\ row'[r] = [row[r] EXCEPT !.state = "sending", !.attempt_count = n]
      /\ \A q \in Delivery : q # r => row'[q] = row[q]
  BY <1>1, <1>4 DEF IInv, TypeOK
<1>6. /\ row'[r] \in Row /\ row'[r].state = "sending" /\ row'[r].attempt_count = n
      /\ row'[r].provider_message_id = 0 /\ row'[r].card = row[r].card
  BY <1>2, <1>3, <1>5 DEF Row
<1>7. /\ worker'[w] = [worker[w] EXCEPT !.pc = "upload", !.attempt = n]
      /\ \A v \in Worker : v # w => worker'[v] = worker[v]
  BY <1>4 DEF IInv, TypeOK
<1>8. /\ worker'[w] \in WorkerState /\ worker'[w].pc = "upload" /\ worker'[w].job = r
      /\ worker'[w].attempt = n
  BY <1>3, <1>7, WorkerTypes DEF IInv, WorkerState
<1>9. /\ \A v \in Worker : Holding(v) => worker[v].job # r
      /\ \A a \in Attempt : <<r, a>> \notin accepted
  BY <1>1, <1>2, Unclaimed DEF In
<1> HIDE DEF r
<1>10. TypeOK'
  BY <1>1, <1>4, <1>5, <1>6, <1>7, <1>8, DeliveryAssumption DEF IInv, TypeOK
<1>11. AttemptsLeft'
  BY <1>5, <1>6 DEF IInv, AttemptsLeft, In
<1>12. OneAtATime'
  BY <1>1, <1>5, <1>6, OneAtATimeKept DEF In
<1>13. /\ row'[r] # None
       /\ \A v \in Worker : Holding(v)' => v = w \/ (Holding(v) /\ worker'[v] = worker[v])
  <2>1. row'[r] # None
    BY <1>6, DeliveryAssumption
  <2>2. \A v \in Worker : Holding(v)' => v = w \/ (Holding(v) /\ worker'[v] = worker[v])
    BY <1>7 DEF Holding
  <2> QED
    BY <2>1, <2>2
<1>14. HolderOwnsAttempt'
  <2> SUFFICES ASSUME NEW v \in Worker, Holding(v)'
               PROVE  /\ In(worker[v].job, {"sending", "uncertain"})'
                      /\ worker'[v].attempt \in Attempt
                      /\ worker'[v].attempt = row'[worker'[v].job].attempt_count
    BY DEF HolderOwnsAttempt
  <2>1. CASE v = w
    BY <1>3, <1>6, <1>8, <1>13, <2>1 DEF In
  <2>2. CASE v # w
    <3>1. Holding(v) /\ worker'[v] = worker[v] /\ worker[v].job # r /\ worker[v].job \in Delivery
      BY <1>9, <1>13, <2>2, WorkerTypes DEF IInv, Holding
    <3> QED
      BY <1>5, <3>1 DEF IInv, HolderOwnsAttempt, In
  <2> QED
    BY <2>1, <2>2
<1>15. OneHolder'
  BY <1>8, <1>9, <1>13 DEF IInv, OneHolder
<1>16. ResultsAreTrue'
  BY <1>1, <1>7, <1>8 DEF IInv, ResultsAreTrue
<1>17. AcceptedIsLast'
  BY <1>1, <1>5, <1>8, <1>9, <1>13 DEF IInv, AcceptedIsLast, In
<1>18. MessageIdsAreTrue'
  BY <1>1, <1>5, <1>6 DEF IInv, MessageIdsAreTrue, In
<1> QED
  BY <1>10, <1>11, <1>12, <1>14, <1>15, <1>16, <1>17, <1>18 DEF IInv

\* The answer to the post, as one choice of what the provider did and what is known.
LEMMA PostCases ==
  ASSUME IInv, NEW w \in Worker, Post(w)
  PROVE  /\ UNCHANGED <<card, row>>
         /\ \E x \in {Sent(worker[w].attempt), Unknown} \cup Refused :
              /\ worker' = [worker EXCEPT ![w] = [worker[w] EXCEPT !.pc = "finish", !.result = x]]
              /\ \/ accepted' = accepted /\ x # Sent(worker[w].attempt)
                 \/ /\ accepted' = accepted \cup {<<worker[w].job, worker[w].attempt>>}
                    /\ x \in {Sent(worker[w].attempt), Unknown}
<1>1. worker[w].attempt # 0
  BY DEF IInv, Post, Holding, HolderOwnsAttempt, Attempt
<1>2. /\ Unknown # Sent(worker[w].attempt)
      /\ \A x \in Refused : x # Sent(worker[w].attempt)
  BY <1>1 DEF Unknown, Sent, Refused, Result
<1>3. ASSUME NEW x, Answered(w, x)
      PROVE  worker' = [worker EXCEPT ![w] = [worker[w] EXCEPT !.pc = "finish", !.result = x]]
  BY <1>3 DEF Answered
<1>4. /\ Sent(worker[w].attempt) = Result("accepted", FALSE, worker[w].attempt)
      /\ Unknown = Result("uncertain", FALSE, 0)
      /\ \A retry \in BOOLEAN : Result("failed", retry, 0) \in Refused
  BY DEF Sent, Unknown, Refused
<1> HIDE DEF Refused
<1> QED
  BY <1>2, <1>3, <1>4 DEF Post

\* The post: whatever the provider does, the one holder of the last attempt is
\* about to say what it knows.
LEMMA PostKeeps ==
  ASSUME IInv, NEW w \in Worker, Post(w)
  PROVE  IInv'
<1> DEFINE r == worker[w].job
           n == worker[w].attempt
<1>1. PICK x \in {Sent(n), Unknown} \cup Refused :
        /\ worker' = [worker EXCEPT ![w] = [worker[w] EXCEPT !.pc = "finish", !.result = x]]
        /\ \/ accepted' = accepted /\ x # Sent(n)
           \/ accepted' = accepted \cup {<<r, n>>} /\ x \in {Sent(n), Unknown}
  BY PostCases
<1>2. /\ worker[w].pc = "post" /\ r \in Delivery /\ n \in Attempt /\ n \in 0..MaxAttempts
      /\ In(r, {"sending", "uncertain"}) /\ n = row[r].attempt_count
      /\ UNCHANGED <<card, row>>
  BY WorkerTypes, PostCases DEF IInv, Post, Holding, HolderOwnsAttempt
<1>3. x \in SendResult
  BY <1>2, ResultTypes
<1>4. /\ worker'[w] = [worker[w] EXCEPT !.pc = "finish", !.result = x]
      /\ \A v \in Worker : v # w => worker'[v] = worker[v]
  BY <1>1 DEF IInv, TypeOK
<1>5. /\ worker'[w] \in WorkerState /\ worker'[w].pc = "finish" /\ worker'[w].result = x
      /\ worker'[w].job = r /\ worker'[w].attempt = n
  BY <1>3, <1>4, WorkerTypes DEF IInv, WorkerState
<1>6. CASE accepted' = accepted /\ x # Sent(n)
  <2>1. worker' = [worker EXCEPT ![w] = worker'[w]]
    BY <1>1, <1>4
  <2>2. QuietWorker(w)
    BY <1>1, <1>2, <1>5, <1>6, <2>1, DeliveryAssumption DEF QuietWorker
  <2> QED
    BY <1>2, <1>6, <2>2, QuietWorkerKeeps
<1>7. CASE accepted' = accepted \cup {<<r, n>>} /\ x \in {Sent(n), Unknown}
  <2>1. /\ \A a \in Attempt : <<r, a>> \notin accepted
        /\ \A v \in Worker : Holding(v) /\ worker[v].job = r => v = w
        /\ Holding(w)
    BY <1>2 DEF IInv, AcceptedIsLast, OneHolder, Holding
  <2>2. \A v \in Worker : Holding(v)' <=> Holding(v)
    BY <1>2, <1>4, <1>5 DEF Holding
  <2>3. x.message_id # 0 => x = Sent(n)
    BY <1>7 DEF Unknown, Result
  <2> HIDE DEF r, n
  <2>4. TypeOK'
    BY <1>1, <1>2, <1>4, <1>5, <1>7, DeliveryAssumption DEF IInv, TypeOK
  <2>5. (OneAtATime /\ AttemptsLeft)'
    BY <1>2 DEF IInv, OneAtATime, AttemptsLeft, In
  <2>6. HolderOwnsAttempt'
    BY <1>2, <1>4, <1>5, <2>2 DEF IInv, HolderOwnsAttempt, In
  <2>7. OneHolder'
    BY <1>4, <1>5, <2>1, <2>2 DEF IInv, OneHolder, r
  <2>8. ResultsAreTrue'
    BY <1>1, <1>4, <1>5, <1>7 DEF IInv, ResultsAreTrue
  <2>9. AcceptedIsLast'
    <3> SUFFICES ASSUME NEW q \in Delivery, NEW a \in Attempt, <<q, a>> \in accepted'
                 PROVE  /\ In(q, {"sending", "uncertain", "accepted", "delivered", "read",
                                  "failed"})
                        /\ a = row[q].attempt_count
                        /\ In(q, {"failed"}) => row[q].provider_message_id = a
                        /\ \A v \in Worker : Holding(v)' /\ worker'[v].job = q =>
                             worker'[v].pc = "finish" /\ worker'[v].result \in {Sent(a), Unknown}
      BY <1>2 DEF AcceptedIsLast, In
    <3>1. CASE <<q, a>> \in accepted
      <4>1. q # r
        BY <2>1, <3>1
      <4> QED
        BY <1>4, <1>5, <2>2, <3>1, <4>1 DEF IInv, AcceptedIsLast
    <3>2. CASE q = r /\ a = n
      <4>1. \A v \in Worker : Holding(v)' /\ worker'[v].job = r => v = w
        BY <1>4, <2>1, <2>2
      <4> QED
        BY <1>2, <1>5, <1>7, <3>2, <4>1 DEF In
    <3> QED
      BY <1>7, <3>1, <3>2
  <2>10. MessageIdsAreTrue'
    BY <1>2, <1>7 DEF IInv, MessageIdsAreTrue, In
  <2> QED
    BY <2>4, <2>5, <2>6, <2>7, <2>8, <2>9, <2>10 DEF IInv
<1> QED
  BY <1>1, <1>6, <1>7

\* What a worker records of a delivery that is still being sent: a message id only
\* for a message that left, and a way back to the queue only if none did.
Recorded(w) == IF Retries(w) THEN "queued" ELSE worker[w].result.state

LEMMA RecordedTruth ==
  ASSUME IInv, NEW w \in Worker, worker[w].pc = "finish"
  PROVE  LET r == worker[w].job
             id == worker[w].result.message_id
         IN /\ Recorded(w) \in {"queued", "accepted", "uncertain", "failed"}
            /\ id \in 0..MaxAttempts
            /\ id # 0 => /\ Recorded(w) = "accepted" /\ id = worker[w].attempt
                         /\ <<r, worker[w].attempt>> \in accepted
            /\ Recorded(w) = "accepted" => id # 0
            /\ Recorded(w) = "queued" => worker[w].attempt < MaxAttempts
            /\ Recorded(w) \in {"queued", "failed"} =>
                 \A a \in Attempt : <<r, a>> \notin accepted
<1> DEFINE x == worker[w].result
           n == worker[w].attempt
<1>1. /\ x \in {Sent(n), Unknown} \cup Refused /\ n \in Attempt /\ n # 0
      /\ x.message_id # 0 => <<worker[w].job, n>> \in accepted
      /\ worker[w].job \in Delivery /\ Holding(w)
  BY WorkerTypes DEF IInv, ResultsAreTrue, HolderOwnsAttempt, Holding, Attempt
<1>2. CASE x = Sent(n)
  BY <1>1, <1>2, DeliveryAssumption DEF Sent, Result, Recorded, Retries, Attempt
<1>3. CASE x = Unknown
  BY <1>1, <1>3, DeliveryAssumption DEF Unknown, Result, Recorded, Retries
<1>4. CASE x \in Refused
  <2>1. x.state = "failed" /\ x.message_id = 0 /\ x.retry \in BOOLEAN
    BY <1>4 DEF Refused, Result
  <2>2. \A a \in Attempt : x \notin {Sent(a), Unknown}
    BY <2>1 DEF Sent, Unknown, Result
  <2>3. \A a \in Attempt : <<worker[w].job, a>> \notin accepted
    BY <1>1, <2>2 DEF IInv, AcceptedIsLast
  <2>4. Recorded(w) = "queued" => n < MaxAttempts
    BY <2>1 DEF Recorded, Retries
  <2>5. Recorded(w) \in {"queued", "failed"}
    BY <2>1 DEF Recorded
  <2> QED
    BY <2>1, <2>3, <2>4, <2>5, DeliveryAssumption
<1> QED
  BY <1>1, <1>2, <1>3, <1>4

\* The record of a result, or its loss when the lease was taken meanwhile.
LEMMA FinishKeeps ==
  ASSUME IInv, NEW w \in Worker, Finish(w)
  PROVE  IInv'
<1> DEFINE r == worker[w].job
           n == worker[w].attempt
           s == Recorded(w)
           id == worker[w].result.message_id
<1>1. /\ worker[w].pc = "finish" /\ Holding(w) /\ r \in Delivery
      /\ worker' = [worker EXCEPT ![w] = Idle] /\ UNCHANGED <<card, accepted>>
  BY WorkerTypes DEF IInv, Finish, Holding
<1>2. CASE ~In(r, {"sending"})
  <2>1. row' = row
    BY <1>2 DEF Finish
  <2>2. worker'[w] = Idle /\ worker' = [worker EXCEPT ![w] = worker'[w]]
    BY <1>1 DEF IInv, TypeOK
  <2>3. QuietWorker(w)
    BY <2>2, IdleTypes DEF QuietWorker
  <2> QED
    BY <1>1, <2>1, <2>3, QuietWorkerKeeps
<1>3. CASE In(r, {"sending"})
  <2>1. row' = [row EXCEPT ![r] = [row[r] EXCEPT !.state = s, !.provider_message_id = id]]
    BY <1>3 DEF Finish, Recorded
  <2>2. /\ s \in {"queued", "accepted", "uncertain", "failed"} /\ id \in 0..MaxAttempts
        /\ id # 0 => s = "accepted" /\ id = n /\ <<r, n>> \in accepted
        /\ s = "accepted" => id # 0
        /\ s = "queued" => n < MaxAttempts
        /\ s \in {"queued", "failed"} => \A a \in Attempt : <<r, a>> \notin accepted
    BY <1>1, RecordedTruth
  <2>3. row[r] # None /\ row[r] \in Row /\ row[r].attempt_count = n
    BY <1>1, <1>3, RowTypes DEF IInv, In, HolderOwnsAttempt
  <2> HIDE DEF s, id
  <2>4. /\ row'[r] = [row[r] EXCEPT !.state = s, !.provider_message_id = id]
        /\ \A q \in Delivery : q # r => row'[q] = row[q]
    BY <1>1, <2>1 DEF IInv, TypeOK
  <2>5. /\ row'[r] \in Row /\ row'[r].state = s /\ row'[r].provider_message_id = id
        /\ row'[r].attempt_count = n /\ row'[r].card = row[r].card
    BY <2>2, <2>3, <2>4 DEF Row
  <2>6. row'[r] # None
    BY <2>5, DeliveryAssumption
  <2>7. /\ worker' \in [Worker -> WorkerState]
        /\ \A v \in Worker : worker'[v].pc = "idle" <=> worker'[v].job = None
        /\ \A v \in Worker : Holding(v)' => v # w /\ Holding(v) /\ worker'[v] = worker[v]
    BY <1>1, IdleAgain
  <2>8. \A v \in Worker : Holding(v)' => worker[v].job # r
    BY <1>1, <2>7 DEF IInv, OneHolder
  <2> HIDE DEF r, n
  <2>9. TypeOK'
    BY <1>1, <2>1, <2>4, <2>5, <2>7 DEF IInv, TypeOK
  <2>10. AttemptsLeft'
    BY <2>2, <2>4, <2>5 DEF IInv, AttemptsLeft, In
  <2>11. OneAtATime'
    BY <1>1, <1>3, <2>4, <2>5, OneAtATimeKept DEF In
  <2>12. HolderOwnsAttempt'
    <3> SUFFICES ASSUME NEW v \in Worker, Holding(v)'
                 PROVE  /\ In(worker[v].job, {"sending", "uncertain"})'
                        /\ worker'[v].attempt \in Attempt
                        /\ worker'[v].attempt = row'[worker'[v].job].attempt_count
      BY DEF HolderOwnsAttempt
    <3>1. Holding(v) /\ worker'[v] = worker[v] /\ worker[v].job # r /\ worker[v].job \in Delivery
      BY <2>7, <2>8, WorkerTypes DEF IInv, Holding
    <3> QED
      BY <2>4, <3>1 DEF IInv, HolderOwnsAttempt, In
  <2>13. OneHolder'
    BY <2>7 DEF IInv, OneHolder
  <2>14. ResultsAreTrue'
    BY <1>1, <2>7 DEF IInv, ResultsAreTrue, Holding
  <2>15. AcceptedIsLast'
    <3> SUFFICES ASSUME NEW q \in Delivery, NEW a \in Attempt, <<q, a>> \in accepted
                 PROVE  /\ In(q, {"sending", "uncertain", "accepted", "delivered", "read",
                                  "failed"})'
                        /\ a = row'[q].attempt_count
                        /\ In(q, {"failed"})' => row'[q].provider_message_id = a
                        /\ \A v \in Worker : Holding(v)' /\ worker'[v].job = q =>
                             worker'[v].pc = "finish" /\ worker'[v].result \in {Sent(a), Unknown}
      BY <1>1 DEF AcceptedIsLast
    <3>1. CASE q # r
      BY <2>4, <2>7, <3>1 DEF IInv, AcceptedIsLast, In
    <3>2. CASE q = r
      <4>1. a = n /\ s \in {"accepted", "uncertain"}
        BY <2>2, <2>3, <3>2 DEF IInv, AcceptedIsLast
      <4>2. \A v \in Worker : Holding(v)' => worker'[v].job # q
        BY <2>7, <2>8, <3>2
      <4> QED
        BY <2>5, <2>6, <3>2, <4>1, <4>2 DEF In
    <3> QED
      BY <3>1, <3>2
  <2>16. MessageIdsAreTrue'
    BY <1>1, <2>2, <2>4, <2>5, <2>6 DEF IInv, MessageIdsAreTrue, In
  <2> QED
    BY <2>9, <2>10, <2>11, <2>12, <2>13, <2>14, <2>15, <2>16 DEF IInv
<1> QED
  BY <1>2, <1>3

\* A step that changes nothing.
LEMMA StutterKeeps ==
  ASSUME IInv, UNCHANGED vars PROVE IInv'
<1> USE DEF IInv, vars
<1>1. TypeOK'
  BY DEF TypeOK
<1>2. (OneAtATime /\ AttemptsLeft /\ MessageIdsAreTrue /\ HolderOwnsAttempt)'
  BY DEF OneAtATime, AttemptsLeft, MessageIdsAreTrue, HolderOwnsAttempt, In, Holding
<1>3. (OneHolder /\ ResultsAreTrue /\ AcceptedIsLast)'
  BY DEF OneHolder, ResultsAreTrue, AcceptedIsLast, In, Holding
<1> QED
  BY <1>1, <1>2, <1>3

-----------------------------------------------------------------------------
\* What the rows say, what the loops remember and what the provider took stay true
\* of each other, whatever crashes, is late or is given up (approve, tick, recover,
\* finish, webhook).
THEOREM Invariant == Spec => []IInv
<1>1. IInv /\ [Next]_vars => IInv'
  <2> SUFFICES ASSUME IInv, [Next]_vars PROVE IInv'
    OBVIOUS
  <2>1. ASSUME NEW c \in Card, CardStep(c) PROVE IInv'
    BY <2>1, ChangeCardKeeps, ApproveKeeps DEF CardStep
  <2>2. ASSUME NEW w \in Worker, Tick(w) \/ Crash(w) PROVE IInv'
    <3>1. CASE (\E r \in Delivery : Candidate(w, r))
      BY <3>1, ForgetKeeps
    <3>2. CASE FailInvalid(w) \/ CancelStale(w)
      BY <3>2, DropKeeps DEF FailInvalid, CancelStale
    <3>3. CASE Skip(w) \/ Crash(w)
      <4>1. worker[w].job \in Delivery
        BY <3>3, WorkerTypes DEF IInv, Skip, Crash
      <4> QED
        BY <3>3, <4>1, ForgetKeeps
    <3>4. CASE Claim(w) \/ Upload(w) \/ Post(w) \/ Finish(w)
      BY <3>4, ClaimKeeps, UploadKeeps, PostKeeps, FinishKeeps
    <3> QED
      BY <2>2, <3>1, <3>2, <3>3, <3>4 DEF Tick
  <2>3. ASSUME NEW r \in Delivery, Recover(r) \/ ProviderStep(r) PROVE IInv'
    BY <2>3, RecoverKeeps, WebhookKeeps DEF ProviderStep
  <2> QED
    BY <2>1, <2>2, <2>3, StutterKeeps DEF Next
<1> QED
  BY InitInv, <1>1, PTL DEF Spec

-----------------------------------------------------------------------------
(***************************************************************************)
(* The promise.  A step changes the phase of at most one delivery, or lets *)
(* the provider take a message for it, or is a stutter.                    *)
(***************************************************************************)
PhaseMap == [r \in Delivery |-> PhaseOf(row[r])]
SentMap == [r \in Delivery |-> Messages(r)]

\* What each kind of row means.
LEMMA Phases ==
  /\ PhaseOf(None) = "open"
  /\ \A x \in Row :
       /\ x.state = "queued" => PhaseOf(x) = "open"
       /\ x.state = "sending" => PhaseOf(x) = "submitted"
       /\ x.state = "uncertain" => PhaseOf(x) = "unknown"
       /\ x.state \in {"accepted", "delivered", "read"} => PhaseOf(x) = "sent"
       /\ x.state = "failed" /\ x.provider_message_id # 0 => PhaseOf(x) = "sent"
       /\ x.state = "failed" /\ x.provider_message_id = 0 => PhaseOf(x) = "dropped"
       /\ x.state = "cancelled" => PhaseOf(x) = "dropped"
<1>1. PhaseOf(None) = "open"
  BY DEF PhaseOf
<1>2. ASSUME NEW x \in Row PROVE x # None
  BY DeliveryAssumption
<1> QED
  BY <1>1, <1>2 DEF PhaseOf

\* A step that leaves every phase and every message is a stutter of the promise.
LEMMA StutterOfPromise ==
  ASSUME \A r \in Delivery : PhaseOf(row'[r]) = PhaseOf(row[r]), accepted' = accepted
  PROVE  UNCHANGED <<PhaseMap, SentMap>>
  BY DEF PhaseMap, SentMap, Messages

\* A step that writes one row and sends nothing moves that delivery.
LEMMA MoveOfPromise ==
  ASSUME NEW r \in Delivery, \A q \in Delivery : q # r => row'[q] = row[q],
         accepted' = accepted
  PROVE  Promise!Move(r, PhaseOf(row[r]), PhaseOf(row'[r]))
<1>1. PhaseMap' = [PhaseMap EXCEPT ![r] = PhaseOf(row'[r])]
  BY DEF PhaseMap
<1>2. SentMap' = SentMap
  BY DEF SentMap, Messages
<1>3. PhaseMap[r] = PhaseOf(row[r])
  BY DEF PhaseMap
<1> QED
  BY <1>1, <1>2, <1>3 DEF Promise!Move, PhaseMap, SentMap

\* Nothing was sent for a delivery that the provider knows nothing of.
LEMMA NoMessages ==
  ASSUME NEW r \in Delivery, \A a \in Attempt : <<r, a>> \notin accepted
  PROVE  SentMap[r] = {}
  BY DEF SentMap, Messages

\* Approval queues, which the promise calls open.
LEMMA ApproveStutters ==
  ASSUME IInv, NEW r \in Delivery, NEW c \in Card, Approve(r, c)
  PROVE  UNCHANGED <<PhaseMap, SentMap>>
<1> DEFINE new == [card |-> c, content |-> card[c], attempt_count |-> 0,
                   provider_message_id |-> 0, state |-> "queued"]
<1>1. new \in Row /\ new.state = "queued"
  BY DeliveryAssumption DEF IInv, TypeOK, Row, Approve
<1>2. row[r] = None /\ accepted' = accepted
  BY DEF Approve
<1>3. row'[r] = new /\ \A q \in Delivery : q # r => row'[q] = row[q]
  BY DEF IInv, TypeOK, Approve
<1> HIDE DEF new
<1>4. PhaseOf(row'[r]) = PhaseOf(row[r])
  BY <1>1, <1>2, <1>3, Phases
<1> QED
  BY <1>2, <1>3, <1>4, StutterOfPromise

\* A drop withdraws an open delivery.
LEMMA DropWithdraws ==
  ASSUME IInv, NEW w \in Worker, NEW state \in {"failed", "cancelled"}, Drop(w, state)
  PROVE  \E D \in SUBSET Delivery : Promise!Withdraw(D)
<1> DEFINE r == worker[w].job
<1>1. /\ r \in Delivery /\ row[r] # None /\ row[r].state = "queued" /\ accepted' = accepted
      /\ row' = [row EXCEPT ![r] = [row[r] EXCEPT !.state = state]]
  BY WorkerTypes DEF IInv, Drop, In
<1>2. /\ row'[r] = [row[r] EXCEPT !.state = state]
      /\ \A q \in Delivery : q # r => row'[q] = row[q]
  BY <1>1 DEF IInv, TypeOK
<1>3. row[r] \in Row /\ row[r].provider_message_id = 0
  BY <1>1, RowTypes DEF IInv, MessageIdsAreTrue, In
<1>4. row'[r] \in Row /\ row'[r].state = state /\ row'[r].provider_message_id = 0
  BY <1>2, <1>3 DEF Row
<1>5. PhaseOf(row[r]) = "open" /\ PhaseOf(row'[r]) = "dropped"
  BY <1>1, <1>3, <1>4, Phases
<1> HIDE DEF r
<1>6. /\ \A d \in {r} : PhaseMap[d] = "open"
      /\ PhaseMap' = [d \in Delivery |-> IF d \in {r} THEN "dropped" ELSE PhaseMap[d]]
      /\ SentMap' = SentMap
  BY <1>1, <1>2, <1>5 DEF PhaseMap, SentMap, Messages
<1>7. Promise!Withdraw({r})
  BY <1>6 DEF Promise!Withdraw, PhaseMap, SentMap
<1> QED
  BY <1>1, <1>7

\* A claim submits.
LEMMA ClaimSubmits ==
  ASSUME IInv, NEW w \in Worker, Claim(w)
  PROVE  \E r \in Delivery : Promise!Submit(r)
<1> DEFINE r == worker[w].job
           n == row[r].attempt_count + 1
<1>1. /\ r \in Delivery /\ row[r] # None /\ row[r].state = "queued" /\ accepted' = accepted
      /\ row' = [row EXCEPT ![r] = [row[r] EXCEPT !.state = "sending", !.attempt_count = n]]
  BY WorkerTypes DEF IInv, Claim, In
<1>2. row[r] \in Row /\ n \in 0..MaxAttempts
  BY <1>1, RowTypes, DeliveryAssumption DEF IInv, AttemptsLeft, In
<1> HIDE DEF n
<1>3. /\ row'[r] = [row[r] EXCEPT !.state = "sending", !.attempt_count = n]
      /\ \A q \in Delivery : q # r => row'[q] = row[q]
  BY <1>1 DEF IInv, TypeOK
<1>4. row'[r] \in Row /\ row'[r].state = "sending"
  BY <1>2, <1>3 DEF Row
<1>5. PhaseOf(row[r]) = "open" /\ PhaseOf(row'[r]) = "submitted"
  BY <1>1, <1>2, <1>4, Phases
<1>6. Promise!Move(r, "open", "submitted")
  BY <1>1, <1>3, <1>5, MoveOfPromise
<1> QED
  BY <1>1, <1>6 DEF Promise!Submit

\* The provider takes at most one message, while the delivery is being sent or was
\* given up.
LEMMA PostTakes ==
  ASSUME IInv, NEW w \in Worker, Post(w)
  PROVE  UNCHANGED <<PhaseMap, SentMap>> \/ \E r \in Delivery : Promise!Take(r)
<1> DEFINE r == worker[w].job
           n == worker[w].attempt
<1>1. row' = row /\ (accepted' = accepted \/ accepted' = accepted \cup {<<r, n>>})
  BY PostCases
<1>2. CASE accepted' = accepted
  BY <1>1, <1>2, StutterOfPromise
<1>3. CASE accepted' = accepted \cup {<<r, n>>}
  <2>1. /\ r \in Delivery /\ n \in Attempt /\ In(r, {"sending", "uncertain"})
        /\ \A a \in Attempt : <<r, a>> \notin accepted
    BY WorkerTypes DEF IInv, Post, Holding, HolderOwnsAttempt, AcceptedIsLast
  <2>2. PhaseMap[r] \in {"submitted", "unknown"}
    <3>1. row[r] \in Row /\ row[r].state \in {"sending", "uncertain"}
      BY <2>1, RowTypes DEF IInv, In
    <3> QED
      BY <2>1, <3>1, Phases DEF PhaseMap
  <2>3. SentMap[r] = {} /\ PhaseMap' = PhaseMap
    BY <1>1, <2>1, NoMessages DEF PhaseMap
  <2> HIDE DEF r, n
  <2>4. SentMap' = [SentMap EXCEPT ![r] = {n}]
    BY <1>3, <2>1 DEF SentMap, Messages
  <2>5. Promise!Take(r)
    BY <2>1, <2>2, <2>3, <2>4 DEF Promise!Take, PhaseMap, SentMap
  <2> QED
    BY <2>1, <2>5
<1> QED
  BY <1>1, <1>2, <1>3

\* The record confirms, loses, reopens or gives up what was submitted, or comes too
\* late to change anything.
LEMMA FinishTells ==
  ASSUME IInv, NEW w \in Worker, Finish(w)
  PROVE  \/ UNCHANGED <<PhaseMap, SentMap>>
         \/ \E r \in Delivery : \/ Promise!Confirm(r) \/ Promise!Lose(r)
                                \/ Promise!Reopen(r) \/ Promise!GiveUp(r)
<1> DEFINE r == worker[w].job
           s == Recorded(w)
           id == worker[w].result.message_id
<1>1. r \in Delivery /\ worker[w].pc = "finish" /\ accepted' = accepted
  BY WorkerTypes DEF IInv, Finish
<1>2. CASE ~In(r, {"sending"})
  <2>1. row' = row
    BY <1>2 DEF Finish
  <2> QED
    BY <1>1, <2>1, StutterOfPromise
<1>3. CASE In(r, {"sending"})
  <2>1. row' = [row EXCEPT ![r] = [row[r] EXCEPT !.state = s, !.provider_message_id = id]]
    BY <1>3 DEF Finish, Recorded
  <2>2. /\ s \in {"queued", "accepted", "uncertain", "failed"} /\ id \in 0..MaxAttempts
        /\ id # 0 => s = "accepted" /\ <<r, worker[w].attempt>> \in accepted
        /\ s = "accepted" => id # 0
        /\ s \in {"queued", "failed"} => \A a \in Attempt : <<r, a>> \notin accepted
    BY <1>1, RecordedTruth
  <2>3. worker[w].attempt \in Attempt
    BY <1>1 DEF IInv, HolderOwnsAttempt, Holding
  <2>4. row[r] # None /\ row[r] \in Row /\ row[r].state = "sending"
    BY <1>1, <1>3, RowTypes DEF IInv, In
  <2> HIDE DEF s, id
  <2>5. /\ row'[r] = [row[r] EXCEPT !.state = s, !.provider_message_id = id]
        /\ \A q \in Delivery : q # r => row'[q] = row[q]
    BY <1>1, <2>1 DEF IInv, TypeOK
  <2>6. row'[r] \in Row /\ row'[r].state = s /\ row'[r].provider_message_id = id
    BY <2>2, <2>4, <2>5 DEF Row
  <2>7. Promise!Move(r, "submitted", PhaseOf(row'[r]))
    BY <1>1, <2>4, <2>5, MoveOfPromise, Phases
  <2>8. CASE s = "accepted"
    <3>1. PhaseOf(row'[r]) = "sent"
      BY <2>6, <2>8, Phases
    <3>2. SentMap[r] # {}
      BY <1>1, <2>2, <2>3, <2>8 DEF SentMap, Messages
    <3>3. Promise!Confirm(r)
      BY <2>7, <3>1, <3>2 DEF Promise!Confirm, SentMap
    <3> QED
      BY <1>1, <3>3
  <2>9. CASE s = "uncertain"
    <3>1. Promise!Lose(r)
      BY <2>6, <2>7, <2>9, Phases DEF Promise!Lose
    <3> QED
      BY <1>1, <3>1
  <2>10. CASE s \in {"queued", "failed"}
    <3>1. SentMap[r] = {} /\ id = 0
      BY <1>1, <2>2, <2>10, NoMessages
    <3>2. PhaseOf(row'[r]) = IF s = "queued" THEN "open" ELSE "dropped"
      BY <2>6, <2>10, <3>1, Phases
    <3>3. Promise!Reopen(r) \/ Promise!GiveUp(r)
      BY <2>7, <3>1, <3>2 DEF Promise!Reopen, Promise!GiveUp, SentMap
    <3> QED
      BY <1>1, <3>3
  <2> QED
    BY <2>2, <2>8, <2>9, <2>10
<1> QED
  BY <1>2, <1>3

\* The recovery of a lease loses what was submitted.
LEMMA RecoverLoses ==
  ASSUME IInv, NEW r \in Delivery, Recover(r)
  PROVE  Promise!Lose(r)
<1>1. row[r] # None /\ row[r] \in Row /\ row[r].state = "sending" /\ accepted' = accepted
  BY RowTypes DEF IInv, Recover, In
<1>2. row' = [row EXCEPT ![r] = [row[r] EXCEPT !.state = "uncertain"]]
  BY DEF Recover
<1>3. /\ row'[r] = [row[r] EXCEPT !.state = "uncertain"]
      /\ \A q \in Delivery : q # r => row'[q] = row[q]
  BY <1>2 DEF IInv, TypeOK
<1>4. row'[r] \in Row /\ row'[r].state = "uncertain"
  BY <1>1, <1>3 DEF Row
<1>5. PhaseOf(row[r]) = "submitted" /\ PhaseOf(row'[r]) = "unknown"
  BY <1>1, <1>4, Phases
<1> QED
  BY <1>1, <1>3, <1>5, MoveOfPromise DEF Promise!Lose

\* A callback tells of a message that was sent, also when it says that it failed.
LEMMA WebhookStutters ==
  ASSUME IInv, NEW r \in Delivery, NEW incoming \in WebhookStatus, Webhook(r, incoming)
  PROVE  UNCHANGED <<PhaseMap, SentMap>>
<1> DEFINE s == NextStatus(row[r].state, incoming)
<1>1. /\ row[r] # None /\ row[r] \in Row /\ row[r].provider_message_id # 0
      /\ accepted' = accepted
  BY RowTypes DEF IInv, Webhook
<1>2. row[r].state \in {"accepted", "delivered", "read", "failed"}
  BY <1>1 DEF IInv, MessageIdsAreTrue, In
<1>3. s \in {"accepted", "delivered", "read", "failed"}
  BY <1>2, NextStatusSent
<1>4. row' = [row EXCEPT ![r] = [row[r] EXCEPT !.state = s]]
  BY DEF Webhook
<1>5. /\ row'[r] = [row[r] EXCEPT !.state = s]
      /\ \A q \in Delivery : q # r => row'[q] = row[q]
  BY <1>4 DEF IInv, TypeOK
<1> HIDE DEF s
<1>6. /\ row'[r] \in Row /\ row'[r].state = s
      /\ row'[r].provider_message_id = row[r].provider_message_id
  BY <1>1, <1>3, <1>5 DEF Row
<1>7. PhaseOf(row'[r]) = "sent" /\ PhaseOf(row[r]) = "sent"
  BY <1>1, <1>2, <1>3, <1>6, Phases
<1> QED
  BY <1>1, <1>5, <1>7, StutterOfPromise

\* Every step is a step of the promise or a stutter.
LEMMA PromiseStep ==
  ASSUME IInv, [Next]_vars
  PROVE  [Promise!Next]_<<PhaseMap, SentMap>>
<1>1. ASSUME UNCHANGED <<row, accepted>> PROVE UNCHANGED <<PhaseMap, SentMap>>
  BY <1>1, StutterOfPromise
<1>2. ASSUME NEW c \in Card, CardStep(c) PROVE UNCHANGED <<PhaseMap, SentMap>>
  BY <1>1, <1>2, ApproveStutters DEF CardStep, ChangeCard
<1>3. ASSUME NEW w \in Worker, Tick(w) \/ Crash(w)
      PROVE  [Promise!Next]_<<PhaseMap, SentMap>>
  <2>1. CASE FailInvalid(w) \/ CancelStale(w)
    BY <2>1, DropWithdraws DEF FailInvalid, CancelStale, Promise!Next
  <2>2. CASE Claim(w)
    BY <2>2, ClaimSubmits DEF Promise!Next
  <2>3. CASE Post(w)
    BY <2>3, PostTakes DEF Promise!Next
  <2>4. CASE Finish(w)
    BY <2>4, FinishTells DEF Promise!Next
  <2>5. CASE (\E r \in Delivery : Candidate(w, r)) \/ Skip(w) \/ Upload(w) \/ Crash(w)
    BY <1>1, <2>5 DEF Candidate, Skip, Upload, Crash
  <2> QED
    BY <1>3, <2>1, <2>2, <2>3, <2>4, <2>5 DEF Tick
<1>4. ASSUME NEW r \in Delivery, Recover(r) \/ ProviderStep(r)
      PROVE  [Promise!Next]_<<PhaseMap, SentMap>>
  BY <1>4, RecoverLoses, WebhookStutters DEF ProviderStep, Promise!Next
<1> QED
  BY <1>1, <1>2, <1>3, <1>4 DEF Next, vars

\* Rows, workers, leases and callbacks of gift card deliveries keep the promise: at
\* most one message for each approval, none after it was dropped, and no way back
\* from an unknown or a sent message (approve, tick, recover, finish, webhook).
THEOREM KeepsPromise == Spec => PromiseKept
<1>1. Init => Promise!Init
  <2> SUFFICES ASSUME Init PROVE Promise!Init
    OBVIOUS
  <2>1. PhaseMap = [r \in Delivery |-> "open"]
    BY Phases DEF Init, PhaseMap
  <2>2. SentMap = [r \in Delivery |-> {}]
    BY DEF Init, SentMap, Messages
  <2> QED
    BY <2>1, <2>2 DEF Promise!Init, PhaseMap, SentMap
<1>2. IInv /\ [Next]_vars => [Promise!Next]_<<PhaseMap, SentMap>>
  BY PromiseStep
<1>3. QED
  BY <1>1, <1>2, Invariant, PTL DEF Spec, PromiseKept, Promise!Spec, PhaseMap, SentMap

\* A card is on its way at most once at a time, and every table has its type
\* (approve, the unique index gift_card_delivery_pending).
THEOREM OneDeliveryAtATime == Spec => [](TypeOK /\ OneAtATime)
<1>1. IInv => TypeOK /\ OneAtATime
  BY DEF IInv
<1> QED
  BY <1>1, Invariant, PTL

=============================================================================
