---------------------------- MODULE InvoiceLedger ----------------------------
(***************************************************************************)
(* The money of one invoice: its sale, edits, payments, collection,        *)
(* returns, cancellations and refunds, and the clients that repeat their   *)
(* requests when an answer is lost.                                        *)
(*                                                                         *)
(* Every request locks the invoice first and is one transaction, so the    *)
(* server's part is one step.  What makes requests hard is that they are   *)
(* lost, late and repeated, and that the money they find has been moved by *)
(* others.  The content of a request (amount, lines, refund plan) is drawn *)
(* when the server applies it; contents differ when their hashes do.       *)
(*                                                                         *)
(* Amounts are cents.  A till amount is checked rounded to cents and       *)
(* stored as it is, and the column rounds it again (StoredAs): what the    *)
(* ledger holds may be a cent off what was checked.                        *)
(*                                                                         *)
(* Left out: who paid and how among cash, card and Benefit (one channel of *)
(* external money, as in the code), VAT, stock, and pending versus ready   *)
(* (both are "open" here).                                                 *)
(***************************************************************************)
EXTENDS CreditAllocation, FiniteSetsExt

CONSTANTS
    Lines,      \* number of merchandise lines, in the order of their ids
    Garment,    \* the lines that are tailoring orders
    Card,       \* gift cards redeemed on the invoice
    Client,     \* open dialogs
    Request,    \* request ids
    Content,    \* request contents, up to their hash
    Sales,      \* bound: what is put on the invoice, first or by an edit
    MaxQty,     \* bound: quantity of a retail line
    MaxAdvances,\* bound: payments taken when the invoice is made
    None

ASSUME LedgerAssumption ==
    /\ Lines \in Nat \ {0} /\ Garment \subseteq 1..Lines /\ MaxQty \in Nat \ {0}
    /\ MaxAdvances \in Nat \ {0}
    /\ IsFiniteSet(Card)
    /\ None \notin Sales \cup Content \cup Request

VARIABLES
    sale,       \* invoices, orders and invoice_items
    status,     \* orders.status
    work,       \* what production has recorded about each garment
    paid,       \* sum of invoice_payments
    returned,   \* quantity of each line in invoice_return_lines
    credited,   \* amount of each line in invoice_return_lines
    credits,    \* sum of invoice_returns
    cancelled,  \* order_cancellations
    cash,       \* sum of external invoice_refunds
    restored,   \* gift card invoice_refunds
    recorded,   \* the content stored with each request id, per table
    network,    \* requests that were sent and may still arrive
    client      \* the dialogs

goods == <<sale, status, work>>
adjustments == <<returned, credited, credits, cancelled>>
refunds == <<cash, restored>>
requests == <<recorded, network, client>>
vars == <<goods, paid, adjustments, refunds, requests>>

Line == 1..Lines
Table == {"payment", "adjustment", "refund"}

Sale == [price: [Line -> Nat], urgent: [Line -> Nat], sold: [Line -> 1..MaxQty],
         gross: Nat, vouchers: Nat, tender: Nat, redeemed: [Card -> Nat]]

Total(s) == s.gross + Sum(s.urgent) + s.vouchers

\* What n till amounts may be stored as whose sum was checked as counted cents.
\* Half cents are rounded up in each row; in the sum, which is a float, either way.
StoredAs(counted, n) ==
    {stored \in 0..(counted + n) :
        2 * (stored - counted) <= n + 1 /\ 2 * (counted - stored) < n + 1}

\* Garments are single pieces, retail lines have no urgency fee, a discount
\* never makes a total negative, and gift cards never overpay it.  The sale counts
\* their sum (tender), the redemptions are rows of their own (redeemed).
ValidSale(s) ==
    /\ s \in Sale
    /\ \A g \in Garment : s.sold[g] = 1
    /\ \A l \in Line \ Garment : s.urgent[l] = 0
    /\ s.gross <= Sum(s.price)
    /\ s.tender <= Total(s)
    /\ MapThenSumSet(LAMBDA c : s.redeemed[c], Card) \in StoredAs(s.tender, Cardinality(Card))

ASSUME SalesAssumption == \A s \in Sales : ValidSale(s)

Limit == CreditLimits(sale.price, sale.urgent, sale.gross)

\* The view invoice_balances.
Owed == Total(sale) - credits
HeldExternally == paid - cash
Held == HeldExternally + sale.tender - MapThenSumSet(LAMBDA c : restored[c], Card)
Excess(a, b) == IF a > b THEN a - b ELSE 0

\* Mutant: credits do not lower what can be paid.
BalanceOfSale == Excess(Total(sale), Held)

BalanceDue == Excess(Owed, Held)
RefundDue == Excess(Held, Owed)

Made == sale # None
Closed(g) == returned[g] > 0
Active(g) == ~Closed(g)

Message == [table: Table, id: Request, content: Content]
Dialog == [pc: {"closed", "open", "waiting", "ok", "refused"}, message: Message \cup {None}]
ClosedDialog == [pc |-> "closed", message |-> None]

TypeOK ==
    /\ sale \in Sales \cup {None}
    /\ status \in [Garment -> {"open", "collected"}]
    /\ work \in [Garment -> {"none", "touched", "started"}]
    /\ {paid, credits, cash} \subseteq Nat
    /\ returned \in [Line -> 0..MaxQty] /\ credited \in [Line -> Nat]
    /\ cancelled \subseteq Garment
    /\ restored \in [Card -> Nat]
    /\ recorded \in [Table -> [Request -> Content \cup {None}]]
    /\ network \subseteq Message
    /\ client \in [Client -> Dialog]

Init ==
    /\ sale = None /\ status = [g \in Garment |-> "open"]
    /\ work = [g \in Garment |-> "none"]
    /\ paid = 0 /\ credits = 0 /\ cash = 0
    /\ returned = [l \in Line |-> 0] /\ credited = [l \in Line |-> 0]
    /\ cancelled = {} /\ restored = [c \in Card |-> 0]
    /\ recorded = [t \in Table |-> [r \in Request |-> None]]
    /\ network = {} /\ client = [c \in Client |-> ClosedDialog]

-----------------------------------------------------------------------------
(* The sale and the shop floor. *)

\* n advances, each at least a cent; their sum, as it is counted, never exceeds what
\* gift cards leave to pay.
CreateInvoice(s, n, counted) ==
    /\ ~Made /\ counted <= Total(s) - s.tender
    /\ sale' = s /\ paid' \in {a \in StoredAs(counted, n) : a >= n}
    /\ UNCHANGED <<status, work, adjustments, refunds, requests>>

HasAdjustments ==
    \E r \in Request : recorded["adjustment"][r] # None \/ recorded["refund"][r] # None

\* Mutant: the new total is not compared with what was paid.
EditableFreely(s) == ~HasAdjustments /\ \A g \in Garment : status[g] = "open" /\ work[g] = "none"

\* An edit replaces every line and the gift card tender, and keeps the payments.
Editable(s) ==
    /\ ~HasAdjustments
    /\ paid <= Total(s) - s.tender
    /\ \A g \in Garment : status[g] = "open" /\ work[g] = "none"

UpdateInvoice(s) ==
    /\ Made /\ Editable(s)
    /\ sale' = s
    /\ UNCHANGED <<status, work, paid, adjustments, refunds, requests>>

\* Stages, assignees and repairs; "started" after work was done or a repair.
Produce(g, w) ==
    /\ Made /\ Active(g)
    /\ work' = [work EXCEPT ![g] = w]
    /\ UNCHANGED <<sale, status, paid, adjustments, refunds, requests>>

\* One payment at the till.
Pay(amount) == amount <= BalanceDue /\ paid' \in {paid + a : a \in StoredAs(amount, 1)}

\* Hands one garment out, with a payment or without.
CollectOrder(g, amount) ==
    /\ Made /\ Active(g) /\ status[g] = "open"
    /\ status' = [status EXCEPT ![g] = "collected"]
    /\ IF amount > 0 THEN Pay(amount) ELSE UNCHANGED paid
    /\ UNCHANGED <<sale, work, adjustments, refunds, requests>>

\* Mutant: cancelled garments are handed out with the others.
HandsOutAll == Garment

\* Collecting the whole invoice leaves cancelled garments alone.
HandedOut == Garment \ cancelled

\* Collects everything and settles the balance, as the view has it, in one payment.
CollectInvoice ==
    /\ Made
    /\ status' = [g \in Garment |-> IF g \in HandedOut THEN "collected" ELSE status[g]]
    /\ paid' = paid + BalanceDue
    /\ UNCHANGED <<sale, work, adjustments, refunds, requests>>

-----------------------------------------------------------------------------
(* Dialogs and the network. *)

Fresh(r) == /\ \A t \in Table : recorded[t][r] = None
            /\ \A m \in network : m.id # r
            /\ \A d \in Client : client[d].pc # "closed" => client[d].message.id # r

\* A new dialog has a new id and keeps it as long as it is open.
Open(d, m) ==
    /\ Made /\ client[d].pc = "closed" /\ Fresh(m.id)
    /\ client' = [client EXCEPT ![d] = [pc |-> "open", message |-> m]]
    /\ UNCHANGED <<goods, paid, adjustments, refunds, recorded, network>>

Send(d) ==
    /\ client[d].pc = "open"
    /\ client' = [client EXCEPT ![d].pc = "waiting"]
    /\ network' = network \cup {client[d].message}
    /\ UNCHANGED <<goods, paid, adjustments, refunds, recorded>>

\* No answer arrived, or it was a refusal; the input may be changed.
Retry(d, content) ==
    /\ client[d].pc \in {"waiting", "refused"}
    /\ client' = [client EXCEPT
           ![d] = [pc |-> "open", message |-> [client[d].message EXCEPT !.content = content]]]
    /\ UNCHANGED <<goods, paid, adjustments, refunds, recorded, network>>

Close(d) ==
    /\ client[d].pc \in {"open", "ok", "refused"}
    /\ client' = [client EXCEPT ![d] = ClosedDialog]
    /\ UNCHANGED <<goods, paid, adjustments, refunds, recorded, network>>

\* The answer to m reaches the dialog that waits for it, or is lost.
Answer(m, answer) ==
    \/ UNCHANGED client
    \/ \E d \in Client :
         /\ client[d].pc = "waiting" /\ client[d].message = m
         /\ client' = [client EXCEPT ![d].pc = answer]

-----------------------------------------------------------------------------
(* The server.  A message may arrive any number of times.                  *)

Stored(m) == recorded[m.table][m.id]

Record(m) ==
    /\ recorded' = [recorded EXCEPT ![m.table][m.id] = m.content]
    /\ Answer(m, "ok")
    /\ UNCHANGED network

Replay(m) ==
    /\ Stored(m) = m.content
    /\ Answer(m, "ok")
    /\ UNCHANGED <<goods, paid, adjustments, refunds, recorded, network>>

\* Mutant: today's balance is checked before a repeated request is recognised.
RefusedByBalance(m) == BalanceDue = 0 \/ Stored(m) # m.content

\* A known id with another content is a conflict; an unknown one may ask for
\* something that is not, or no longer, possible.
Refused(m) == Stored(m) # m.content

Refuse(m) ==
    /\ Refused(m)
    /\ Answer(m, "refused")
    /\ UNCHANGED <<goods, paid, adjustments, refunds, recorded, network>>

RecordPayment(m, amount) ==
    /\ m.table = "payment" /\ Stored(m) = None
    /\ Pay(amount)
    /\ Record(m)
    /\ UNCHANGED <<goods, adjustments, refunds>>

\* Mutant: the plan may spend money that was already paid back.
TenderTaken(external, cards) ==
    /\ external <= paid
    /\ \A c \in Card : cards[c] <= sale.redeemed[c]

\* No tender pays back more than the invoice still holds of it.
TenderHeld(external, cards) ==
    /\ external <= HeldExternally
    /\ \A c \in Card : cards[c] <= sale.redeemed[c] - restored[c]

PayOut(external, cards) ==
    /\ TenderHeld(external, cards)
    /\ cash' = cash + external
    /\ restored' = [c \in Card |-> restored[c] + cards[c]]

\* Credits the lines, and pays exactly what is then due, now or later.
Credit(m, quantity, amount) ==
    /\ m.table = "adjustment" /\ Stored(m) = None
    /\ returned' = [l \in Line |-> returned[l] + quantity[l]]
    /\ credited' = [l \in Line |-> credited[l] + amount[l]]
    /\ credits' = credits + Sum(amount)
    /\ LET due == Excess(Held, Owed - Sum(amount)) IN
       \/ UNCHANGED refunds
       \/ \E external \in 0..due, cards \in [Card -> 0..due] :
            /\ external + MapThenSumSet(LAMBDA c : cards[c], Card) = due
            /\ PayOut(external, cards)
    /\ Record(m)
    /\ UNCHANGED <<goods, paid>>

\* Garments are returned whole, once, after they were collected.
Returnable(l, q) ==
    /\ returned[l] + q <= sale.sold[l]
    /\ l \in Garment => Active(l) /\ status[l] = "collected"

CreateReturn(m, quantity) ==
    /\ \E l \in Line : quantity[l] > 0
    /\ \A l \in Line : quantity[l] > 0 => Returnable(l, quantity[l])
    /\ Credit(m, quantity, [l \in Line |->
           IF quantity[l] = 0 THEN 0
           ELSE PartCredit(Limit[l], sale.sold[l], credited[l], returned[l], quantity[l])])
    /\ UNCHANGED cancelled

\* What may be kept of the price: nothing before production starts.
Retainable(g, charge) == charge <= Limit[g] /\ (work[g] # "started" => charge = 0)

CancelOrder(m, g, charge) ==
    /\ Active(g) /\ status[g] = "open" /\ Retainable(g, charge)
    /\ cancelled' = cancelled \cup {g}
    /\ Credit(m, [l \in Line |-> IF l = g THEN 1 ELSE 0],
                 [l \in Line |-> IF l = g THEN Limit[g] - charge ELSE 0])

\* Settles credit that was left for later, in one tender.
CreateRefund(m, external, cards) ==
    /\ m.table = "refund" /\ Stored(m) = None
    /\ external + MapThenSumSet(LAMBDA c : cards[c], Card) \in 1..RefundDue
    /\ Cardinality({c \in Card : cards[c] > 0}) + (IF external > 0 THEN 1 ELSE 0) = 1
    /\ PayOut(external, cards)
    /\ Record(m)
    /\ UNCHANGED <<goods, paid, adjustments>>

-----------------------------------------------------------------------------
SaleStep ==
    \E s \in Sales :
       \/ UpdateInvoice(s)
       \/ \E n \in 0..MaxAdvances, counted \in 0..Total(s) : CreateInvoice(s, n, counted)

ShopStep ==
    /\ Made
    /\ \/ \E g \in Garment, w \in {"none", "touched", "started"} : Produce(g, w)
       \/ \E g \in Garment : \E amount \in 0..BalanceDue : CollectOrder(g, amount)
       \/ CollectInvoice

ClientStep(d) ==
    \/ \E m \in Message : Open(d, m)
    \/ Send(d) \/ Close(d)
    \/ \E content \in Content : Retry(d, content)

ServerStep(m) ==
    \/ Replay(m) \/ Refuse(m)
    \/ \E amount \in 1..BalanceDue : RecordPayment(m, amount)
    \/ \E quantity \in [Line -> 0..MaxQty] : CreateReturn(m, quantity)
    \/ \E g \in Garment : \E charge \in 0..Limit[g] : CancelOrder(m, g, charge)
    \/ \E external \in 0..RefundDue, cards \in [Card -> 0..RefundDue] :
          CreateRefund(m, external, cards)

Next ==
    \/ SaleStep \/ ShopStep
    \/ \E d \in Client : ClientStep(d)
    \/ \E m \in network : ServerStep(m)

Spec == Init /\ [][Next]_vars

-----------------------------------------------------------------------------
(* Properties. *)

\* By how much payments and gift cards overpay the sale, and by how much the
\* rounding of till amounts lets them.
Overpaid == Excess(paid + sale.tender, Total(sale))
Slack == (MaxAdvances + 1) \div 2

\* Nobody gets money back that was not credited, but for cents that were overpaid:
\* what was refunded and what is still due never exceed the credits and the
\* overpayment, and however the invoice was paid, edited and paid again, that is no
\* more than what rounding the advances, or one payment, can make of it
\* (returns/service.rs validate_refund, invoices/service.rs validate_payment_amount,
\* validate_kept_payments, collect_invoice); and no channel pays back more than it
\* took, even when one adjustment pays several tenders (apply_refund_plan).
RefundsAreCovered ==
    Made => /\ Overpaid <= Slack
            /\ cash + MapThenSumSet(LAMBDA c : restored[c], Card) + RefundDue
                 <= credits + Overpaid
            /\ cash <= paid
            /\ \A c \in Card : restored[c] <= sale.redeemed[c]

\* What can be credited for the lines adds up to the discounted sale, and each
\* line has its exact share but for less than a cent (allocate_credits).
\* Returning a line in any number of parts credits what returning the same
\* quantity at once does, and all lines together the discounted sale: rounding
\* makes and loses nothing (line_credit).
CreditsAreExact ==
    Made =>
      LET gross(l) == Limit[l] - sale.urgent[l] IN
      /\ Sum(Limit) = sale.gross + Sum(sale.urgent)
      /\ \A l \in Line :
           /\ gross(l) \in 0..sale.price[l]
           /\ Sum(sale.price) > 0 =>
                /\ (gross(l) - 1) * Sum(sale.price) < sale.price[l] * sale.gross
                /\ sale.price[l] * sale.gross < (gross(l) + 1) * Sum(sale.price)
      /\ credits = Sum(credited)
      /\ \A l \in Line : l \notin cancelled =>
           credited[l] = Share(returned[l], sale.sold[l], Limit[l])
      /\ (cancelled = {} /\ \A l \in Line : returned[l] = sale.sold[l])
            => credits = sale.gross + Sum(sale.urgent)

\* Outside the edit of the sale, money moves towards a settled invoice: it is taken
\* only while something is owed, and passes that by no more than the cent its storing
\* may add; it is paid back only while something is over, and stops at what is owed.
MoneyMovesToBalance ==
    [][Made /\ Held' # Held /\ sale' = sale =>
         \/ Held < Owed /\ Held < Held' /\ Held' <= Owed' + 1
         \/ Owed' <= Held' /\ Held' < Held]_vars

\* A garment that was cancelled or returned keeps its status, its credit and its
\* production history (docs/returns-and-refunds.md, "Closed orders").
ClosedGarmentsStayClosed ==
    [][Made => \A g \in Garment : Closed(g) =>
         /\ Closed(g)' /\ credited'[g] = credited[g]
         /\ status'[g] = status[g] /\ work'[g] = work[g]]_vars

\* A dialog is told that its request failed only if it was not recorded, and that
\* it succeeded only if exactly this content was, however often it was sent
\* (docs/payment-retries.md).
AnswersAreTrue ==
    [][\A d \in Client : LET m == client[d].message IN
         client[d].pc = "waiting" =>
           /\ client'[d].pc = "ok" => recorded'[m.table][m.id] = m.content
           /\ client'[d].pc = "refused" => recorded[m.table][m.id] # m.content]_vars

-----------------------------------------------------------------------------
(* The inductive invariant: why the properties hold.                        *)

\* Payments and gift cards overpay the sale by cents at most, whatever is credited.
NotOverpaid == Made => paid + sale.tender <= Total(sale) + Slack

\* What was paid back was credited or overpaid, and was held by the tender that paid it.
TendersAreCovered ==
    Made => /\ cash + MapThenSumSet(LAMBDA c : restored[c], Card) <= credits + Overpaid
            /\ cash <= paid
            /\ \A c \in Card : restored[c] <= sale.redeemed[c]

\* The books agree on what each line was credited.
CreditsAreBooked ==
    Made => /\ credits = Sum(credited)
            /\ \A l \in Line : l \notin cancelled =>
                 credited[l] = Share(returned[l], sale.sold[l], Limit[l])

\* An invoice that can be edited has nothing to lose.
NothingIsBack ==
    ~HasAdjustments =>
       /\ \A l \in Line : returned[l] = 0 /\ credited[l] = 0
       /\ credits = 0 /\ cancelled = {} /\ cash = 0
       /\ \A c \in Card : restored[c] = 0

\* Dialogs are of an invoice that was made.
DialogsAsk == \A d \in Client : client[d].pc # "closed" => Made /\ client[d].message \in Message
NothingBeforeTheSale == ~Made => network = {} /\ ~HasAdjustments

\* Garments are closed by a cancellation, or by a return after their collection.
ClosedHow ==
    \A g \in Garment :
       /\ g \in cancelled => Closed(g)
       /\ Closed(g) /\ g \notin cancelled => status[g] = "collected"

IInv == TypeOK /\ NotOverpaid /\ TendersAreCovered /\ CreditsAreBooked
        /\ NothingIsBack /\ DialogsAsk /\ NothingBeforeTheSale /\ ClosedHow

=============================================================================
