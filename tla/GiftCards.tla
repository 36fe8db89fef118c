----------------------------- MODULE GiftCards -----------------------------
(***************************************************************************)
(* Gift cards as money: issue, sale and resale on invoices, redemption,    *)
(* refund to a card, replacement by a new code, voiding.                   *)
(*                                                                         *)
(* A card is identified by its code.  Requests that touch several cards    *)
(* (creating and editing an invoice, refunding to cards) run one           *)
(* transaction: they lock invoice and card rows one at a time (SELECT ...  *)
(* FOR UPDATE), see their own writes and what others have committed, and   *)
(* commit or roll back as a whole.  Requests that lock one card and commit *)
(* are one step.                                                           *)
(*                                                                         *)
(* Left out: expiry dates and invoice totals, which can only refuse what   *)
(* these actions do (a refusal is a Rollback), names and phones.           *)
(***************************************************************************)
EXTENDS Integers

CONSTANTS
    Code,       \* gift card codes, issued or still to be generated
    Invoice,    \* invoice ids
    Till,       \* concurrent requests
    MaxFace,    \* bound: the largest face value, in units
    None

ASSUME FaceAssumption == MaxFace \in Nat \ {0}
ASSUME TillAssumption == None \notin Till \cup Code \cup Invoice

VARIABLES
    cards,      \* the gift_cards table, as committed
    invoices,   \* what each invoice sold, redeemed and refunded, as committed
    delivered,  \* codes in gift_card_deliveries
    lock,       \* row locks: the till that holds the row, or None
    tx          \* what each till's transaction has read and written

vars == <<cards, invoices, delivered, lock, tx>>

Amount == 1..MaxFace

\* The table has no CHECK on its amounts: that they are not negative is up to
\* the code.  A refund can lift the balance of a replacement above its face.
Card == [exists: BOOLEAN, face: Nat, balance: Nat, active: BOOLEAN,
         replaces: Code \cup {None}]
NoCard == [exists |-> FALSE, face |-> 0, balance |-> 0, active |-> FALSE, replaces |-> None]
NewCard(amount) == [NoCard EXCEPT !.exists = TRUE, !.face = amount, !.balance = amount,
                                  !.active = TRUE]

Row == [exists: BOOLEAN, sold: SUBSET Code, redeemed: [Code -> 0..MaxFace],
        refunded: [Code -> 0..MaxFace]]
NoRow == [exists |-> FALSE, sold |-> {}, redeemed |-> [c \in Code |-> 0],
          refunded |-> [c \in Code |-> 0]]

(***************************************************************************)
(* A transaction.  row is the invoice it will commit, draft the cards it   *)
(* has written.  While it follows replacements, at is the next code to     *)
(* lock, and code and amount say what it is redeeming or paying back.      *)
(***************************************************************************)
IdleTx == [pc |-> "idle", invoice |-> None, row |-> NoRow, draft |-> <<>>,
           todo |-> {}, at |-> None, code |-> None, amount |-> 0]

Tx(written) ==
    [pc: {"idle", "lock", "refund", "sell", "redeem", "tender"},
     invoice: Invoice \cup {None}, row: Row, draft: [written -> Card],
     todo: SUBSET Code, at: Code \cup {None}, code: Code \cup {None}, amount: 0..MaxFace]

View(t) == [c \in Code |-> IF c \in DOMAIN tx[t].draft THEN tx[t].draft[c] ELSE cards[c]]
Write(x, c, card) ==
    [x EXCEPT !.draft = [d \in DOMAIN x.draft \cup {c} |-> IF d = c THEN card ELSE x.draft[d]]]

\* The invoice row is locked, so what was committed is what was read.
OldTender(x) == {c \in Code : invoices[x.invoice].redeemed[c] > 0}
OldSales(x) == invoices[x.invoice].sold

Replacements(table, c) == {n \in Code : table[n].exists /\ table[n].replaces = c}

\* A code no committed or running transaction uses; generate_code retries
\* until it finds one.
Fresh(c) == ~cards[c].exists /\ \A t \in Till : c \notin DOMAIN tx[t].draft

\* Mutant: rows are read without FOR UPDATE.
FreeAlways(r, t) == lock[r] \in Till \cup {None}

\* FOR UPDATE waits until the row is free.
Free(r, t) == lock[r] \in {None, t}

TypeOK ==
    /\ cards \in [Code -> Card]
    /\ invoices \in [Invoice -> Row]
    /\ delivered \subseteq Code
    /\ lock \in [Code \cup Invoice -> Till \cup {None}]
    /\ DOMAIN tx = Till
    /\ \A t \in Till : DOMAIN tx[t].draft \subseteq Code
                        /\ tx[t] \in Tx(DOMAIN tx[t].draft)

Init ==
    /\ cards = [c \in Code |-> NoCard]
    /\ invoices = [i \in Invoice |-> NoRow]
    /\ delivered = {}
    /\ lock = [r \in Code \cup Invoice |-> None]
    /\ tx = [t \in Till |-> IdleTx]

-----------------------------------------------------------------------------
(* Requests that lock one card and commit. *)

\* Credit issued without an invoice.
Issue(c, amount) ==
    /\ Fresh(c)
    /\ cards' = [cards EXCEPT ![c] = NewCard(amount)]
    /\ UNCHANGED <<invoices, delivered, lock, tx>>

\* Void or restore.
UpdateCard(c, active) ==
    /\ cards[c].exists /\ lock[c] = None
    /\ active => Replacements(cards, c) = {}
    /\ cards' = [cards EXCEPT ![c].active = active]
    /\ UNCHANGED <<invoices, delivered, lock, tx>>

\* The whole balance moves to a new code and the old one is retired.
Replace(c, n) ==
    /\ cards[c].exists /\ lock[c] = None /\ Fresh(n) /\ n # c
    /\ Replacements(cards, c) = {}
    /\ cards[c].active /\ cards[c].balance > 0
    /\ cards' = [cards EXCEPT ![n] = [NewCard(cards[c].balance) EXCEPT !.replaces = c],
                              ![c].balance = 0, ![c].active = FALSE]
    /\ UNCHANGED <<invoices, delivered, lock, tx>>

\* The code is queued to be sent to its recipient.
ApproveDelivery(c) ==
    /\ cards[c].exists /\ lock[c] = None
    /\ cards[c].active /\ cards[c].balance > 0
    /\ delivered' = delivered \cup {c}
    /\ UNCHANGED <<cards, invoices, lock, tx>>

-----------------------------------------------------------------------------
(* Invoices and refunds. *)

Begin(t, i, pc, todo) ==
    /\ tx[t].pc = "idle"
    /\ tx' = [tx EXCEPT ![t] = [IdleTx EXCEPT !.pc = pc, !.invoice = i, !.todo = todo,
                                !.row = [invoices[i] EXCEPT !.exists = TRUE]]]
    /\ UNCHANGED <<cards, invoices, delivered>>

CreateInvoice(t, i) ==
    /\ ~invoices[i].exists
    /\ \A u \in Till : tx[u].invoice # i
    /\ Begin(t, i, "sell", {})
    /\ UNCHANGED lock

\* An invoice with refunds cannot be edited.
Editable(i) == invoices[i].exists /\ \A c \in Code : invoices[i].refunded[c] = 0

EditInvoice(t, i) ==
    /\ Editable(i) /\ lock[i] = None
    /\ Begin(t, i, "lock", invoices[i].sold \cup {c \in Code : invoices[i].redeemed[c] > 0})
    /\ lock' = [lock EXCEPT ![i] = t]

RefundInvoice(t, i) ==
    /\ invoices[i].exists /\ lock[i] = None
    /\ Begin(t, i, "tender", {})
    /\ lock' = [lock EXCEPT ![i] = t]

\* An edit locks every card the invoice sold or redeemed, in no given order.
LockCard(t, c) ==
    /\ tx[t].pc = "lock" /\ c \in tx[t].todo /\ Free(c, t)
    /\ lock' = [lock EXCEPT ![c] = t]
    /\ tx' = [tx EXCEPT ![t].todo = @ \ {c}]
    /\ UNCHANGED <<cards, invoices, delivered>>

\* Mutant: a code that was sent to its recipient may be rebuilt.
UnspentOnly(t, c) ==
    /\ \A i \in Invoice : invoices[i].redeemed[c] = 0
    /\ Replacements(View(t), c) = {}

\* A sold card can be rebuilt when it was not sent, redeemed or replaced.
Untouched(t, c) ==
    /\ c \notin delivered
    /\ \A i \in Invoice : invoices[i].redeemed[c] = 0
    /\ Replacements(View(t), c) = {}

CheckSales(t) ==
    /\ tx[t].pc = "lock" /\ tx[t].todo = {}
    /\ \A c \in OldSales(tx[t]) : Untouched(t, c)
    /\ tx' = [tx EXCEPT ![t].pc = "refund", ![t].todo = OldTender(tx[t])]
    /\ UNCHANGED <<cards, invoices, delivered, lock>>

-----------------------------------------------------------------------------
(* Redeeming and paying back. *)

\* Mutant: the balance is not checked.
RedeemableIfActive(card, amount) == card.active

Redeemable(card, amount) == card.active /\ card.balance >= amount

\* Mutant: money returns to the code it was taken from, even if replaced.
OriginalCode(t, x, c) == {}

\* Mutant: every redemption goes on to the replacement.
LastReplacement(t, x, c) == Replacements(View(t), c)

\* Money goes to and comes from the last replacement of a code; a code that
\* is new to the invoice stands for itself.
Successor(t, x, c) ==
    IF x.pc = "redeem" /\ x.code \notin OldTender(x) THEN {} ELSE Replacements(View(t), c)

\* Pays x.amount back to card c, or takes it from there.
PaidBack(t, x, c) ==
    LET paid == Write(x, c, [View(t)[c] EXCEPT !.balance = @ + x.amount])
    IN IF x.pc = "tender" THEN [paid EXCEPT !.row.refunded[x.code] = @ + x.amount]
                          ELSE [paid EXCEPT !.todo = @ \ {x.code}]
Taken(t, x, c) ==
    [Write(x, c, [View(t)[c] EXCEPT !.balance = @ - x.amount])
        EXCEPT !.row.redeemed[x.code] = x.amount]
Settled(t, x, c) ==
    [IF x.pc = "redeem" THEN Taken(t, x, c) ELSE PaidBack(t, x, c)
        EXCEPT !.at = None, !.code = None, !.amount = 0]

\* Locks c for transaction x of t, and goes on to its replacement or settles.
Reach(t, x, c) ==
    /\ Free(c, t)
    /\ lock' = [lock EXCEPT ![c] = t]
    /\ IF Successor(t, x, c) # {}
       THEN \E n \in Successor(t, x, c) : tx' = [tx EXCEPT ![t] = [x EXCEPT !.at = n]]
       ELSE /\ x.pc = "redeem" => Redeemable(View(t)[c], x.amount)
            /\ tx' = [tx EXCEPT ![t] = Settled(t, x, c)]
    /\ UNCHANGED <<cards, invoices, delivered>>

Follow(t) == tx[t].at # None /\ Reach(t, tx[t], tx[t].at)

\* An edit first pays back everything the invoice had redeemed.
PayBack(t, c) ==
    /\ tx[t].pc = "refund" /\ tx[t].at = None /\ c \in tx[t].todo
    /\ Reach(t, [tx[t] EXCEPT !.code = c, !.amount = invoices[tx[t].invoice].redeemed[c]], c)

\* Then it deletes its redemptions and the cards it sold.
Rebuild(t) ==
    LET x == tx[t] IN
    /\ x.pc = "refund" /\ x.todo = {}
    /\ tx' = [tx EXCEPT ![t] =
                [x EXCEPT !.pc = "sell",
                          !.row.sold = {}, !.row.redeemed = NoRow.redeemed,
                          !.draft = [c \in DOMAIN x.draft \cup OldSales(x) |->
                                       IF c \in OldSales(x) THEN NoCard ELSE x.draft[c]]]]
    /\ UNCHANGED <<cards, invoices, delivered, lock>>

\* Sells a card under a new code, or again under a code this invoice had sold.
Sell(t, c, amount) ==
    /\ tx[t].pc = "sell"
    /\ Fresh(c) \/ (c \in OldSales(tx[t]) /\ ~View(t)[c].exists)
    /\ tx' = [tx EXCEPT ![t] = [Write(tx[t], c, NewCard(amount))
                                  EXCEPT !.row.sold = @ \cup {c}]]
    /\ UNCHANGED <<cards, invoices, delivered, lock>>

Redeem(t, c, amount) ==
    LET x == [tx[t] EXCEPT !.pc = "redeem", !.code = c, !.amount = amount] IN
    /\ tx[t].pc \in {"sell", "redeem"} /\ tx[t].at = None
    /\ View(t)[c].exists /\ tx[t].row.redeemed[c] = 0
    /\ Reach(t, x, c)

\* Mutant: the amount already refunded to the card is forgotten.
RefundUpToRedemption(x, c, amount) == amount <= x.row.redeemed[c]

\* A refund to a card is capped by what it paid on this invoice.
Refundable(x, c, amount) == amount <= x.row.redeemed[c] - x.row.refunded[c]

RefundCard(t, c, amount) ==
    /\ tx[t].pc = "tender" /\ tx[t].at = None
    /\ Refundable(tx[t], c, amount)
    /\ Reach(t, [tx[t] EXCEPT !.code = c, !.amount = amount], c)

-----------------------------------------------------------------------------
(* The end of a transaction. *)

End(t) ==
    /\ lock' = [r \in Code \cup Invoice |-> IF lock[r] = t THEN None ELSE lock[r]]
    /\ tx' = [tx EXCEPT ![t] = IdleTx]
    /\ UNCHANGED delivered

Commit(t) ==
    /\ tx[t].pc \in {"sell", "redeem", "tender"} /\ tx[t].at = None
    /\ cards' = View(t)
    /\ invoices' = [invoices EXCEPT ![tx[t].invoice] = tx[t].row]
    /\ End(t)

\* A refused input, a lost connection, a crash or a deadlock victim.
Rollback(t) ==
    /\ tx[t].pc # "idle"
    /\ UNCHANGED <<cards, invoices>>
    /\ End(t)

CardStep ==
    \E c \in Code :
       \/ \E amount \in Amount : Issue(c, amount)
       \/ \E active \in BOOLEAN : UpdateCard(c, active)
       \/ \E n \in Code : Replace(c, n)
       \/ ApproveDelivery(c)

TillStep(t) ==
    \/ \E i \in Invoice : CreateInvoice(t, i) \/ EditInvoice(t, i) \/ RefundInvoice(t, i)
    \/ \E c \in Code : LockCard(t, c) \/ PayBack(t, c)
    \/ \E c \in Code, amount \in Amount :
          Sell(t, c, amount) \/ Redeem(t, c, amount) \/ RefundCard(t, c, amount)
    \/ CheckSales(t) \/ Follow(t) \/ Rebuild(t)
    \/ Commit(t) \/ Rollback(t)

Next == CardStep \/ \E t \in Till : TillStep(t)

Spec == Init /\ [][Next]_vars

-----------------------------------------------------------------------------
(* Properties.  That no money is made or lost is in GiftCardsPromise.       *)

Replaced(c) == Replacements(cards, c) # {}

\* A code that was replaced stays worthless and inactive whatever is refunded,
\* edited or restored later (repository.rs transfer_replacement, lock_current_card),
\* and pays only on an invoice it had paid on before (service.rs
\* redeem_for_invoice_edit): new tender needs the current code.
RetiredCodesStayRetired ==
    /\ [](\A c \in Code : Replaced(c) => cards[c].balance = 0 /\ ~cards[c].active)
    /\ [][\A i \in Invoice, c \in Code :
            Replaced(c) /\ invoices'[i].redeemed[c] > 0 => invoices[i].redeemed[c] > 0]_vars

\* A code that was sent to its recipient keeps existing with the face value
\* that was sent (invoices/service.rs update_invoice, delivery.rs approve).
SentCodesAreKept ==
    [][\A c \in delivered : cards'[c].exists /\ cards'[c].face = cards[c].face]_vars

\* No card gets more back from an invoice than it paid there, even when the
\* invoice is edited in between (returns/service.rs create_refund).
RefundsAreCovered ==
    \A i \in Invoice, c \in Code : invoices[i].refunded[c] <= invoices[i].redeemed[c]

\* Only a restore makes a void code spendable again (docs/roles.md, "void/restore").
VoidCodesStayVoid ==
    [][\A c \in Code : cards[c].exists /\ ~cards[c].active /\ cards'[c].active
         => UpdateCard(c, TRUE)]_vars

-----------------------------------------------------------------------------
(* The inductive invariant: why the properties hold.                        *)

Origin(card) == IF card.exists THEN card.replaces ELSE None
Selling(t) == tx[t].pc \in {"sell", "redeem"}

\* What is committed is whole: invoices refer to cards that exist, a card is
\* sold once and is no replacement, and what was replaced is worthless.
CommittedIsWhole ==
    /\ delivered \subseteq {c \in Code : cards[c].exists}
    /\ \A i \in Invoice : invoices[i].exists \/ invoices[i] = NoRow
    /\ \A i \in Invoice : \A c \in invoices[i].sold :
         /\ cards[c].exists /\ cards[c].replaces = None
         /\ \A j \in Invoice \ {i} : c \notin invoices[j].sold
    /\ \A i \in Invoice, c \in Code : invoices[i].redeemed[c] > 0 => cards[c].exists
    /\ \A c \in Code : Replaced(c) =>
         cards[c].exists /\ cards[c].balance = 0 /\ ~cards[c].active

\* An invoice is in the hands of one transaction, which has locked it or makes it.
InvoiceIsHeld(t) ==
    /\ tx[t].invoice = None <=> tx[t].pc = "idle"
    /\ tx[t].pc = "idle" => tx[t] = IdleTx
    /\ tx[t].pc # "idle" =>
         \/ lock[tx[t].invoice] = t
         \/ Selling(t) /\ ~invoices[tx[t].invoice].exists

\* A card that was written is locked or new, and keeps what it replaces; only
\* the sales of an edited invoice are made anew.
DraftsAreHeld(t) ==
    \A c \in DOMAIN tx[t].draft :
       LET card == tx[t].draft[c] IN
       /\ lock[c] = t \/ ~cards[c].exists
       /\ Origin(card) = Origin(cards[c])
       /\ Replaced(c) => card.balance = 0 /\ ~card.active
       /\ (Selling(t) /\ c \in OldSales(tx[t])) \/ ~cards[c].exists
            \/ card.face = cards[c].face
       /\ (Selling(t) /\ c \in OldSales(tx[t])) \/ card.exists

\* From the check of its sales on, an edit holds them, and nobody can send,
\* replace or redeem them.
SalesAreHeld(t) ==
    /\ tx[t].pc = "lock" => \A c \in OldSales(tx[t]) \ tx[t].todo : lock[c] = t
    /\ tx[t].pc = "refund" \/ Selling(t) =>
         \A c \in OldSales(tx[t]) :
            /\ lock[c] = t /\ c \notin delivered /\ ~Replaced(c)
            /\ \A i \in Invoice : invoices[i].redeemed[c] = 0

\* The row to be committed refers to cards that exist and, unless the invoice
\* did before, to none that was replaced.
RowIsSound(t) ==
    LET x == tx[t]
        Wiped(c) == c \in DOMAIN x.draft /\ ~x.draft[c].exists
    IN /\ x.pc # "idle" => x.row.exists
       /\ \A c \in x.row.sold :
            /\ ~Wiped(c)
            /\ c \in OldSales(x) \/ (c \in DOMAIN x.draft /\ ~cards[c].exists)
       /\ \A c \in Code : x.row.redeemed[c] > 0 =>
            /\ ~Wiped(c)
            /\ c \in OldTender(x) \/ (c \in DOMAIN x.draft /\ lock[c] = t /\ ~Replaced(c))
       /\ \A c \in Code :
            /\ x.row.refunded[c] <= x.row.redeemed[c]
            /\ x.pc # "tender" => x.row.refunded[c] = 0

\* Who follows replacements has reached one, for money that may go that way.
WalkIsSound(t) ==
    LET x == tx[t] IN
    /\ x.pc = "refund" => x.todo \subseteq OldTender(x)
    /\ x.at # None =>
         /\ x.pc \in {"refund", "redeem", "tender"} /\ x.code # None
         /\ Origin(cards[x.at]) # None
         /\ x.pc = "refund" => x.code \in x.todo
         /\ x.pc = "redeem" => x.code \in OldTender(x) /\ x.amount > 0
         /\ x.pc = "tender" => Refundable(x, x.code, x.amount)

\* No two transactions have the same invoice or have written the same card.
TillsAreApart ==
    \A t, u \in Till : t # u =>
       /\ tx[t].invoice # tx[u].invoice \/ tx[t].invoice = None
       /\ DOMAIN tx[t].draft \cap DOMAIN tx[u].draft = {}

TillOK(t) == InvoiceIsHeld(t) /\ DraftsAreHeld(t) /\ SalesAreHeld(t) /\ RowIsSound(t)
             /\ WalkIsSound(t)

IInv == TypeOK /\ RefundsAreCovered /\ CommittedIsWhole /\ TillsAreApart
        /\ \A t \in Till : TillOK(t)

=============================================================================
