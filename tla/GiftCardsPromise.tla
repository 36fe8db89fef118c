-------------------------- MODULE GiftCardsPromise --------------------------
(***************************************************************************)
(* GiftCards keeps the promise of GiftCardAccounts: the account is the     *)
(* first code of a chain of replacements, and its value is what the codes  *)
(* of the chain hold together.                                             *)
(***************************************************************************)
EXTENDS GiftCards, FiniteSetsExt

ASSUME CodesAreFinite == IsFiniteSet(Code)

\* gift_card_original_id: from a card to what it replaces, as long as it does;
\* each card once, whatever the links are.
Rising(S) == \A c \in S : Origin(cards[c]) \in S \cup {None}
Ancestors(c) == {a \in Code : \A S \in SUBSET Code : c \in S /\ a \notin S => ~Rising(S)}

Roots == {c \in Code : cards[c].exists /\ cards[c].replaces = None}
Chain(a) == {c \in Code : a \in Roots /\ cards[c].exists /\ a \in Ancestors(c)}

Over(f, S) == MapThenSumSet(LAMBDA c : f[c], S)
Balances == [c \in Code |-> cards[c].balance]
\* What a row of the invoices table has taken from each code.
Owed(row) == [c \in Code |-> row.redeemed[c] - row.refunded[c]]

Value == [a \in Code |-> Over(Balances, Chain(a))]
Spent == [a \in Code |-> [i \in Invoice |-> Over(Owed(invoices[i]), Chain(a))]]

Accounts == INSTANCE GiftCardAccounts WITH
    Account <- Code, open <- Roots, value <- Value, spent <- Spent

\* No interleaving of sales, edits, redemptions, refunds and replacements makes
\* or loses money: every commit is one step of the accounts, computed from what
\* is committed at that moment (gift_cards/repository.rs, invoices/service.rs).
\* This is Accounts!Spec; the first disjunct spares TLC the steps that stutter.
AccountsKept ==
    /\ Accounts!Init
    /\ [][UNCHANGED <<cards, invoices>> \/ UNCHANGED Accounts!vars \/ Accounts!Next]_vars

-----------------------------------------------------------------------------
(* The inductive invariant: why a commit is one step of the accounts.       *)

\* An edit that pays back has still to return what is left of its list.
Debt(x) == [c \in Code |-> IF x.pc = "refund" /\ c \notin x.todo THEN 0 ELSE Owed(x.row)[c]]

\* What a commit now would change a code by, in the hands of its holder and of
\* the invoice together.
Moved(t) ==
    [c \in Code |-> (View(t)[c].balance - cards[c].balance)
                      + (Debt(tx[t])[c] - Owed(invoices[tx[t].invoice])[c])]

\* The sales of an edited invoice are accounts that it closes and opens anew.
Anew(t) == IF Selling(t) THEN OldSales(tx[t]) ELSE {}

\* Nothing is made or lost along a chain, however far a till has come, and what
\* it sells has its face between the card and the invoice.
ChainsBalance(t) ==
    /\ \A a \in Roots \ Anew(t) : Over(Moved(t), Chain(a)) = 0
    /\ Anew(t) \subseteq DOMAIN tx[t].draft
    /\ \A c \in DOMAIN tx[t].draft :
         LET card == tx[t].draft[c] IN
         /\ card.exists /\ (~cards[c].exists \/ c \in Anew(t)) => c \in tx[t].row.sold
         /\ Selling(t) /\ c \in tx[t].row.sold =>
              card.balance + tx[t].row.redeemed[c] \in Amount

\* A till pays back and takes what the row says, on the chain the money is of.
WalkBalances(t) ==
    LET x == tx[t] IN
    /\ ~Selling(t) => x.row.sold = OldSales(x)
    /\ x.pc \in {"lock", "refund"} => x.row.redeemed = invoices[x.invoice].redeemed
    /\ x.at # None =>
         /\ x.code \in Ancestors(x.at)
         /\ x.pc = "refund" => x.amount = x.row.redeemed[x.code]
         /\ x.pc = "redeem" => x.row.redeemed[x.code] = 0

BooksOK(t) == tx[t].pc # "idle" => ChainsBalance(t) /\ WalkBalances(t)
BooksInv == IInv /\ \A t \in Till : BooksOK(t)

=============================================================================
