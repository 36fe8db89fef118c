-------------------------- MODULE GiftCards_proofs --------------------------
(***************************************************************************)
(* GiftCards keeps IInv, for every set of codes, invoices and tills and    *)
(* every largest face.  The parts of IInv lean on each other: a card that  *)
(* a till has written is locked or new, so nobody else writes it; what a   *)
(* till deletes was checked while locked, so nobody refers to it when it   *)
(* is committed; a card keeps what it replaces, so who reached a           *)
(* replacement is never left standing on a code that is gone.              *)
(*                                                                         *)
(* A step of one till (or of a card alone) touches nothing the facts about *)
(* another till speak of: that is Frame, and FramedOK draws the            *)
(* conclusion once for all steps.  Then one lemma for each action.         *)
(*                                                                         *)
(* Second part: GiftCards keeps BooksInv and so the promise of             *)
(* GiftCardAccounts.  A chain of replacements is what every set closed     *)
(* under gift_card_original_id contains, so its members come without       *)
(* recursion; a card on the way of a till stays on the chain of the code   *)
(* it was asked for, a step moves money within one chain only, and a       *)
(* commit shows what was moved: one step of the accounts.                  *)
(***************************************************************************)
EXTENDS GiftCardsPromise, SumTheorems

USE FaceAssumption, TillAssumption

-----------------------------------------------------------------------------
(* What a step of others may do to till t. *)

Frame(t) ==
    /\ tx'[t] = tx[t]
    /\ \A r \in Code \cup Invoice : lock[r] = t => lock'[r] = t
    /\ tx[t].pc # "idle" => invoices'[tx[t].invoice] = invoices[tx[t].invoice]
    /\ \A c \in DOMAIN tx[t].draft : cards'[c] = cards[c] /\ (Replaced(c)' => Replaced(c))
    /\ \A c \in Code : lock[c] = t =>
         /\ Replaced(c)' => Replaced(c)
         /\ c \in delivered' => c \in delivered
         /\ (\A i \in Invoice : invoices[i].redeemed[c] = 0)
              => \A i \in Invoice : invoices'[i].redeemed[c] = 0
    /\ \A c \in Code : Origin(cards[c]) # None => Origin(cards'[c]) # None

LEMMA IdleTypes == IdleTx \in Tx({}) /\ DOMAIN IdleTx.draft = {} /\ NoRow \in Row
<1>1. NoRow \in Row
  BY DEF Row, NoRow
<1>2. <<>> \in [{} -> Card] /\ DOMAIN <<>> = {}
  OBVIOUS
<1> QED
  BY <1>1, <1>2 DEF IdleTx, Tx

LEMMA TxFields ==
    ASSUME NEW W, NEW x \in Tx(W)
    PROVE  /\ x.pc \in {"idle", "lock", "refund", "sell", "redeem", "tender"}
           /\ x.invoice \in Invoice \cup {None} /\ x.row \in Row
           /\ x.draft \in [W -> Card] /\ x.todo \subseteq Code
           /\ x.at \in Code \cup {None} /\ x.code \in Code \cup {None}
           /\ x.amount \in 0..MaxFace
BY DEF Tx

LEMMA IdleFields ==
    /\ IdleTx.pc = "idle" /\ IdleTx.invoice = None /\ IdleTx.at = None
    /\ DOMAIN IdleTx.draft = {} /\ IdleTx.row.sold = {}
    /\ \A c \in Code : IdleTx.row.redeemed[c] = 0 /\ IdleTx.row.refunded[c] = 0
BY IdleTypes DEF IdleTx, NoRow

LEMMA IdleIsOK ==
    ASSUME NEW t \in Till
    PROVE  /\ tx[t] = IdleTx => TillOK(t)
           /\ tx'[t] = IdleTx => TillOK(t)'
<1>1. tx[t] = IdleTx =>
        /\ InvoiceIsHeld(t) /\ DraftsAreHeld(t) /\ SalesAreHeld(t) /\ RowIsSound(t)
        /\ WalkIsSound(t)
  BY IdleFields
     DEF InvoiceIsHeld, DraftsAreHeld, SalesAreHeld, WalkIsSound, RowIsSound, Selling
<1>2. tx'[t] = IdleTx =>
        /\ InvoiceIsHeld(t)' /\ DraftsAreHeld(t)' /\ SalesAreHeld(t)' /\ RowIsSound(t)'
        /\ WalkIsSound(t)'
  BY IdleFields
     DEF InvoiceIsHeld, DraftsAreHeld, SalesAreHeld, WalkIsSound, RowIsSound, Selling
<1> QED
  BY <1>1, <1>2 DEF TillOK

LEMMA InitIInv == Init => IInv
<1> SUFFICES ASSUME Init PROVE IInv
  OBVIOUS
<1>1. \A t \in Till : tx[t] = IdleTx
  BY DEF Init
<1>2. \A t \in Till : TillOK(t)
  BY <1>1, IdleIsOK
<1>3. TypeOK
  BY <1>1, IdleTypes DEF Init, TypeOK, Card, NoCard
<1>4. RefundsAreCovered
  <2>1. \A i \in Invoice : invoices[i] = NoRow
    BY DEF Init
  <2>2. \A c \in Code : NoRow.refunded[c] = 0 /\ NoRow.redeemed[c] = 0
    BY DEF NoRow
  <2>3. \A i \in Invoice, c \in Code :
          invoices[i].refunded[c] = 0 /\ invoices[i].redeemed[c] = 0
    BY <2>1, <2>2
  <2> QED
    BY <2>3 DEF RefundsAreCovered
<1>5. CommittedIsWhole
  BY DEF Init, CommittedIsWhole, NoRow, NoCard, Replaced, Replacements
<1>6. TillsAreApart
  BY <1>1, IdleTypes DEF TillsAreApart, IdleTx
<1> QED
  BY <1>2, <1>3, <1>4, <1>5, <1>6 DEF IInv

LEMMA FramedOK ==
    ASSUME TypeOK, NEW t \in Till, TillOK(t), Frame(t)
    PROVE  TillOK(t)'
<1>1. CASE tx[t].pc = "idle"
  <2>1. tx'[t] = IdleTx
    BY <1>1 DEF TillOK, InvoiceIsHeld, Frame
  <2> QED
    BY <2>1, IdleIsOK
<1>2. CASE tx[t].pc # "idle"
  <2> DEFINE x == tx[t]
             i == tx[t].invoice
  <2>1. /\ x.pc # "idle" /\ i \in Invoice /\ tx'[t] = x /\ invoices'[i] = invoices[i]
        /\ DOMAIN x.draft \subseteq Code /\ x.todo \subseteq Code
    BY <1>2, TxFields DEF Frame, TypeOK, TillOK, InvoiceIsHeld
  <2>2. OldSales(x)' = OldSales(x) /\ OldTender(x)' = OldTender(x)
    BY <2>1 DEF OldSales, OldTender
  <2>3. Selling(t)' <=> Selling(t)
    BY <2>1 DEF Selling
  <2>4. InvoiceIsHeld(t)'
    BY <2>1, <2>3 DEF TillOK, InvoiceIsHeld, Frame
  <2>5. DraftsAreHeld(t)'
    BY <2>1, <2>2, <2>3 DEF TillOK, DraftsAreHeld, Frame
  <2>6. SalesAreHeld(t)'
    <3>1. OldSales(x) \subseteq Code
      BY <2>1 DEF OldSales, TypeOK, Row
    <3> QED
      BY <2>1, <2>2, <2>3, <3>1 DEF TillOK, SalesAreHeld, Frame
  <2>7. RowIsSound(t)'
    BY <2>1, <2>2 DEF TillOK, RowIsSound, Frame
  <2>8. WalkIsSound(t)'
    <3>1. x.at # None => Origin(cards'[x.at]) # None
      BY <2>1, TxFields DEF TillOK, WalkIsSound, Frame, TypeOK
    <3> QED
      BY <2>1, <2>2, <3>1 DEF TillOK, WalkIsSound, Refundable
  <2> QED
    BY <2>4, <2>5, <2>6, <2>7, <2>8 DEF TillOK
<1> QED
  BY <1>1, <1>2

-----------------------------------------------------------------------------
(* Requests that lock one card and commit. *)

LEMMA CardFields ==
    ASSUME NEW c \in Code, cards \in [Code -> Card]
    PROVE  /\ cards[c] \in Card /\ cards[c].exists \in BOOLEAN /\ cards[c].face \in Nat
           /\ cards[c].balance \in Nat /\ cards[c].active \in BOOLEAN
           /\ cards[c].replaces \in Code \cup {None}
BY DEF Card

LEMMA NewCardFields ==
    ASSUME NEW amount \in Nat
    PROVE  /\ NewCard(amount) \in Card /\ NewCard(amount).exists
           /\ NewCard(amount).face = amount /\ NewCard(amount).balance = amount
           /\ NewCard(amount).active /\ NewCard(amount).replaces = None
BY DEF NewCard, NoCard, Card

LEMMA NobodyWrites ==
    ASSUME IInv, NEW c \in Code, cards[c].exists, lock[c] = None
    PROVE  \A t \in Till : c \notin DOMAIN tx[t].draft /\ lock[c] # t
BY DEF IInv, TillOK, DraftsAreHeld

\* A step that commits cards no transaction has written, and replaces none that
\* one has locked.
LEMMA CardsChange ==
    ASSUME IInv, UNCHANGED <<invoices, lock, tx>>, cards' \in [Code -> Card],
           delivered' \subseteq Code, CommittedIsWhole',
           \A c \in Code : \/ cards'[c] = cards[c]
                          \/ \A t \in Till : c \notin DOMAIN tx[t].draft,
           \A c \in Code : Origin(cards[c]) # None => Origin(cards'[c]) = Origin(cards[c]),
           \A c \in Code, t \in Till : lock[c] = t \/ c \in DOMAIN tx[t].draft =>
              (Replaced(c)' => Replaced(c)) /\ (c \in delivered' => c \in delivered)
    PROVE  IInv'
<1>1. TypeOK'
  BY DEF IInv, TypeOK
<1>2. \A t \in Till : Frame(t)
  <2> SUFFICES ASSUME NEW t \in Till PROVE Frame(t)
    OBVIOUS
  <2>1. DOMAIN tx[t].draft \subseteq Code
    BY DEF IInv, TypeOK
  <2> QED
    BY <2>1 DEF Frame
<1>3. \A t \in Till : TillOK(t)'
  BY <1>2, FramedOK DEF IInv
<1>4. TillsAreApart' /\ RefundsAreCovered'
  BY DEF IInv, TillsAreApart, RefundsAreCovered
<1> QED
  BY <1>1, <1>3, <1>4 DEF IInv

LEMMA IssueOK ==
    ASSUME IInv, NEW c \in Code, NEW amount \in Amount, Issue(c, amount)
    PROVE  IInv'
<1>1. /\ ~cards[c].exists /\ \A t \in Till : c \notin DOMAIN tx[t].draft
      /\ cards \in [Code -> Card] /\ cards' = [cards EXCEPT ![c] = NewCard(amount)]
      /\ UNCHANGED <<invoices, delivered, lock, tx>>
  BY DEF Issue, Fresh, IInv, TypeOK
<1>2. /\ cards' \in [Code -> Card] /\ cards'[c].exists /\ cards'[c].replaces = None
      /\ \A d \in Code \ {c} : cards'[d] = cards[d]
  <2>1. amount \in Nat
    BY DEF Amount
  <2> QED
    BY <1>1, <2>1, NewCardFields
<1>3. \A d \in Code : Origin(cards'[d]) = Origin(cards[d])
  BY <1>1, <1>2 DEF Origin
<1>4. \A d \in Code : Replaced(d)' <=> Replaced(d)
  BY <1>1, <1>2 DEF Replaced, Replacements
<1>5. CommittedIsWhole'
  <2>1. c \notin delivered /\ delivered \subseteq Code /\ ~Replaced(c)
    BY <1>1 DEF IInv, TypeOK, CommittedIsWhole
  <2>2. \A i \in Invoice : c \notin invoices[i].sold /\ invoices[i].sold \subseteq Code
    BY <1>1 DEF IInv, CommittedIsWhole, TypeOK, Row
  <2> QED
    BY <1>1, <1>2, <1>4, <2>1, <2>2 DEF IInv, CommittedIsWhole
<1>6. /\ \A d \in Code, t \in Till : lock[d] = t \/ d \in DOMAIN tx[t].draft =>
            (Replaced(d)' => Replaced(d)) /\ (d \in delivered' => d \in delivered)
      /\ \A d \in Code : \/ cards'[d] = cards[d]
                        \/ \A t \in Till : d \notin DOMAIN tx[t].draft
      /\ delivered' \subseteq Code
  BY <1>1, <1>2, <1>4 DEF IInv, TypeOK
<1> QED
  BY <1>1, <1>2, <1>3, <1>5, <1>6, CardsChange

LEMMA UpdateCardOK ==
    ASSUME IInv, NEW c \in Code, NEW active \in BOOLEAN, UpdateCard(c, active)
    PROVE  IInv'
<1>1. /\ cards[c].exists /\ lock[c] = None /\ (active => ~Replaced(c))
      /\ cards \in [Code -> Card] /\ cards' = [cards EXCEPT ![c].active = active]
      /\ UNCHANGED <<invoices, delivered, lock, tx>>
  BY DEF UpdateCard, IInv, TypeOK, Replaced
<1>2. /\ cards' \in [Code -> Card]
      /\ cards'[c] = [cards[c] EXCEPT !.active = active]
      /\ \A d \in Code \ {c} : cards'[d] = cards[d]
  BY <1>1 DEF Card
<1>3. /\ cards'[c].exists /\ cards'[c].replaces = cards[c].replaces
      /\ cards'[c].balance = cards[c].balance /\ cards'[c].active = active
  BY <1>1, <1>2, CardFields DEF Card
<1>4. \A d \in Code : Origin(cards'[d]) = Origin(cards[d])
  BY <1>1, <1>2, <1>3 DEF Origin
<1>5. \A d \in Code : Replaced(d)' <=> Replaced(d)
  BY <1>1, <1>2, <1>3 DEF Replaced, Replacements
<1>6. CommittedIsWhole'
  <2>1. delivered \subseteq Code /\ \A i \in Invoice : invoices[i].sold \subseteq Code
    BY DEF IInv, TypeOK, Row
  <2> QED
    BY <1>1, <1>2, <1>3, <1>5, <2>1 DEF IInv, CommittedIsWhole
<1>7. /\ \A d \in Code, t \in Till : lock[d] = t \/ d \in DOMAIN tx[t].draft =>
            (Replaced(d)' => Replaced(d)) /\ (d \in delivered' => d \in delivered)
      /\ \A d \in Code : \/ cards'[d] = cards[d]
                        \/ \A t \in Till : d \notin DOMAIN tx[t].draft
      /\ delivered' \subseteq Code
  BY <1>1, <1>2, <1>5, NobodyWrites DEF IInv, TypeOK
<1> QED
  BY <1>1, <1>2, <1>4, <1>6, <1>7, CardsChange

LEMMA ReplaceOK ==
    ASSUME IInv, NEW c \in Code, NEW n \in Code, Replace(c, n)
    PROVE  IInv'
<1> DEFINE fresh == [NewCard(cards[c].balance) EXCEPT !.replaces = c]
           spent == [cards[c] EXCEPT !.balance = 0, !.active = FALSE]
<1>1. /\ cards[c].exists /\ lock[c] = None /\ ~Replaced(c) /\ n # c
      /\ ~cards[n].exists /\ \A t \in Till : n \notin DOMAIN tx[t].draft
      /\ cards \in [Code -> Card]
      /\ UNCHANGED <<invoices, delivered, lock, tx>>
  BY DEF Replace, Fresh, IInv, TypeOK, Replaced
<1>2. cards' = [cards EXCEPT ![n] = fresh, ![c] = spent]
  BY <1>1 DEF Replace
<1>3. /\ fresh \in Card /\ fresh.exists /\ fresh.replaces = c
      /\ spent \in Card /\ spent.exists /\ spent.replaces = cards[c].replaces
      /\ spent.balance = 0 /\ ~spent.active
  <2>1. cards[c] \in Card /\ cards[c].balance \in Nat
    BY <1>1, CardFields
  <2>2. NewCard(cards[c].balance) \in Card /\ NewCard(cards[c].balance).exists
    BY <2>1, NewCardFields
  <2> QED
    BY <1>1, <2>1, <2>2 DEF Card
<1>4. /\ cards' \in [Code -> Card] /\ cards'[n] = fresh /\ cards'[c] = spent
      /\ \A d \in Code \ {c, n} : cards'[d] = cards[d]
  BY <1>1, <1>2, <1>3
<1> HIDE DEF fresh, spent
<1>5. \A d \in Code : Origin(cards[d]) # None => Origin(cards'[d]) = Origin(cards[d])
  BY <1>1, <1>3, <1>4 DEF Origin
<1>6. \A d \in Code : Replaced(d)' <=> Replaced(d) \/ d = c
  <2>1. Replaced(c)'
    BY <1>3, <1>4 DEF Replaced, Replacements
  <2>2. \A d \in Code \ {c} : Replaced(d)' <=> Replaced(d)
    BY <1>1, <1>3, <1>4 DEF Replaced, Replacements
  <2> QED
    BY <2>1, <2>2
<1>7. CommittedIsWhole'
  <2>1. n \notin delivered /\ delivered \subseteq Code /\ ~Replaced(n)
    BY <1>1 DEF IInv, TypeOK, CommittedIsWhole
  <2>2. \A i \in Invoice : n \notin invoices[i].sold /\ invoices[i].sold \subseteq Code
    BY <1>1 DEF IInv, CommittedIsWhole, TypeOK, Row
  <2>3. \A d \in Code : cards[d].exists => cards'[d].exists
    BY <1>3, <1>4
  <2>4. \A d \in Code : Replaced(d)' =>
          cards'[d].exists /\ cards'[d].balance = 0 /\ ~cards'[d].active
    BY <1>3, <1>4, <1>6, <2>1 DEF IInv, CommittedIsWhole
  <2>5. \A i \in Invoice : \A d \in invoices[i].sold :
          cards'[d].exists /\ cards'[d].replaces = None
    BY <1>3, <1>4, <2>2 DEF IInv, CommittedIsWhole
  <2> QED
    BY <1>1, <2>1, <2>3, <2>4, <2>5 DEF IInv, CommittedIsWhole
<1>8. \A t \in Till : c \notin DOMAIN tx[t].draft /\ lock[c] # t
  BY <1>1, NobodyWrites
<1>9. \A d \in Code : \/ cards'[d] = cards[d]
                     \/ \A t \in Till : d \notin DOMAIN tx[t].draft
  BY <1>1, <1>4, <1>8
<1>10. \A d \in Code, t \in Till : lock[d] = t \/ d \in DOMAIN tx[t].draft =>
         (Replaced(d)' => Replaced(d)) /\ (d \in delivered' => d \in delivered)
  BY <1>1, <1>6, <1>8
<1>11. delivered' \subseteq Code
  BY <1>1 DEF IInv, TypeOK
<1> QED
  BY <1>1, <1>4, <1>5, <1>7, <1>9, <1>10, <1>11, CardsChange

LEMMA ApproveDeliveryOK ==
    ASSUME IInv, NEW c \in Code, ApproveDelivery(c)
    PROVE  IInv'
<1>1. /\ cards[c].exists /\ lock[c] = None /\ delivered' = delivered \cup {c}
      /\ UNCHANGED <<cards, invoices, lock, tx>>
  BY DEF ApproveDelivery
<1>2. \A d \in Code : Replaced(d)' <=> Replaced(d)
  BY <1>1 DEF Replaced, Replacements
<1>3. CommittedIsWhole'
  BY <1>1, <1>2 DEF IInv, CommittedIsWhole
<1>4. \A d \in Code : cards'[d] = cards[d]
  BY <1>1
<1>5. \A d \in Code, t \in Till : lock[d] = t \/ d \in DOMAIN tx[t].draft =>
         (Replaced(d)' => Replaced(d)) /\ (d \in delivered' => d \in delivered)
  BY <1>1, <1>2, NobodyWrites
<1>6. cards' \in [Code -> Card] /\ delivered' \subseteq Code
  BY <1>1 DEF IInv, TypeOK
<1> QED
  BY <1>1, <1>3, <1>4, <1>5, <1>6, CardsChange

-----------------------------------------------------------------------------
(* A till works: nothing is committed, and the others keep what they hold. *)

LEMMA TillMoves ==
    ASSUME IInv, NEW t \in Till, NEW y, UNCHANGED <<cards, invoices, delivered>>,
           tx' = [tx EXCEPT ![t] = y],
           DOMAIN y.draft \subseteq Code, y \in Tx(DOMAIN y.draft),
           lock' \in [Code \cup Invoice -> Till \cup {None}],
           \A r \in Code \cup Invoice : lock[r] \in Till \ {t} => lock'[r] = lock[r],
           \A u \in Till \ {t} :
              /\ y.invoice # tx[u].invoice \/ y.invoice = None
              /\ DOMAIN y.draft \cap DOMAIN tx[u].draft = {},
           TillOK(t)'
    PROVE  IInv'
<1>1. /\ DOMAIN tx' = Till /\ tx'[t] = y
      /\ \A u \in Till \ {t} : tx'[u] = tx[u]
  BY DEF IInv, TypeOK
<1>2. TypeOK'
  BY <1>1 DEF IInv, TypeOK
<1>3. \A c \in Code : Replaced(c)' <=> Replaced(c)
  BY DEF Replaced, Replacements
<1>4. \A u \in Till \ {t} : TillOK(u)'
  <2> SUFFICES ASSUME NEW u \in Till \ {t} PROVE TillOK(u)'
    OBVIOUS
  <2>1. DOMAIN tx[u].draft \subseteq Code
    BY DEF IInv, TypeOK
  <2>2. Frame(u)
    BY <1>1, <1>3, <2>1 DEF Frame
  <2> QED
    BY <2>2, FramedOK DEF IInv
<1>5. TillsAreApart'
  <2> SUFFICES ASSUME NEW u \in Till, NEW v \in Till, u # v
               PROVE  /\ tx'[u].invoice # tx'[v].invoice \/ tx'[u].invoice = None
                      /\ DOMAIN tx'[u].draft \cap DOMAIN tx'[v].draft = {}
    BY DEF TillsAreApart
  <2>1. CASE u = t
    BY <1>1, <2>1
  <2>2. CASE v = t
    BY <1>1, <2>2
  <2>3. CASE u # t /\ v # t
    BY <1>1, <2>3 DEF IInv, TillsAreApart
  <2> QED
    BY <2>1, <2>2, <2>3
<1>6. CommittedIsWhole' /\ RefundsAreCovered'
  BY <1>3 DEF IInv, CommittedIsWhole, RefundsAreCovered
<1> QED
  BY <1>2, <1>4, <1>5, <1>6 DEF IInv

LEMMA RowFields ==
    ASSUME TypeOK, NEW i \in Invoice
    PROVE  /\ invoices[i] \in Row
           /\ invoices[i].sold \subseteq Code
           /\ \A c \in Code : invoices[i].redeemed[c] \in 0..MaxFace
                              /\ invoices[i].refunded[c] \in 0..MaxFace
BY DEF TypeOK, Row

LEMMA BeginOK ==
    ASSUME IInv, NEW t \in Till, NEW i \in Invoice, NEW pc \in {"lock", "sell", "tender"},
           NEW todo \in SUBSET Code, Begin(t, i, pc, todo),
           IF pc = "sell"
             THEN /\ lock' = lock /\ ~invoices[i].exists
                  /\ \A u \in Till : tx[u].invoice # i
             ELSE lock' = [lock EXCEPT ![i] = t] /\ lock[i] = None /\ invoices[i].exists,
           pc = "lock" => /\ invoices[i].sold \subseteq todo
                          /\ \A c \in Code : invoices[i].refunded[c] = 0
    PROVE  IInv'
<1> DEFINE row == [invoices[i] EXCEPT !.exists = TRUE]
           y == [IdleTx EXCEPT !.pc = pc, !.invoice = i, !.todo = todo, !.row = row]
<1>1. /\ tx' = [tx EXCEPT ![t] = y] /\ UNCHANGED <<cards, invoices, delivered>>
  BY DEF Begin
<1>2. /\ row \in Row /\ row.exists
      /\ row.sold = invoices[i].sold /\ row.redeemed = invoices[i].redeemed
      /\ row.refunded = invoices[i].refunded
  BY RowFields DEF IInv, Row
<1> HIDE DEF row
<1>3. /\ y.pc = pc /\ y.invoice = i /\ y.todo = todo /\ y.row = row
      /\ y.at = None /\ DOMAIN y.draft = {} /\ y \in Tx({})
  BY <1>2, IdleTypes DEF IdleTx, Tx
<1> HIDE DEF y
<1>4. tx'[t] = y
  BY <1>1 DEF IInv, TypeOK
<1>5. lock' \in [Code \cup Invoice -> Till \cup {None}]
  BY DEF IInv, TypeOK
<1>6. pc = "sell" => invoices[i] = NoRow
  BY DEF IInv, CommittedIsWhole
<1>7. i # None
  BY DEF IInv, TypeOK
<1>8. InvoiceIsHeld(t)'
  BY <1>1, <1>3, <1>4, <1>7 DEF InvoiceIsHeld, Selling, IInv, TypeOK
<1>9. DraftsAreHeld(t)' /\ WalkIsSound(t)'
  BY <1>3, <1>4 DEF DraftsAreHeld, WalkIsSound
<1>10. SalesAreHeld(t)'
  <2>1. OldSales(tx[t])' = invoices[i].sold
    BY <1>1, <1>3, <1>4 DEF OldSales
  <2> QED
    BY <1>3, <1>4, <1>6, <2>1 DEF SalesAreHeld, Selling, NoRow
<1>11. RowIsSound(t)'
  <2>1. /\ OldSales(tx[t])' = row.sold
        /\ OldTender(tx[t])' = {c \in Code : row.redeemed[c] > 0}
    BY <1>1, <1>2, <1>3, <1>4 DEF OldSales, OldTender
  <2>2. \A c \in Code : row.refunded[c] <= row.redeemed[c]
    BY <1>2 DEF IInv, RefundsAreCovered
  <2>3. pc # "tender" => \A c \in Code : row.refunded[c] = 0
    BY <1>2, <1>6 DEF NoRow
  <2> QED
    BY <1>2, <1>3, <1>4, <2>1, <2>2, <2>3 DEF RowIsSound
<1>12. \A u \in Till \ {t} : y.invoice # tx[u].invoice
  <2> SUFFICES ASSUME NEW u \in Till \ {t}, tx[u].invoice = i PROVE FALSE
    BY <1>3
  <2>1. tx[u].pc # "idle"
    BY <1>7 DEF IInv, TillOK, InvoiceIsHeld
  <2> QED
    BY <2>1 DEF IInv, TillOK, InvoiceIsHeld
<1>13. \A r \in Code \cup Invoice : lock[r] \in Till \ {t} => lock'[r] = lock[r]
  BY DEF IInv, TypeOK
<1>14. TillOK(t)'
  BY <1>8, <1>9, <1>10, <1>11 DEF TillOK
<1>15. DOMAIN y.draft \subseteq Code /\ y \in Tx(DOMAIN y.draft)
  BY <1>3
<1>16. \A u \in Till \ {t} :
         /\ y.invoice # tx[u].invoice \/ y.invoice = None
         /\ DOMAIN y.draft \cap DOMAIN tx[u].draft = {}
  BY <1>3, <1>12
<1> QED
  BY <1>1, <1>5, <1>13, <1>14, <1>15, <1>16, TillMoves

LEMMA CreateInvoiceOK ==
    ASSUME IInv, NEW t \in Till, NEW i \in Invoice, CreateInvoice(t, i)
    PROVE  IInv'
BY BeginOK DEF CreateInvoice

LEMMA EditInvoiceOK ==
    ASSUME IInv, NEW t \in Till, NEW i \in Invoice, EditInvoice(t, i)
    PROVE  IInv'
<1> DEFINE todo == invoices[i].sold \cup {c \in Code : invoices[i].redeemed[c] > 0}
<1>1. todo \in SUBSET Code /\ invoices[i].sold \subseteq todo
  BY RowFields DEF IInv
<1>2. Begin(t, i, "lock", todo)
  BY DEF EditInvoice
<1> HIDE DEF todo
<1>3. /\ lock' = [lock EXCEPT ![i] = t] /\ lock[i] = None /\ invoices[i].exists
      /\ \A c \in Code : invoices[i].refunded[c] = 0
  BY DEF EditInvoice, Editable
<1> QED
  BY <1>1, <1>2, <1>3, BeginOK

LEMMA RefundInvoiceOK ==
    ASSUME IInv, NEW t \in Till, NEW i \in Invoice, RefundInvoice(t, i)
    PROVE  IInv'
<1>1. /\ Begin(t, i, "tender", {}) /\ {} \in SUBSET Code
      /\ lock' = [lock EXCEPT ![i] = t] /\ lock[i] = None /\ invoices[i].exists
  BY DEF RefundInvoice
<1> QED
  BY <1>1, BeginOK

LEMMA TillFacts ==
    ASSUME IInv, NEW t \in Till
    PROVE  /\ tx[t] \in Tx(DOMAIN tx[t].draft) /\ DOMAIN tx[t].draft \subseteq Code
           /\ InvoiceIsHeld(t) /\ DraftsAreHeld(t) /\ SalesAreHeld(t) /\ RowIsSound(t)
           /\ WalkIsSound(t)
           /\ tx[t].pc # "idle" => tx[t].invoice \in Invoice
           /\ \A u \in Till \ {t} :
                 /\ tx[t].invoice # tx[u].invoice \/ tx[t].invoice = None
                 /\ DOMAIN tx[t].draft \cap DOMAIN tx[u].draft = {}
<1>1. tx[t] \in Tx(DOMAIN tx[t].draft) /\ DOMAIN tx[t].draft \subseteq Code /\ TillOK(t)
  BY DEF IInv, TypeOK
<1>2. tx[t].invoice \in Invoice \cup {None}
  BY <1>1, TxFields
<1>3. \A u \in Till \ {t} :
         /\ tx[t].invoice # tx[u].invoice \/ tx[t].invoice = None
         /\ DOMAIN tx[t].draft \cap DOMAIN tx[u].draft = {}
  BY DEF IInv, TillsAreApart
<1> QED
  BY <1>1, <1>2, <1>3 DEF TillOK, InvoiceIsHeld

\* Taking a lock takes it from nobody.
LEMMA LockIsFree ==
    ASSUME IInv, NEW t \in Till, NEW c \in Code, Free(c, t), lock' = [lock EXCEPT ![c] = t]
    PROVE  /\ lock' \in [Code \cup Invoice -> Till \cup {None}]
           /\ \A r \in Code \cup Invoice :
                 /\ lock[r] \in Till \ {t} => lock'[r] = lock[r]
                 /\ lock[r] = t => lock'[r] = t
           /\ lock'[c] = t
BY DEF IInv, TypeOK, Free

LEMMA LockCardOK ==
    ASSUME IInv, NEW t \in Till, NEW c \in Code, LockCard(t, c)
    PROVE  IInv'
<1> DEFINE x == tx[t]
           y == [x EXCEPT !.todo = @ \ {c}]
<1>1. /\ x.pc = "lock" /\ c \in x.todo /\ Free(c, t) /\ lock' = [lock EXCEPT ![c] = t]
      /\ UNCHANGED <<cards, invoices, delivered>> /\ tx' = [tx EXCEPT ![t] = y]
  BY DEF LockCard
<1>2. /\ y \in Tx(DOMAIN x.draft) /\ y.pc = x.pc /\ y.invoice = x.invoice /\ y.row = x.row
      /\ y.draft = x.draft /\ y.todo = x.todo \ {c} /\ y.at = x.at
  BY TillFacts DEF Tx
<1>3. tx'[t] = y
  BY <1>1 DEF IInv, TypeOK
<1> HIDE DEF y
<1>4. /\ OldSales(tx[t])' = OldSales(x) /\ OldTender(tx[t])' = OldTender(x)
      /\ ~Selling(t) /\ ~Selling(t)' /\ \A d \in Code : Replaced(d)' <=> Replaced(d)
  BY <1>1, <1>2, <1>3 DEF OldSales, OldTender, Selling, Replaced, Replacements
<1>5. /\ DOMAIN x.draft \subseteq Code /\ x.invoice \in Invoice
      /\ InvoiceIsHeld(t) /\ DraftsAreHeld(t) /\ SalesAreHeld(t) /\ RowIsSound(t)
      /\ WalkIsSound(t)
  BY <1>1, TillFacts
<1>6. /\ \A r \in Code \cup Invoice : lock[r] = t => lock'[r] = t
      /\ lock'[c] = t
  BY <1>1, LockIsFree
<1>7. InvoiceIsHeld(t)'
  BY <1>1, <1>2, <1>3, <1>4, <1>5, <1>6 DEF InvoiceIsHeld
<1>8. DraftsAreHeld(t)'
  BY <1>1, <1>2, <1>3, <1>4, <1>5, <1>6 DEF DraftsAreHeld
<1>9. SalesAreHeld(t)'
  <2>1. OldSales(x) \subseteq Code
    BY <1>5, RowFields DEF OldSales, IInv
  <2> QED
    BY <1>1, <1>2, <1>3, <1>4, <1>5, <1>6, <2>1 DEF SalesAreHeld
<1>10. RowIsSound(t)'
  BY <1>1, <1>2, <1>3, <1>4, <1>5, <1>6 DEF RowIsSound
<1>11. WalkIsSound(t)'
  BY <1>1, <1>2, <1>3, <1>5 DEF WalkIsSound
<1>12. TillOK(t)'
  BY <1>7, <1>8, <1>9, <1>10, <1>11 DEF TillOK
<1>13. /\ DOMAIN y.draft \subseteq Code /\ y \in Tx(DOMAIN y.draft)
       /\ \A u \in Till \ {t} :
            /\ y.invoice # tx[u].invoice \/ y.invoice = None
            /\ DOMAIN y.draft \cap DOMAIN tx[u].draft = {}
  BY <1>2, <1>5, TillFacts
<1>14. /\ lock' \in [Code \cup Invoice -> Till \cup {None}]
       /\ \A r \in Code \cup Invoice : lock[r] \in Till \ {t} => lock'[r] = lock[r]
  BY <1>1, LockIsFree
<1> QED
  BY <1>1, <1>12, <1>13, <1>14, TillMoves

\* What a till has written does not change what its cards replace.
LEMMA ViewReplaces ==
    ASSUME IInv, NEW t \in Till, NEW c \in Code
    PROVE  /\ Replacements(View(t), c) = Replacements(cards, c)
           /\ Origin(View(t)[c]) = Origin(cards[c])
<1>1. \A n \in Code : Origin(View(t)[n]) = Origin(cards[n])
  BY TillFacts DEF View, DraftsAreHeld
<1>2. \A n \in Code : /\ n \in Replacements(View(t), c) <=> Origin(View(t)[n]) = c
                      /\ n \in Replacements(cards, c) <=> Origin(cards[n]) = c
  <2>1. c # None
    OBVIOUS
  <2> QED
    BY <2>1 DEF Replacements, Origin
<1>3. /\ Replacements(View(t), c) \subseteq Code
      /\ Replacements(cards, c) \subseteq Code
  BY DEF Replacements
<1> QED
  BY <1>1, <1>2, <1>3

LEMMA CheckSalesOK ==
    ASSUME IInv, NEW t \in Till, CheckSales(t)
    PROVE  IInv'
<1> DEFINE x == tx[t]
           y == [x EXCEPT !.pc = "refund", !.todo = OldTender(x)]
<1>1. /\ x.pc = "lock" /\ x.todo = {} /\ \A c \in OldSales(x) : Untouched(t, c)
      /\ UNCHANGED <<cards, invoices, delivered, lock>> /\ tx' = [tx EXCEPT ![t] = y]
  BY DEF CheckSales
<1>2. OldTender(x) \subseteq Code
  BY DEF OldTender
<1>3. /\ y \in Tx(DOMAIN x.draft) /\ y.pc = "refund" /\ y.invoice = x.invoice
      /\ y.row = x.row /\ y.draft = x.draft /\ y.todo = OldTender(x) /\ y.at = x.at
  BY <1>2, TillFacts DEF Tx
<1>4. tx'[t] = y
  BY <1>1 DEF IInv, TypeOK
<1> HIDE DEF y
<1>5. /\ OldSales(tx[t])' = OldSales(x) /\ OldTender(tx[t])' = OldTender(x)
      /\ ~Selling(t) /\ ~Selling(t)' /\ \A d \in Code : Replaced(d)' <=> Replaced(d)
  BY <1>1, <1>3, <1>4 DEF OldSales, OldTender, Selling, Replaced, Replacements
<1>6. /\ DOMAIN x.draft \subseteq Code /\ x.invoice \in Invoice
      /\ InvoiceIsHeld(t) /\ DraftsAreHeld(t) /\ SalesAreHeld(t) /\ RowIsSound(t)
      /\ WalkIsSound(t)
  BY <1>1, TillFacts
<1>7. InvoiceIsHeld(t)'
  BY <1>1, <1>3, <1>4, <1>5, <1>6 DEF InvoiceIsHeld
<1>8. DraftsAreHeld(t)'
  BY <1>1, <1>3, <1>4, <1>5, <1>6 DEF DraftsAreHeld
<1>9. SalesAreHeld(t)'
  <2>1. OldSales(x) \subseteq Code
    BY <1>6, RowFields DEF OldSales, IInv
  <2>2. \A c \in OldSales(x) :
          /\ lock[c] = t /\ c \notin delivered /\ ~Replaced(c)
          /\ \A i \in Invoice : invoices[i].redeemed[c] = 0
    BY <1>1, <1>6, <2>1, ViewReplaces DEF SalesAreHeld, Untouched, Replaced
  <2> QED
    BY <1>1, <1>3, <1>4, <1>5, <2>1, <2>2 DEF SalesAreHeld
<1>10. RowIsSound(t)'
  BY <1>1, <1>3, <1>4, <1>5, <1>6 DEF RowIsSound
<1>11. WalkIsSound(t)'
  BY <1>1, <1>3, <1>4, <1>5, <1>6 DEF WalkIsSound
<1>12. TillOK(t)'
  BY <1>7, <1>8, <1>9, <1>10, <1>11 DEF TillOK
<1>13. /\ DOMAIN y.draft \subseteq Code /\ y \in Tx(DOMAIN y.draft)
       /\ \A u \in Till \ {t} :
            /\ y.invoice # tx[u].invoice \/ y.invoice = None
            /\ DOMAIN y.draft \cap DOMAIN tx[u].draft = {}
  BY <1>3, <1>6, TillFacts
<1>14. lock' \in [Code \cup Invoice -> Till \cup {None}]
  BY <1>1 DEF IInv, TypeOK
<1> QED
  BY <1>1, <1>12, <1>13, <1>14, TillMoves

LEMMA RollbackOK ==
    ASSUME IInv, NEW t \in Till, Rollback(t)
    PROVE  IInv'
<1>1. /\ tx' = [tx EXCEPT ![t] = IdleTx] /\ UNCHANGED <<cards, invoices, delivered>>
      /\ lock' = [r \in Code \cup Invoice |-> IF lock[r] = t THEN None ELSE lock[r]]
  BY DEF Rollback, End
<1>2. tx'[t] = IdleTx
  BY <1>1 DEF IInv, TypeOK
<1>3. TillOK(t)'
  BY <1>2, IdleIsOK
<1>4. lock' \in [Code \cup Invoice -> Till \cup {None}]
  BY <1>1 DEF IInv, TypeOK
<1>5. \A r \in Code \cup Invoice : lock[r] \in Till \ {t} => lock'[r] = lock[r]
  BY <1>1
<1>6. /\ DOMAIN IdleTx.draft = {} /\ IdleTx \in Tx({}) /\ IdleTx.invoice = None
  BY IdleTypes, IdleFields
<1> QED
  BY <1>1, <1>3, <1>4, <1>5, <1>6, TillMoves

LEMMA RebuildOK ==
    ASSUME IInv, NEW t \in Till, Rebuild(t)
    PROVE  IInv'
<1> DEFINE x == tx[t]
           W == DOMAIN x.draft \cup OldSales(x)
           row == [x.row EXCEPT !.sold = {}, !.redeemed = NoRow.redeemed]
           draft == [c \in W |-> IF c \in OldSales(x) THEN NoCard ELSE x.draft[c]]
           y == [x EXCEPT !.pc = "sell", !.row = row, !.draft = draft]
<1>1. /\ x.pc = "refund" /\ x.todo = {}
      /\ UNCHANGED <<cards, invoices, delivered, lock>>
  BY DEF Rebuild
<1>2. /\ x \in Tx(DOMAIN x.draft) /\ DOMAIN x.draft \subseteq Code /\ x.invoice \in Invoice
      /\ x.row \in Row /\ x.draft \in [DOMAIN x.draft -> Card]
      /\ InvoiceIsHeld(t) /\ DraftsAreHeld(t) /\ SalesAreHeld(t) /\ RowIsSound(t)
      /\ WalkIsSound(t)
  BY <1>1, TillFacts, TxFields
<1>3. OldSales(x) \subseteq Code /\ W \subseteq Code
  BY <1>2, RowFields DEF OldSales, IInv
<1>4. /\ row \in Row /\ row.sold = {} /\ row.exists = x.row.exists
      /\ row.refunded = x.row.refunded /\ \A c \in Code : row.redeemed[c] = 0
  BY <1>2, IdleTypes DEF Row, NoRow
<1>5. /\ draft \in [W -> Card] /\ DOMAIN draft = W
      /\ \A c \in OldSales(x) : draft[c] = NoCard
      /\ \A c \in W \ OldSales(x) : c \in DOMAIN x.draft /\ draft[c] = x.draft[c]
  <2>1. NoCard \in Card
    BY DEF NoCard, Card
  <2> QED
    BY <1>2, <2>1
<1>6. tx' = [tx EXCEPT ![t] = y]
  BY <1>2 DEF Rebuild, Tx, Row
<1> HIDE DEF row, draft
<1>7. /\ y \in Tx(W) /\ y.pc = "sell" /\ y.invoice = x.invoice /\ y.row = row
      /\ y.draft = draft /\ y.todo = x.todo /\ y.at = x.at
  BY <1>2, <1>4, <1>5 DEF Tx
<1>8. tx'[t] = y
  BY <1>6 DEF IInv, TypeOK
<1> HIDE DEF y, W
<1>9. /\ OldSales(tx[t])' = OldSales(x) /\ ~Selling(t) /\ Selling(t)'
      /\ \A d \in Code : Replaced(d)' <=> Replaced(d)
  BY <1>1, <1>7, <1>8 DEF OldSales, Selling, Replaced, Replacements
<1>10. \A c \in OldSales(x) :
          /\ lock[c] = t /\ c \notin delivered /\ ~Replaced(c)
          /\ \A i \in Invoice : invoices[i].redeemed[c] = 0
          /\ Origin(cards[c]) = None /\ cards[c].exists
  <2>1. \A c \in OldSales(x) : Origin(cards[c]) = None /\ cards[c].exists
    BY <1>2 DEF IInv, CommittedIsWhole, OldSales, Origin
  <2> QED
    BY <1>1, <1>2, <2>1 DEF SalesAreHeld
<1>11. InvoiceIsHeld(t)'
  BY <1>1, <1>2, <1>7, <1>8, <1>9 DEF InvoiceIsHeld
<1>12. DraftsAreHeld(t)'
  <2> SUFFICES ASSUME NEW c \in W
               PROVE  /\ lock[c] = t \/ ~cards[c].exists
                      /\ Origin(draft[c]) = Origin(cards[c])
                      /\ Replaced(c) => draft[c].balance = 0 /\ ~draft[c].active
                      /\ \/ c \in OldSales(x) \/ ~cards[c].exists
                         \/ draft[c].face = cards[c].face
                      /\ c \in OldSales(x) \/ draft[c].exists
    BY <1>1, <1>3, <1>5, <1>7, <1>8, <1>9 DEF DraftsAreHeld
  <2>1. CASE c \in OldSales(x)
    BY <1>5, <1>10, <2>1 DEF NoCard, Origin
  <2>2. CASE c \notin OldSales(x)
    BY <1>2, <1>5, <1>9, <2>2 DEF DraftsAreHeld
  <2> QED
    BY <2>1, <2>2
<1>13. SalesAreHeld(t)'
  BY <1>1, <1>3, <1>7, <1>8, <1>9, <1>10 DEF SalesAreHeld
<1>14. RowIsSound(t)'
  <2>1. /\ x.row.exists
        /\ \A c \in Code : row.refunded[c] = 0 /\ row.refunded[c] <= row.redeemed[c]
    BY <1>1, <1>2, <1>4 DEF RowIsSound
  <2>2. \A c \in Code : ~(row.redeemed[c] > 0)
    <3> SUFFICES ASSUME NEW c \in Code PROVE ~(row.redeemed[c] > 0)
      OBVIOUS
    <3>1. row.redeemed[c] = 0
      BY <1>4
    <3> QED
      BY <3>1
  <2> QED
    BY <1>4, <1>7, <1>8, <2>1, <2>2 DEF RowIsSound
<1>15. WalkIsSound(t)'
  <2>1. x.at = None
    BY <1>1, <1>2 DEF WalkIsSound
  <2> QED
    BY <1>7, <1>8, <2>1 DEF WalkIsSound
<1>16. TillOK(t)'
  BY <1>11, <1>12, <1>13, <1>14, <1>15 DEF TillOK
<1>17. /\ DOMAIN y.draft \subseteq Code /\ y \in Tx(DOMAIN y.draft)
  BY <1>3, <1>5, <1>7
<1>18. \A u \in Till \ {t} :
         /\ y.invoice # tx[u].invoice \/ y.invoice = None
         /\ DOMAIN y.draft \cap DOMAIN tx[u].draft = {}
  <2> SUFFICES ASSUME NEW u \in Till \ {t}
               PROVE  /\ y.invoice # tx[u].invoice \/ y.invoice = None
                      /\ W \cap DOMAIN tx[u].draft = {}
    BY <1>5, <1>7
  <2>1. \A c \in OldSales(x) : c \notin DOMAIN tx[u].draft
    BY <1>10, TillFacts DEF DraftsAreHeld
  <2> QED
    BY <1>7, <2>1, TillFacts DEF W
<1>19. lock' \in [Code \cup Invoice -> Till \cup {None}]
  BY <1>1 DEF IInv, TypeOK
<1> QED
  BY <1>1, <1>6, <1>16, <1>17, <1>18, <1>19, TillMoves

Written(W, x, c, card, y) ==
    /\ y \in Tx(W \cup {c}) /\ DOMAIN y.draft = W \cup {c}
    /\ y.draft[c] = card /\ \A d \in W \ {c} : y.draft[d] = x.draft[d]
    /\ y.pc = x.pc /\ y.invoice = x.invoice /\ y.row = x.row /\ y.todo = x.todo
    /\ y.at = x.at /\ y.code = x.code /\ y.amount = x.amount

LEMMA WriteFields ==
    ASSUME NEW W, NEW x \in Tx(W), NEW c \in Code, NEW card \in Card
    PROVE  Written(W, x, c, card, Write(x, c, card))
<1> DEFINE draft == [d \in DOMAIN x.draft \cup {c} |-> IF d = c THEN card ELSE x.draft[d]]
<1>1. DOMAIN x.draft = W /\ x.draft \in [W -> Card]
  BY TxFields
<1>2. /\ draft \in [W \cup {c} -> Card] /\ draft[c] = card
      /\ \A d \in W \ {c} : draft[d] = x.draft[d]
  BY <1>1
<1>3. Write(x, c, card) = [x EXCEPT !.draft = draft]
  BY DEF Write
<1> HIDE DEF draft
<1> QED
  BY <1>2, <1>3 DEF Tx, Written

LEMMA SellOK ==
    ASSUME IInv, NEW t \in Till, NEW c \in Code, NEW amount \in Amount, Sell(t, c, amount)
    PROVE  IInv'
<1> DEFINE x == tx[t]
           W == DOMAIN x.draft
           z == Write(x, c, NewCard(amount))
           row == [x.row EXCEPT !.sold = @ \cup {c}]
           y == [z EXCEPT !.row = row]
<1>1. /\ x.pc = "sell" /\ UNCHANGED <<cards, invoices, delivered, lock>>
      /\ Fresh(c) \/ (c \in OldSales(x) /\ ~View(t)[c].exists)
  BY DEF Sell
<1>2. /\ x \in Tx(W) /\ W \subseteq Code /\ x.invoice \in Invoice /\ x.row \in Row
      /\ InvoiceIsHeld(t) /\ DraftsAreHeld(t) /\ SalesAreHeld(t) /\ RowIsSound(t)
      /\ WalkIsSound(t)
  BY <1>1, TillFacts, TxFields
<1>3. /\ row \in Row /\ row.sold = x.row.sold \cup {c} /\ row.exists = x.row.exists
      /\ row.redeemed = x.row.redeemed /\ row.refunded = x.row.refunded
  BY <1>2 DEF Row
<1>4. NewCard(amount) \in Card /\ NewCard(amount).exists /\ NewCard(amount).replaces = None
  BY NewCardFields DEF Amount
<1> HIDE DEF x, W
<1>5. /\ z \in Tx(W \cup {c}) /\ DOMAIN z.draft = W \cup {c}
      /\ z.draft[c] = NewCard(amount) /\ \A d \in W \ {c} : z.draft[d] = x.draft[d]
      /\ z.pc = x.pc /\ z.invoice = x.invoice /\ z.row = x.row /\ z.at = x.at
      /\ z.todo = x.todo
  BY <1>2, <1>4, WriteFields DEF Written
<1> USE DEF x, W
<1>6. tx' = [tx EXCEPT ![t] = y]
  <2>1. y = [z EXCEPT !.row.sold = @ \cup {c}]
    BY <1>5, <1>2 DEF Tx, Row
  <2> QED
    BY <2>1 DEF Sell
<1> HIDE DEF z, row
<1>7. /\ y \in Tx(W \cup {c}) /\ y.pc = "sell" /\ y.invoice = x.invoice /\ y.row = row
      /\ y.draft = z.draft /\ y.at = x.at
  BY <1>1, <1>3, <1>5 DEF Tx
<1>8. tx'[t] = y
  BY <1>6 DEF IInv, TypeOK
<1> HIDE DEF y
<1>9. /\ OldSales(tx[t])' = OldSales(x) /\ OldTender(tx[t])' = OldTender(x)
      /\ Selling(t) /\ Selling(t)' /\ \A d \in Code : Replaced(d)' <=> Replaced(d)
  BY <1>1, <1>7, <1>8 DEF OldSales, OldTender, Selling, Replaced, Replacements
<1>10. /\ Origin(cards[c]) = None /\ ~Replaced(c)
       /\ ~cards[c].exists \/ (c \in OldSales(x) /\ lock[c] = t)
       /\ \A u \in Till \ {t} : c \notin DOMAIN tx[u].draft
  <2>1. CASE Fresh(c)
    BY <2>1 DEF Fresh, IInv, CommittedIsWhole, Origin
  <2>2. CASE c \in OldSales(x)
    <3>1. lock[c] = t /\ ~Replaced(c)
      BY <1>2, <1>9, <2>2 DEF SalesAreHeld
    <3>2. cards[c].exists /\ cards[c].replaces = None
      BY <1>2, <2>2 DEF IInv, CommittedIsWhole, OldSales
    <3>3. \A u \in Till \ {t} : c \notin DOMAIN tx[u].draft
      BY <3>1, <3>2, TillFacts DEF DraftsAreHeld
    <3> QED
      BY <2>2, <3>1, <3>2, <3>3 DEF Origin
  <2> QED
    BY <1>1, <2>1, <2>2
<1>11. InvoiceIsHeld(t)'
  BY <1>1, <1>2, <1>7, <1>8, <1>9 DEF InvoiceIsHeld
<1>12. DraftsAreHeld(t)'
  <2> SUFFICES ASSUME NEW d \in W \cup {c}
               PROVE  /\ lock[d] = t \/ ~cards[d].exists
                      /\ Origin(z.draft[d]) = Origin(cards[d])
                      /\ Replaced(d) => z.draft[d].balance = 0 /\ ~z.draft[d].active
                      /\ \/ d \in OldSales(x) \/ ~cards[d].exists
                         \/ z.draft[d].face = cards[d].face
                      /\ d \in OldSales(x) \/ z.draft[d].exists
    BY <1>1, <1>2, <1>5, <1>7, <1>8, <1>9 DEF DraftsAreHeld
  <2>1. CASE d = c
    BY <1>4, <1>5, <1>10, <2>1 DEF Origin
  <2>2. CASE d # c
    BY <1>2, <1>5, <1>9, <2>2 DEF DraftsAreHeld
  <2> QED
    BY <2>1, <2>2
<1>13. SalesAreHeld(t)'
  <2>1. OldSales(x) \subseteq Code
    BY <1>2, RowFields DEF OldSales, IInv
  <2> QED
    BY <1>1, <1>2, <1>7, <1>8, <1>9, <2>1 DEF SalesAreHeld
<1>14. RowIsSound(t)'
  <2>1. \A d \in W \cup {c} : ~z.draft[d].exists => d \in W /\ ~x.draft[d].exists
    BY <1>4, <1>5
  <2>2. /\ \A d \in row.sold :
             /\ ~(d \in W \cup {c} /\ ~z.draft[d].exists)
             /\ d \in OldSales(x) \/ (d \in W \cup {c} /\ ~cards[d].exists)
    <3>1. \A d \in x.row.sold :
             /\ ~(d \in W /\ ~x.draft[d].exists)
             /\ d \in OldSales(x) \/ (d \in W /\ ~cards[d].exists)
      BY <1>2 DEF RowIsSound
    <3>2. z.draft[c].exists
      BY <1>4, <1>5
    <3> QED
      BY <1>3, <1>10, <2>1, <3>1, <3>2
  <2>3. \A d \in Code : row.redeemed[d] > 0 =>
             /\ ~(d \in W \cup {c} /\ ~z.draft[d].exists)
             /\ \/ d \in OldTender(x)
                \/ d \in W \cup {c} /\ lock[d] = t /\ ~Replaced(d)
    BY <1>2, <1>3, <2>1 DEF RowIsSound
  <2>4. /\ row.exists
        /\ \A d \in Code : row.refunded[d] <= row.redeemed[d] /\ row.refunded[d] = 0
    BY <1>1, <1>2, <1>3 DEF RowIsSound
  <2> QED
    BY <1>1, <1>5, <1>7, <1>8, <1>9, <2>2, <2>3, <2>4 DEF RowIsSound
<1>15. WalkIsSound(t)'
  BY <1>1, <1>2, <1>7, <1>8 DEF WalkIsSound
<1>16. TillOK(t)'
  BY <1>11, <1>12, <1>13, <1>14, <1>15 DEF TillOK
<1>17. DOMAIN y.draft \subseteq Code /\ y \in Tx(DOMAIN y.draft)
  BY <1>2, <1>5, <1>7
<1>18. \A u \in Till \ {t} :
         /\ y.invoice # tx[u].invoice \/ y.invoice = None
         /\ DOMAIN y.draft \cap DOMAIN tx[u].draft = {}
  BY <1>5, <1>7, <1>10, TillFacts
<1>19. lock' \in [Code \cup Invoice -> Till \cup {None}]
  BY <1>1 DEF IInv, TypeOK
<1> QED
  BY <1>1, <1>6, <1>16, <1>17, <1>18, <1>19, TillMoves

-----------------------------------------------------------------------------
(* Redeeming and paying back: x is the transaction with the money on its way *)
(* to or from x.code, and c the card reached.                                *)

OnTheWay(t, x, c) ==
    /\ x \in Tx(DOMAIN tx[t].draft) /\ x.invoice = tx[t].invoice /\ x.row = tx[t].row
    /\ x.draft = tx[t].draft /\ x.todo = tx[t].todo
    /\ x.pc \in {"refund", "redeem", "tender"}
    /\ x.pc = tx[t].pc \/ (Selling(t) /\ x.pc = "redeem")
    /\ x.code \in Code /\ (c \in DOMAIN tx[t].draft \/ cards[c].exists)
    /\ x.pc = "refund" => x.code \in x.todo
    /\ x.pc = "redeem" => /\ x.amount > 0
                          /\ \/ x.code \in OldTender(x)
                             \/ c = x.code /\ View(t)[c].exists
    /\ x.pc = "tender" => Refundable(x, x.code, x.amount)

\* The step takes the lock of c and makes the transaction y.
Reaches(t, x, c, y) ==
    /\ OnTheWay(t, x, c) /\ Free(c, t) /\ lock' = [lock EXCEPT ![c] = t]
    /\ UNCHANGED <<cards, invoices, delivered>> /\ tx' = [tx EXCEPT ![t] = y]
    /\ y.pc = x.pc /\ y.invoice = x.invoice

\* What such a step keeps.
Kept(t, c, y) ==
    /\ invoices'[y.invoice] = invoices[tx[t].invoice]
    /\ Selling(t)' <=> Selling(t)
    /\ \A d \in Code : Replaced(d)' <=> Replaced(d)
    /\ OldSales(tx[t]) \subseteq Code
    /\ tx[t].pc # "idle" /\ tx[t].invoice \in Invoice
    /\ \A r \in Code \cup Invoice : lock[r] = t => lock'[r] = t
    /\ lock'[c] = t
    /\ InvoiceIsHeld(t)' /\ SalesAreHeld(t)'
    /\ \A u \in Till \ {t} : c \notin DOMAIN tx[u].draft

LEMMA ReachKeeps ==
    ASSUME IInv, NEW t \in Till, NEW x, NEW c \in Code, NEW y, Reaches(t, x, c, y)
    PROVE  Kept(t, c, y)
<1> USE DEF Reaches, Kept
<1>1. tx'[t] = y
  BY DEF IInv, TypeOK
<1>2. /\ tx[t].pc # "idle" /\ (Selling(t)' <=> Selling(t))
      /\ (tx[t].pc = "refund" <=> y.pc = "refund") /\ tx[t].pc # "lock" /\ y.pc # "lock"
      /\ y.pc # "idle"
  BY <1>1 DEF OnTheWay, Selling
<1>3. tx[t].invoice \in Invoice /\ y.invoice = tx[t].invoice
  BY <1>2, TillFacts DEF OnTheWay
<1>4. OldSales(tx[t])' = OldSales(tx[t]) /\ OldTender(tx[t])' = OldTender(tx[t])
  BY <1>1, <1>3 DEF OldSales, OldTender
<1>5. \A d \in Code : Replaced(d)' <=> Replaced(d)
  BY DEF Replaced, Replacements
<1>6. OldSales(tx[t]) \subseteq Code
  BY <1>3, RowFields DEF OldSales, IInv
<1>7. /\ \A r \in Code \cup Invoice : lock[r] = t => lock'[r] = t
      /\ lock'[c] = t
  BY LockIsFree
<1>8. InvoiceIsHeld(t)'
  BY <1>1, <1>2, <1>3, <1>7, TillFacts DEF InvoiceIsHeld
<1>9. SalesAreHeld(t)'
  <2>1. SalesAreHeld(t)
    BY TillFacts
  <2> QED
    BY <1>1, <1>2, <1>4, <1>5, <1>6, <1>7, <2>1 DEF SalesAreHeld
<1>10. \A u \in Till \ {t} : c \notin DOMAIN tx[u].draft
  <2> SUFFICES ASSUME NEW u \in Till \ {t}, c \in DOMAIN tx[u].draft PROVE FALSE
    OBVIOUS
  <2>1. lock[c] = u \/ ~cards[c].exists
    BY TillFacts DEF DraftsAreHeld
  <2>2. lock[c] # u
    BY DEF Free
  <2>3. c \notin DOMAIN tx[t].draft
    BY TillFacts
  <2> QED
    BY <2>1, <2>2, <2>3 DEF OnTheWay
<1> QED
  BY <1>1, <1>2, <1>3, <1>4, <1>5, <1>6, <1>7, <1>8, <1>9, <1>10

LEMMA WalkOn ==
    ASSUME IInv, NEW t \in Till, NEW x, NEW c \in Code, OnTheWay(t, x, c), Free(c, t),
           lock' = [lock EXCEPT ![c] = t], UNCHANGED <<cards, invoices, delivered>>,
           NEW n \in Successor(t, x, c), tx' = [tx EXCEPT ![t] = [x EXCEPT !.at = n]]
    PROVE  IInv'
<1> DEFINE y == [x EXCEPT !.at = n]
<1>1. n \in Replacements(View(t), c) /\ (x.pc = "redeem" => x.code \in OldTender(x))
  BY DEF Successor
<1>2. n \in Code /\ Origin(cards[n]) # None
  <2>1. n \in Code /\ Origin(View(t)[n]) = c
    BY <1>1 DEF Replacements, Origin
  <2> QED
    BY <2>1, ViewReplaces
<1>3. /\ y \in Tx(DOMAIN tx[t].draft) /\ y.pc = x.pc /\ y.invoice = x.invoice /\ y.at = n
      /\ y.row = tx[t].row /\ y.draft = tx[t].draft /\ y.todo = tx[t].todo
      /\ y.code = x.code /\ y.amount = x.amount /\ x.invoice = tx[t].invoice
      /\ x.row = tx[t].row
  BY <1>2 DEF OnTheWay, Tx
<1>4. tx' = [tx EXCEPT ![t] = y]
  OBVIOUS
<1> HIDE DEF y
<1>5. /\ tx'[t] = y /\ invoices'[y.invoice] = invoices[tx[t].invoice]
      /\ Selling(t)' <=> Selling(t)
      /\ \A d \in Code : Replaced(d)' <=> Replaced(d)
      /\ tx[t].pc # "idle" /\ tx[t].invoice \in Invoice
      /\ \A r \in Code \cup Invoice : lock[r] = t => lock'[r] = t
      /\ InvoiceIsHeld(t)' /\ SalesAreHeld(t)'
  <2>1. Reaches(t, x, c, y)
    BY <1>3, <1>4 DEF Reaches
  <2>2. tx'[t] = y
    BY <1>4 DEF IInv, TypeOK
  <2>3. Kept(t, c, y)
    BY <2>1, ReachKeeps
  <2> QED
    BY <2>2, <2>3 DEF Kept
<1>6. /\ DOMAIN tx[t].draft \subseteq Code
      /\ DraftsAreHeld(t) /\ RowIsSound(t) /\ WalkIsSound(t)
      /\ OldSales(tx[t])' = OldSales(tx[t]) /\ OldTender(tx[t])' = OldTender(tx[t])
  BY <1>5, TillFacts DEF OldSales, OldTender
<1>7. DraftsAreHeld(t)'
  <2>1. tx'[t].draft = tx[t].draft
    BY <1>3, <1>5
  <2> QED
    BY <1>5, <1>6, <2>1 DEF DraftsAreHeld
<1>8. RowIsSound(t)'
  <2>1. tx[t].pc = "tender" <=> y.pc = "tender"
    BY <1>3 DEF OnTheWay, Selling
  <2>2. y.pc # "idle" /\ tx[t].pc # "idle"
    BY <1>3, <1>5 DEF OnTheWay
  <2>3. tx'[t].row = tx[t].row /\ tx'[t].draft = tx[t].draft /\ tx'[t].pc = y.pc
    BY <1>3, <1>5
  <2>4. \A d \in Code : lock[d] = t => lock'[d] = t
    BY <1>5
  <2> QED
    BY <1>5, <1>6, <2>1, <2>2, <2>3, <2>4 DEF RowIsSound
<1>9. WalkIsSound(t)'
  <2>1. OldTender(x) = OldTender(tx[t])
    BY <1>3 DEF OldTender
  <2>2. y.pc = "refund" => y.todo \subseteq OldTender(tx[t])
    BY <1>3, <1>6 DEF WalkIsSound, OnTheWay, Selling
  <2>3. y.pc = "tender" => Refundable(y, y.code, y.amount)
    BY <1>3 DEF OnTheWay, Refundable
  <2>4. /\ y.pc \in {"refund", "redeem", "tender"} /\ y.code # None
        /\ y.pc = "refund" => y.code \in y.todo
        /\ y.pc = "redeem" => y.code \in OldTender(tx[t]) /\ y.amount > 0
    BY <1>1, <1>3, <2>1 DEF OnTheWay
  <2> QED
    BY <1>2, <1>3, <1>5, <1>6, <2>2, <2>3, <2>4 DEF WalkIsSound, Refundable
<1>10. TillOK(t)'
  BY <1>5, <1>7, <1>8, <1>9 DEF TillOK
<1>11. /\ DOMAIN y.draft \subseteq Code /\ y \in Tx(DOMAIN y.draft)
       /\ \A u \in Till \ {t} :
            /\ y.invoice # tx[u].invoice \/ y.invoice = None
            /\ DOMAIN y.draft \cap DOMAIN tx[u].draft = {}
  BY <1>3, <1>6, TillFacts
<1>12. /\ lock' \in [Code \cup Invoice -> Till \cup {None}]
       /\ \A r \in Code \cup Invoice : lock[r] \in Till \ {t} => lock'[r] = lock[r]
  BY LockIsFree
<1> QED
  BY <1>4, <1>10, <1>11, <1>12, TillMoves

LEMMA ViewCard ==
    ASSUME IInv, NEW t \in Till, NEW c \in Code
    PROVE  View(t)[c] \in Card
<1>1. cards \in [Code -> Card] /\ tx[t].draft \in [DOMAIN tx[t].draft -> Card]
  BY TillFacts, TxFields DEF IInv, TypeOK
<1> QED
  BY <1>1 DEF View

LEMMA RowWritten ==
    ASSUME NEW W, NEW x \in Tx(W), NEW row \in Row
    PROVE  LET y == [x EXCEPT !.row = row]
           IN /\ y \in Tx(W) /\ y.row = row /\ y.draft = x.draft /\ y.todo = x.todo
              /\ y.pc = x.pc /\ y.invoice = x.invoice
BY DEF Tx

LEMMA WalkEnds ==
    ASSUME NEW W, NEW x \in Tx(W)
    PROVE  LET y == [x EXCEPT !.at = None, !.code = None, !.amount = 0]
           IN /\ y \in Tx(W) /\ y.row = x.row /\ y.draft = x.draft /\ y.todo = x.todo
              /\ y.pc = x.pc /\ y.invoice = x.invoice /\ y.at = None
<1>1. 0 \in 0..MaxFace
  OBVIOUS
<1> QED
  BY <1>1 DEF Tx

\* The row a settlement leaves: what it redeems or refunds is in the row.
RowMoves(x, row) ==
    /\ row \in Row /\ row.exists = x.row.exists /\ row.sold = x.row.sold
    /\ \A d \in Code \ {x.code} : /\ row.redeemed[d] = x.row.redeemed[d]
                                  /\ row.refunded[d] = x.row.refunded[d]
    /\ x.pc = "redeem" => /\ row.redeemed[x.code] = x.amount
                          /\ row.refunded[x.code] = x.row.refunded[x.code]
    /\ x.pc # "redeem" => row.redeemed[x.code] = x.row.redeemed[x.code]
    /\ x.pc = "tender" => row.refunded[x.code] = x.row.refunded[x.code] + x.amount
    /\ x.pc = "refund" => row.refunded[x.code] = x.row.refunded[x.code]

\* The card it leaves: the balance with the amount taken or paid back, and
\* nothing else.
BalanceMoves(x, old, card) ==
    /\ card \in Card /\ card.exists = old.exists /\ card.face = old.face
    /\ card.active = old.active /\ card.replaces = old.replaces
    /\ x.pc = "redeem" => card.balance = old.balance - x.amount
    /\ x.pc # "redeem" => card.balance = old.balance + x.amount

Settles(W, x, c, old, y) ==
    /\ y \in Tx(W \cup {c}) /\ DOMAIN y.draft = W \cup {c}
    /\ BalanceMoves(x, old, y.draft[c])
    /\ \A d \in W \ {c} : y.draft[d] = x.draft[d]
    /\ y.pc = x.pc /\ y.invoice = x.invoice /\ y.at = None
    /\ y.todo = (IF x.pc = "refund" THEN x.todo \ {x.code} ELSE x.todo)
    /\ RowMoves(x, y.row)

LEMMA SettledFields ==
    ASSUME IInv, NEW t \in Till, NEW c \in Code, NEW W, NEW x \in Tx(W), x.code \in Code,
           x.pc \in {"refund", "redeem", "tender"},
           x.pc = "tender" => Refundable(x, x.code, x.amount),
           x.pc = "redeem" => Redeemable(View(t)[c], x.amount)
    PROVE  Settles(W, x, c, View(t)[c], Settled(t, x, c))
<1> DEFINE old == View(t)[c]
           code == x.code
<1>1. /\ old \in Card /\ old.balance \in Nat /\ x.amount \in Nat /\ x.row \in Row
      /\ \A d \in Code : x.row.redeemed[d] \in 0..MaxFace /\ x.row.refunded[d] \in 0..MaxFace
      /\ x.todo \subseteq Code /\ x.amount <= MaxFace
  BY ViewCard, TxFields DEF Card, Row
<1> HIDE DEF old
<1>2. CASE x.pc = "redeem"
  <2> DEFINE card == [old EXCEPT !.balance = @ - x.amount]
             z == Write(x, c, card)
             row == [x.row EXCEPT !.redeemed[code] = x.amount]
             w == [z EXCEPT !.row = row]
             y == [w EXCEPT !.at = None, !.code = None, !.amount = 0]
  <2>1. old.balance - x.amount \in Nat
    BY <1>1, <1>2 DEF Redeemable, old
  <2>2. card \in Card /\ BalanceMoves(x, old, card)
    BY <1>1, <1>2, <2>1 DEF Card, BalanceMoves
  <2> HIDE DEF card
  <2>3. /\ z \in Tx(W \cup {c}) /\ DOMAIN z.draft = W \cup {c}
        /\ z.draft[c] = card /\ \A d \in W \ {c} : z.draft[d] = x.draft[d]
        /\ z.pc = x.pc /\ z.invoice = x.invoice /\ z.row = x.row /\ z.todo = x.todo
    <3>1. Written(W, x, c, card, z)
      BY <2>2, WriteFields
    <3> QED
      BY <3>1 DEF Written
  <2>4. row \in Row /\ RowMoves(x, row)
    BY <1>1, <1>2 DEF Row, RowMoves
  <2> HIDE DEF z
  <2>5. Settled(t, x, c) = y
    <3>1. Taken(t, x, c) = w
      <4>1. w = [z EXCEPT !.row.redeemed[code] = x.amount]
        BY <1>1, <2>3 DEF Tx, Row
      <4> QED
        BY <4>1 DEF Taken, z, card, old
    <3> QED
      BY <1>2, <3>1 DEF Settled
  <2>6. /\ y \in Tx(W \cup {c}) /\ y.draft = z.draft /\ y.pc = x.pc
        /\ y.invoice = x.invoice /\ y.at = None /\ y.todo = x.todo /\ y.row = row
    <3>1. /\ w \in Tx(W \cup {c}) /\ w.row = row /\ w.draft = z.draft /\ w.todo = z.todo
          /\ w.pc = z.pc /\ w.invoice = z.invoice
      <4> HIDE DEF row
      <4> QED
        BY <2>3, <2>4, RowWritten
    <3> HIDE DEF w
    <3> DEFINE V == W \cup {c}
    <3>2. w \in Tx(V)
      BY <3>1
    <3> HIDE DEF V
    <3>3. /\ y \in Tx(V) /\ y.row = w.row /\ y.draft = w.draft /\ y.todo = w.todo
         /\ y.pc = w.pc /\ y.invoice = w.invoice /\ y.at = None
      BY <3>2, WalkEnds
    <3> QED
      BY <2>3, <3>1, <3>3 DEF V
  <2> HIDE DEF y, row
  <2>7. Settles(W, x, c, old, y)
    BY <1>2, <2>2, <2>3, <2>4, <2>6 DEF Settles
  <2> QED
    BY <2>5, <2>7 DEF old
<1>3. CASE x.pc # "redeem"
  <2> DEFINE card == [old EXCEPT !.balance = @ + x.amount]
             z == Write(x, c, card)
  <2>1. card \in Card /\ BalanceMoves(x, old, card)
    BY <1>1, <1>3 DEF Card, BalanceMoves
  <2> HIDE DEF card
  <2>2. /\ z \in Tx(W \cup {c}) /\ DOMAIN z.draft = W \cup {c}
        /\ z.draft[c] = card /\ \A d \in W \ {c} : z.draft[d] = x.draft[d]
        /\ z.pc = x.pc /\ z.invoice = x.invoice /\ z.row = x.row /\ z.todo = x.todo
    <3>1. Written(W, x, c, card, z)
      BY <2>1, WriteFields
    <3> QED
      BY <3>1 DEF Written
  <2>3. CASE x.pc = "tender"
    <3> DEFINE row == [x.row EXCEPT !.refunded[code] = @ + x.amount]
               w == [z EXCEPT !.row = row]
               y == [w EXCEPT !.at = None, !.code = None, !.amount = 0]
    <3>1. x.row.refunded[code] + x.amount \in 0..MaxFace
      BY <1>1, <2>3 DEF Refundable
    <3>2. row \in Row /\ RowMoves(x, row)
      BY <1>1, <2>3, <3>1 DEF Row, RowMoves
    <3>3. Settled(t, x, c) = y
      <4>1. w = [z EXCEPT !.row.refunded[code] = @ + x.amount]
        BY <1>1, <2>2 DEF Tx, Row
      <4>2. PaidBack(t, x, c) = w
        BY <2>3, <4>1 DEF PaidBack, z, card, old
      <4> QED
        BY <1>3, <4>2 DEF Settled
    <3>4. /\ y \in Tx(W \cup {c}) /\ y.draft = z.draft /\ y.pc = x.pc
          /\ y.invoice = x.invoice /\ y.at = None /\ y.todo = x.todo /\ y.row = row
      <4>1. /\ w \in Tx(W \cup {c}) /\ w.row = row /\ w.draft = z.draft
            /\ w.todo = z.todo /\ w.pc = z.pc /\ w.invoice = z.invoice
        <5> HIDE DEF row, z
        <5> QED
          BY <2>2, <3>2, RowWritten
      <4> HIDE DEF w
      <4> DEFINE V == W \cup {c}
      <4>2. w \in Tx(V)
        BY <4>1
      <4> HIDE DEF V
      <4>3. /\ y \in Tx(V) /\ y.row = w.row /\ y.draft = w.draft /\ y.todo = w.todo
           /\ y.pc = w.pc /\ y.invoice = w.invoice /\ y.at = None
        BY <4>2, WalkEnds
      <4> QED
        BY <2>2, <4>1, <4>3 DEF V
    <3> HIDE DEF y, row
    <3>5. Settles(W, x, c, old, y)
      BY <2>1, <2>2, <2>3, <3>2, <3>4 DEF Settles
    <3> QED
      BY <3>3, <3>5 DEF old
  <2>4. CASE x.pc = "refund"
    <3> DEFINE w == [z EXCEPT !.todo = @ \ {code}]
               y == [w EXCEPT !.at = None, !.code = None, !.amount = 0]
    <3>1. RowMoves(x, x.row)
      BY <1>1, <2>4 DEF RowMoves
    <3>2. Settled(t, x, c) = y
      BY <1>3, <2>4 DEF Settled, PaidBack, z, card, old
    <3>3. /\ y \in Tx(W \cup {c}) /\ y.draft = z.draft /\ y.pc = x.pc
          /\ y.invoice = x.invoice /\ y.at = None /\ y.todo = x.todo \ {code}
          /\ y.row = x.row
      <4> HIDE DEF z
      <4>1. /\ w \in Tx(W \cup {c}) /\ w.draft = z.draft /\ w.pc = z.pc
            /\ w.invoice = z.invoice /\ w.todo = z.todo \ {code} /\ w.row = z.row
        BY <1>1, <2>2 DEF Tx
      <4> HIDE DEF w
      <4> DEFINE V == W \cup {c}
      <4>2. w \in Tx(V)
        BY <4>1
      <4> HIDE DEF V
      <4>3. /\ y \in Tx(V) /\ y.row = w.row /\ y.draft = w.draft /\ y.todo = w.todo
           /\ y.pc = w.pc /\ y.invoice = w.invoice /\ y.at = None
        BY <4>2, WalkEnds
      <4> QED
        BY <2>2, <4>1, <4>3 DEF V
    <3> HIDE DEF y
    <3>4. Settles(W, x, c, old, y)
      BY <2>1, <2>2, <2>4, <3>1, <3>3 DEF Settles
    <3> QED
      BY <3>2, <3>4 DEF old
  <2> QED
    BY <1>3, <2>3, <2>4
<1> QED
  BY <1>2, <1>3

LEMMA SettleOK ==
    ASSUME IInv, NEW t \in Till, NEW x, NEW c \in Code, OnTheWay(t, x, c), Free(c, t),
           lock' = [lock EXCEPT ![c] = t], UNCHANGED <<cards, invoices, delivered>>,
           Successor(t, x, c) = {},
           x.pc = "redeem" => Redeemable(View(t)[c], x.amount),
           tx' = [tx EXCEPT ![t] = Settled(t, x, c)]
    PROVE  IInv'
<1> DEFINE W == DOMAIN tx[t].draft
           y == Settled(t, x, c)
           old == View(t)[c]
<1>1. /\ x \in Tx(W) /\ x.code \in Code /\ x.pc \in {"refund", "redeem", "tender"}
      /\ x.pc = "tender" => Refundable(x, x.code, x.amount)
      /\ x.invoice = tx[t].invoice /\ x.row = tx[t].row /\ x.draft = tx[t].draft
      /\ x.todo = tx[t].todo /\ (c \in W \/ cards[c].exists)
  BY DEF OnTheWay
<1>2. tx' = [tx EXCEPT ![t] = y]
  OBVIOUS
<1>3. Settles(W, x, c, old, y)
  <2> HIDE DEF W
  <2> QED
    BY <1>1, SettledFields
<1> HIDE DEF y, old
<1>4. /\ y \in Tx(W \cup {c}) /\ DOMAIN y.draft = W \cup {c}
      /\ BalanceMoves(x, old, y.draft[c])
      /\ \A d \in W \ {c} : y.draft[d] = tx[t].draft[d]
      /\ y.pc = x.pc /\ y.invoice = x.invoice /\ y.at = None
      /\ y.todo \subseteq x.todo /\ RowMoves(x, y.row)
  BY <1>1, <1>3 DEF Settles
<1>5. Reaches(t, x, c, y)
  BY <1>2, <1>4 DEF Reaches
<1>6. Kept(t, c, y)
  BY <1>5, ReachKeeps
<1>7. /\ tx'[t] = y /\ W \subseteq Code
      /\ DraftsAreHeld(t) /\ RowIsSound(t) /\ WalkIsSound(t) /\ SalesAreHeld(t)
  BY <1>2, TillFacts DEF IInv, TypeOK
<1>8. /\ OldSales(tx[t])' = OldSales(tx[t]) /\ OldTender(tx[t])' = OldTender(tx[t])
      /\ OldTender(x) = OldTender(tx[t]) /\ tx[t].pc # "idle"
      /\ Selling(t)' <=> Selling(t)
      /\ \A d \in Code : Replaced(d)' <=> Replaced(d)
      /\ \A r \in Code \cup Invoice : lock[r] = t => lock'[r] = t
      /\ lock'[c] = t
  BY <1>1, <1>6, <1>7 DEF OldSales, OldTender, Kept
<1>9. ~Replaced(c)
  <2>1. CASE Replacements(View(t), c) = {}
    BY <2>1, ViewReplaces DEF Replaced
  <2>2. CASE Replacements(View(t), c) # {}
    <3>1. old.active
      BY <2>2 DEF Successor, Redeemable, old
    <3>2. Replaced(c) => ~old.active
      BY <1>7 DEF old, View, DraftsAreHeld, IInv, CommittedIsWhole
    <3> QED
      BY <3>1, <3>2
  <2> QED
    BY <2>1, <2>2
<1>10. /\ Origin(y.draft[c]) = Origin(cards[c])
       /\ c \in W => old = tx[t].draft[c]
       /\ c \notin W => old = cards[c] /\ cards[c].exists
       /\ y.draft[c].exists = old.exists /\ y.draft[c].face = old.face
  <2>1. Origin(old) = Origin(cards[c])
    BY ViewReplaces DEF old
  <2> QED
    BY <1>1, <1>4, <2>1 DEF BalanceMoves, Origin, old, View
<1>11. DraftsAreHeld(t)'
  <2> SUFFICES ASSUME NEW d \in W \cup {c}
               PROVE  /\ lock'[d] = t \/ ~cards[d].exists
                      /\ Origin(y.draft[d]) = Origin(cards[d])
                      /\ Replaced(d) => y.draft[d].balance = 0 /\ ~y.draft[d].active
                      /\ (Selling(t) /\ d \in OldSales(tx[t])) \/ ~cards[d].exists
                           \/ y.draft[d].face = cards[d].face
                      /\ (Selling(t) /\ d \in OldSales(tx[t])) \/ y.draft[d].exists
    BY <1>4, <1>7, <1>8 DEF DraftsAreHeld
  <2>1. CASE d = c
    BY <1>7, <1>8, <1>9, <1>10, <2>1 DEF DraftsAreHeld
  <2>2. CASE d # c
    BY <1>4, <1>7, <1>8, <2>2 DEF DraftsAreHeld
  <2> QED
    BY <2>1, <2>2
<1>12. RowIsSound(t)'
  <2> DEFINE Wiped(d) == d \in W /\ ~tx[t].draft[d].exists
             WipedNow(d) == d \in W \cup {c} /\ ~y.draft[d].exists
             Known(d) == d \in OldTender(tx[t])
             Won(d) == d \in W \cup {c} /\ lock'[d] = t /\ ~Replaced(d)
  <2>1. \A d \in Code : WipedNow(d) => Wiped(d)
    BY <1>4, <1>10
  <2>2. \A d \in y.row.sold :
          /\ ~WipedNow(d)
          /\ d \in OldSales(tx[t]) \/ (d \in W \cup {c} /\ ~cards[d].exists)
    <3>1. y.row.sold = tx[t].row.sold /\ y.row.sold \subseteq Code
      BY <1>1, <1>4 DEF RowMoves, Row
    <3> QED
      BY <1>7, <2>1, <3>1 DEF RowIsSound
  <2>3. \A d \in Code : tx[t].row.redeemed[d] > 0 => ~WipedNow(d) /\ (Known(d) \/ Won(d))
    BY <1>7, <1>8, <2>1 DEF RowIsSound
  <2>4. x.pc = "redeem" => ~WipedNow(x.code) /\ (Known(x.code) \/ Won(x.code))
    <3> SUFFICES ASSUME x.pc = "redeem"
                 PROVE  ~WipedNow(x.code) /\ (Known(x.code) \/ Won(x.code))
      OBVIOUS
    <3>1. CASE x.code \in OldTender(x)
      <4>1. invoices[tx[t].invoice].redeemed[x.code] > 0 /\ tx[t].invoice \in Invoice
        BY <1>1, <1>6, <3>1 DEF OldTender, Kept
      <4>2. ~(Selling(t) /\ x.code \in OldSales(tx[t]))
        BY <1>7, <4>1 DEF SalesAreHeld
      <4>3. ~Wiped(x.code)
        BY <1>7, <4>2 DEF DraftsAreHeld
      <4> QED
        BY <1>1, <1>8, <2>1, <3>1, <4>3
    <3>2. CASE c = x.code /\ old.exists
      BY <1>8, <1>9, <1>10, <3>2
    <3> QED
      BY <3>1, <3>2 DEF OnTheWay, old
  <2>5. \A d \in Code : y.row.redeemed[d] > 0 => ~WipedNow(d) /\ (Known(d) \/ Won(d))
    <3> SUFFICES ASSUME NEW d \in Code, y.row.redeemed[d] > 0
                 PROVE  ~WipedNow(d) /\ (Known(d) \/ Won(d))
      OBVIOUS
    <3>1. CASE x.pc = "redeem" /\ d = x.code
      BY <2>4, <3>1
    <3>2. CASE ~(x.pc = "redeem" /\ d = x.code)
      <4>1. y.row.redeemed[d] = tx[t].row.redeemed[d]
        BY <1>1, <1>4, <3>2 DEF RowMoves
      <4> QED
        BY <2>3, <4>1
    <3> QED
      BY <3>1, <3>2
  <2>6. \A d \in Code : /\ y.row.refunded[d] <= y.row.redeemed[d]
                        /\ y.pc # "tender" => y.row.refunded[d] = 0
    <3> SUFFICES ASSUME NEW d \in Code
                 PROVE  /\ y.row.refunded[d] <= y.row.redeemed[d]
                        /\ y.pc # "tender" => y.row.refunded[d] = 0
      OBVIOUS
    <3>1. /\ tx[t].row.refunded[d] <= tx[t].row.redeemed[d]
          /\ tx[t].pc # "tender" => tx[t].row.refunded[d] = 0
          /\ tx[t].row.refunded[d] \in Nat /\ tx[t].row.redeemed[d] \in Nat
          /\ x.amount \in Nat
      BY <1>1, <1>7, TxFields DEF RowIsSound, Row
    <3>2. x.pc # "tender" => tx[t].pc # "tender"
      BY DEF OnTheWay, Selling
    <3>3. CASE d # x.code
      BY <1>1, <1>4, <3>1, <3>2, <3>3 DEF RowMoves
    <3>4. CASE d = x.code /\ x.pc = "redeem"
      BY <1>1, <1>4, <3>1, <3>2, <3>4 DEF RowMoves
    <3>5. CASE d = x.code /\ x.pc = "tender"
      BY <1>1, <1>4, <3>1, <3>5 DEF RowMoves, Refundable
    <3>6. CASE d = x.code /\ x.pc = "refund"
      BY <1>1, <1>4, <3>1, <3>2, <3>6 DEF RowMoves
    <3> QED
      BY <1>1, <3>3, <3>4, <3>5, <3>6
  <2>7. y.row.exists
    BY <1>1, <1>4, <1>7, <1>8 DEF RowIsSound, RowMoves
  <2> QED
    BY <1>4, <1>7, <1>8, <2>2, <2>5, <2>6, <2>7 DEF RowIsSound
<1>13. WalkIsSound(t)'
  <2>1. y.pc = "refund" => y.todo \subseteq OldTender(tx[t])
    BY <1>1, <1>4, <1>7 DEF WalkIsSound, OnTheWay, Selling
  <2> QED
    BY <1>4, <1>7, <1>8, <2>1 DEF WalkIsSound
<1>14. TillOK(t)'
  BY <1>6, <1>11, <1>12, <1>13 DEF TillOK, Kept
<1>15. DOMAIN y.draft \subseteq Code /\ y \in Tx(DOMAIN y.draft)
  BY <1>4, <1>7
<1>16. \A u \in Till \ {t} :
         /\ y.invoice # tx[u].invoice \/ y.invoice = None
         /\ DOMAIN y.draft \cap DOMAIN tx[u].draft = {}
  BY <1>1, <1>4, <1>6, TillFacts DEF Kept
<1>17. /\ lock' \in [Code \cup Invoice -> Till \cup {None}]
       /\ \A r \in Code \cup Invoice : lock[r] \in Till \ {t} => lock'[r] = lock[r]
  BY LockIsFree
<1> QED
  BY <1>2, <1>14, <1>15, <1>16, <1>17, TillMoves

LEMMA ReachOK ==
    ASSUME IInv, NEW t \in Till, NEW x, NEW c \in Code, OnTheWay(t, x, c), Reach(t, x, c)
    PROVE  IInv'
<1>1. /\ Free(c, t) /\ lock' = [lock EXCEPT ![c] = t]
      /\ UNCHANGED <<cards, invoices, delivered>>
  BY DEF Reach
<1>2. CASE Successor(t, x, c) # {}
  <2>1. \E n \in Successor(t, x, c) : tx' = [tx EXCEPT ![t] = [x EXCEPT !.at = n]]
    BY <1>2 DEF Reach
  <2> QED
    BY <1>1, <2>1, WalkOn
<1>3. CASE Successor(t, x, c) = {}
  <2>1. /\ x.pc = "redeem" => Redeemable(View(t)[c], x.amount)
        /\ tx' = [tx EXCEPT ![t] = Settled(t, x, c)]
    BY <1>3 DEF Reach
  <2> QED
    BY <1>1, <1>3, <2>1, SettleOK
<1> QED
  BY <1>2, <1>3

\* Each of the steps that moves money is a Reach, from c itself or on the way.
LEMMA PayBackReaches ==
    ASSUME IInv, NEW t \in Till, NEW c \in Code, PayBack(t, c)
    PROVE  \E x : /\ OnTheWay(t, x, c) /\ Reach(t, x, c) /\ x.pc = "refund"
                  /\ x.code = c /\ x.amount = invoices[tx[t].invoice].redeemed[c]
<1> DEFINE amount == invoices[tx[t].invoice].redeemed[c]
           x == [tx[t] EXCEPT !.code = c, !.amount = amount]
<1>1. tx[t].pc = "refund" /\ c \in tx[t].todo /\ Reach(t, x, c)
  BY DEF PayBack
<1>2. tx[t].invoice \in Invoice /\ c \in OldTender(tx[t])
  BY <1>1, TillFacts DEF WalkIsSound
<1>3. amount \in 0..MaxFace /\ amount > 0
  BY <1>2, RowFields DEF IInv, OldTender
<1>4. cards[c].exists
  BY <1>2, <1>3 DEF IInv, CommittedIsWhole
<1> HIDE DEF amount
<1>5. /\ x \in Tx(DOMAIN tx[t].draft) /\ x.invoice = tx[t].invoice /\ x.row = tx[t].row
      /\ x.draft = tx[t].draft /\ x.todo = tx[t].todo /\ x.pc = "refund" /\ x.code = c
      /\ x.amount = amount
  <2>1. tx[t] \in Tx(DOMAIN tx[t].draft)
    BY TillFacts
  <2> QED
    BY <1>1, <1>3, <2>1 DEF Tx
<1> HIDE DEF x
<1>6. OnTheWay(t, x, c)
  BY <1>1, <1>4, <1>5 DEF OnTheWay
<1> QED
  BY <1>1, <1>5, <1>6 DEF amount

LEMMA PayBackOK ==
    ASSUME IInv, NEW t \in Till, NEW c \in Code, PayBack(t, c)
    PROVE  IInv'
BY PayBackReaches, ReachOK

LEMMA RedeemReaches ==
    ASSUME IInv, NEW t \in Till, NEW c \in Code, NEW amount \in Amount, Redeem(t, c, amount)
    PROVE  \E x : OnTheWay(t, x, c) /\ Reach(t, x, c) /\ x.pc = "redeem" /\ x.code = c
<1> DEFINE x == [tx[t] EXCEPT !.pc = "redeem", !.code = c, !.amount = amount]
<1>1. /\ tx[t].pc \in {"sell", "redeem"} /\ View(t)[c].exists /\ Reach(t, x, c)
  BY DEF Redeem
<1>2. amount \in 0..MaxFace /\ amount > 0
  BY DEF Amount
<1>3. /\ x \in Tx(DOMAIN tx[t].draft) /\ x.invoice = tx[t].invoice /\ x.row = tx[t].row
      /\ x.draft = tx[t].draft /\ x.todo = tx[t].todo /\ x.pc = "redeem" /\ x.code = c
      /\ x.amount = amount
  BY <1>2, TillFacts DEF Tx
<1> HIDE DEF x
<1>4. c \in DOMAIN tx[t].draft \/ cards[c].exists
  BY <1>1 DEF View
<1>5. OnTheWay(t, x, c)
  BY <1>1, <1>2, <1>3, <1>4 DEF OnTheWay, Selling
<1> QED
  BY <1>1, <1>3, <1>5

LEMMA RedeemOK ==
    ASSUME IInv, NEW t \in Till, NEW c \in Code, NEW amount \in Amount, Redeem(t, c, amount)
    PROVE  IInv'
BY RedeemReaches, ReachOK

LEMMA RefundCardReaches ==
    ASSUME IInv, NEW t \in Till, NEW c \in Code, NEW amount \in Amount,
           RefundCard(t, c, amount)
    PROVE  \E x : OnTheWay(t, x, c) /\ Reach(t, x, c) /\ x.pc = "tender" /\ x.code = c
<1> DEFINE x == [tx[t] EXCEPT !.code = c, !.amount = amount]
<1>1. tx[t].pc = "tender" /\ Refundable(tx[t], c, amount) /\ Reach(t, x, c)
  BY DEF RefundCard
<1>2. amount \in 0..MaxFace /\ amount > 0
  BY DEF Amount
<1>3. /\ x \in Tx(DOMAIN tx[t].draft) /\ x.invoice = tx[t].invoice /\ x.row = tx[t].row
      /\ x.draft = tx[t].draft /\ x.todo = tx[t].todo /\ x.pc = "tender" /\ x.code = c
      /\ x.amount = amount
  BY <1>1, <1>2, TillFacts DEF Tx
<1> HIDE DEF x
<1>4. c \in DOMAIN tx[t].draft \/ cards[c].exists
  <2>1. tx[t].invoice \in Invoice /\ RowIsSound(t) /\ tx[t].row \in Row
    BY <1>1, TillFacts, TxFields
  <2>2. tx[t].row.redeemed[c] > 0
    <3>1. tx[t].row.redeemed[c] \in 0..MaxFace /\ tx[t].row.refunded[c] \in 0..MaxFace
      BY <2>1 DEF Row
    <3> QED
      BY <1>1, <1>2, <3>1 DEF Refundable
  <2>3. c \in OldTender(tx[t]) \/ c \in DOMAIN tx[t].draft
    BY <2>1, <2>2 DEF RowIsSound
  <2> QED
    BY <2>1, <2>3 DEF IInv, CommittedIsWhole, OldTender
<1>5. OnTheWay(t, x, c)
  BY <1>1, <1>3, <1>4 DEF OnTheWay, Refundable
<1> QED
  BY <1>1, <1>3, <1>5

LEMMA RefundCardOK ==
    ASSUME IInv, NEW t \in Till, NEW c \in Code, NEW amount \in Amount,
           RefundCard(t, c, amount)
    PROVE  IInv'
BY RefundCardReaches, ReachOK

LEMMA FollowReaches ==
    ASSUME IInv, NEW t \in Till, Follow(t)
    PROVE  /\ tx[t].at \in Code /\ OnTheWay(t, tx[t], tx[t].at)
           /\ Reach(t, tx[t], tx[t].at)
<1> DEFINE x == tx[t]
           c == tx[t].at
<1>1. c # None /\ Reach(t, x, c)
  BY DEF Follow
<1>2. /\ x \in Tx(DOMAIN x.draft) /\ WalkIsSound(t) /\ InvoiceIsHeld(t)
      /\ x.at \in Code \cup {None} /\ x.code \in Code \cup {None}
  BY TillFacts, TxFields
<1>3. /\ c \in Code /\ x.code \in Code /\ x.pc \in {"refund", "redeem", "tender"}
      /\ cards[c].exists
      /\ x.pc = "refund" => x.code \in x.todo
      /\ x.pc = "redeem" => x.code \in OldTender(x) /\ x.amount > 0
      /\ x.pc = "tender" => Refundable(x, x.code, x.amount)
  BY <1>1, <1>2 DEF WalkIsSound, Origin
<1>4. OnTheWay(t, x, c)
  BY <1>2, <1>3 DEF OnTheWay
<1> QED
  BY <1>1, <1>3, <1>4

LEMMA FollowOK ==
    ASSUME IInv, NEW t \in Till, Follow(t)
    PROVE  IInv'
BY FollowReaches, ReachOK

-----------------------------------------------------------------------------
(* A commit. *)

LEMMA CommitKeeps ==
    ASSUME IInv, NEW t \in Till, Commit(t)
    PROVE  LET x == tx[t] IN
           /\ x.pc # "idle" /\ x.invoice \in Invoice /\ x.row \in Row
           /\ invoices' = [invoices EXCEPT ![x.invoice] = x.row]
           /\ invoices'[x.invoice] = x.row
           /\ \A j \in Invoice \ {x.invoice} : invoices'[j] = invoices[j]
           /\ cards' \in [Code -> Card]
           /\ \A c \in Code : cards'[c] = View(t)[c]
           /\ \A c \in Code : Origin(cards'[c]) = Origin(cards[c])
           /\ \A c \in Code : Replaced(c)' <=> Replaced(c)
           /\ \A c \in Code \ DOMAIN x.draft : cards'[c] = cards[c]
           /\ \A c \in DOMAIN x.draft : cards'[c] = x.draft[c]
           /\ tx' = [tx EXCEPT ![t] = IdleTx] /\ delivered' = delivered
           /\ \A r \in Code \cup Invoice :
                 lock'[r] = IF lock[r] = t THEN None ELSE lock[r]
           /\ lock' \in [Code \cup Invoice -> Till \cup {None}]
<1> DEFINE x == tx[t]
<1>1. /\ x.pc # "idle" /\ cards' = View(t)
      /\ invoices' = [invoices EXCEPT ![x.invoice] = x.row]
      /\ tx' = [tx EXCEPT ![t] = IdleTx] /\ delivered' = delivered
      /\ lock' = [r \in Code \cup Invoice |-> IF lock[r] = t THEN None ELSE lock[r]]
  BY DEF Commit, End
<1>2. x.invoice \in Invoice /\ x.row \in Row /\ DOMAIN x.draft \subseteq Code
  BY <1>1, TillFacts, TxFields
<1>3. View(t) \in [Code -> Card]
  BY ViewCard DEF View
<1>4. \A c \in Code : Origin(cards'[c]) = Origin(cards[c])
  BY <1>1, ViewReplaces
<1>5. \A c \in Code : Replaced(c)' <=> Replaced(c)
  <2> SUFFICES ASSUME NEW c \in Code PROVE Replaced(c)' <=> Replaced(c)
    OBVIOUS
  <2>1. \A n \in Code : /\ n \in Replacements(cards, c) <=> Origin(cards[n]) = c
                        /\ n \in Replacements(cards', c) <=> Origin(cards'[n]) = c
    <3>1. c # None
      OBVIOUS
    <3> QED
      BY <3>1 DEF Replacements, Origin
  <2>2. Replacements(cards, c) \subseteq Code /\ Replacements(cards', c) \subseteq Code
    BY DEF Replacements
  <2> QED
    BY <1>4, <2>1, <2>2 DEF Replaced
<1>6. /\ invoices'[x.invoice] = x.row
      /\ \A j \in Invoice \ {x.invoice} : invoices'[j] = invoices[j]
  BY <1>1, <1>2 DEF IInv, TypeOK
<1>7. /\ \A c \in Code \ DOMAIN x.draft : cards'[c] = cards[c]
      /\ \A c \in DOMAIN x.draft : cards'[c] = x.draft[c]
  BY <1>1, <1>2 DEF View
<1>8. lock' \in [Code \cup Invoice -> Till \cup {None}]
  BY <1>1 DEF IInv, TypeOK
<1> QED
  BY <1>1, <1>2, <1>3, <1>4, <1>5, <1>6, <1>7, <1>8

LEMMA CommitFrames ==
    ASSUME IInv, NEW t \in Till, Commit(t), NEW u \in Till \ {t}
    PROVE  Frame(u)
<1> DEFINE x == tx[t]
           i == tx[t].invoice
<1>1. /\ x.pc # "idle" /\ i \in Invoice /\ x.row \in Row
      /\ invoices'[i] = x.row /\ \A j \in Invoice \ {i} : invoices'[j] = invoices[j]
      /\ \A c \in Code : Origin(cards'[c]) = Origin(cards[c])
      /\ \A c \in Code : Replaced(c)' <=> Replaced(c)
      /\ \A c \in Code \ DOMAIN x.draft : cards'[c] = cards[c]
      /\ tx' = [tx EXCEPT ![t] = IdleTx] /\ delivered' = delivered
      /\ \A r \in Code \cup Invoice : lock'[r] = IF lock[r] = t THEN None ELSE lock[r]
  BY CommitKeeps
<1>2. DOMAIN tx[u].draft \subseteq Code /\ DOMAIN tx[u].draft \cap DOMAIN x.draft = {}
  BY TillFacts
<1>3. tx'[u] = tx[u]
  BY <1>1 DEF IInv, TypeOK
<1>4. tx[u].pc # "idle" => invoices'[tx[u].invoice] = invoices[tx[u].invoice]
  BY <1>1, TillFacts
<1>5. ASSUME NEW c \in Code, lock[c] = u, \A j \in Invoice : invoices[j].redeemed[c] = 0
      PROVE  \A j \in Invoice : invoices'[j].redeemed[c] = 0
  <2>1. RowIsSound(t) /\ x.row.redeemed[c] \in 0..MaxFace
    BY <1>1, TillFacts DEF Row
  <2>2. ~(x.row.redeemed[c] > 0)
    BY <1>1, <1>5, <2>1 DEF RowIsSound, OldTender
  <2>3. x.row.redeemed[c] = 0
    BY <2>1, <2>2
  <2> QED
    BY <1>1, <1>5, <2>3
<1> QED
  BY <1>1, <1>2, <1>3, <1>4, <1>5 DEF Frame

LEMMA CommitOK ==
    ASSUME IInv, NEW t \in Till, Commit(t)
    PROVE  IInv'
<1> DEFINE x == tx[t]
           i == tx[t].invoice
           W == DOMAIN tx[t].draft
           remade(c) == Selling(t) /\ c \in OldSales(tx[t])
<1>1. /\ x.pc # "idle" /\ i \in Invoice /\ x.row \in Row
      /\ invoices' = [invoices EXCEPT ![i] = x.row]
      /\ invoices'[i] = x.row /\ \A j \in Invoice \ {i} : invoices'[j] = invoices[j]
      /\ cards' \in [Code -> Card]
      /\ \A c \in Code : Origin(cards'[c]) = Origin(cards[c])
      /\ \A c \in Code : Replaced(c)' <=> Replaced(c)
      /\ \A c \in Code \ W : cards'[c] = cards[c]
      /\ \A c \in W : cards'[c] = x.draft[c]
      /\ tx' = [tx EXCEPT ![t] = IdleTx] /\ delivered' = delivered
      /\ lock' \in [Code \cup Invoice -> Till \cup {None}]
  BY CommitKeeps
<1>2. /\ W \subseteq Code /\ DraftsAreHeld(t) /\ SalesAreHeld(t) /\ RowIsSound(t)
      /\ CommittedIsWhole
  BY TillFacts DEF IInv
<1>3. TypeOK'
  <2>1. invoices' \in [Invoice -> Row]
    BY <1>1 DEF IInv, TypeOK
  <2>2. /\ DOMAIN tx' = Till /\ tx'[t] = IdleTx
        /\ \A u \in Till \ {t} : tx'[u] = tx[u]
    BY <1>1 DEF IInv, TypeOK
  <2>3. \A u \in Till : DOMAIN tx'[u].draft \subseteq Code
                        /\ tx'[u] \in Tx(DOMAIN tx'[u].draft)
    BY <2>2, IdleTypes DEF IInv, TypeOK
  <2> QED
    BY <1>1, <2>1, <2>2, <2>3 DEF IInv, TypeOK
<1>4. \A c \in Code : cards[c].exists => cards'[c].exists \/ remade(c)
  BY <1>1, <1>2 DEF DraftsAreHeld
<1>5. \A c \in Code : remade(c) =>
        /\ c \notin delivered /\ ~Replaced(c)
        /\ \A j \in Invoice : invoices[j].redeemed[c] = 0
        /\ \A j \in Invoice \ {i} : c \notin invoices[j].sold
  BY <1>1, <1>2 DEF SalesAreHeld, CommittedIsWhole, OldSales
<1>6. CommittedIsWhole'
  <2>1. delivered' \subseteq {c \in Code : cards'[c].exists}
    BY <1>1, <1>2, <1>4, <1>5 DEF CommittedIsWhole
  <2>2. \A j \in Invoice : invoices'[j].exists \/ invoices'[j] = NoRow
    BY <1>1, <1>2 DEF CommittedIsWhole, RowIsSound
  <2>3. \A c \in x.row.sold :
          /\ c \in Code /\ cards'[c].exists /\ Origin(cards'[c]) = None
          /\ \A j \in Invoice \ {i} : c \notin invoices[j].sold
    <3> SUFFICES ASSUME NEW c \in x.row.sold
                 PROVE  /\ c \in Code /\ cards'[c].exists /\ Origin(cards'[c]) = None
                        /\ \A j \in Invoice \ {i} : c \notin invoices[j].sold
      OBVIOUS
    <3>1. /\ c \in Code /\ (c \in W => x.draft[c].exists)
          /\ c \in OldSales(x) \/ (c \in W /\ ~cards[c].exists)
      BY <1>1, <1>2 DEF RowIsSound, Row
    <3>2. CASE c \in OldSales(x)
      <4>1. /\ cards[c].exists /\ cards[c].replaces = None
            /\ \A j \in Invoice \ {i} : c \notin invoices[j].sold
        BY <1>1, <1>2, <3>2 DEF CommittedIsWhole, OldSales
      <4> QED
        BY <1>1, <3>1, <4>1 DEF Origin
    <3>3. CASE c \in W /\ ~cards[c].exists
      <4>1. Origin(cards[c]) = None /\ cards'[c].exists
        BY <1>1, <3>1, <3>3 DEF Origin
      <4>2. \A j \in Invoice \ {i} : c \notin invoices[j].sold
        BY <1>2, <3>3 DEF CommittedIsWhole
      <4> QED
        BY <1>1, <3>1, <4>1, <4>2
    <3> QED
      BY <3>1, <3>2, <3>3
  <2>4. \A j \in Invoice \ {i} : \A c \in invoices[j].sold :
          /\ c \in Code /\ cards'[c].exists /\ Origin(cards'[c]) = None
          /\ c \notin x.row.sold
          /\ \A k \in Invoice \ {i, j} : c \notin invoices[k].sold
    <3> SUFFICES ASSUME NEW j \in Invoice \ {i}, NEW c \in invoices[j].sold
                 PROVE  /\ c \in Code /\ cards'[c].exists /\ Origin(cards'[c]) = None
                        /\ c \notin x.row.sold
                        /\ \A k \in Invoice \ {i, j} : c \notin invoices[k].sold
      OBVIOUS
    <3>1. /\ cards[c].exists /\ cards[c].replaces = None /\ c \in Code
          /\ \A k \in Invoice \ {j} : c \notin invoices[k].sold
      BY <1>2, RowFields DEF IInv, CommittedIsWhole
    <3>2. cards'[c].exists
      BY <1>4, <1>5, <3>1
    <3>3. c \notin x.row.sold
      BY <2>3
    <3> QED
      BY <1>1, <3>1, <3>2, <3>3 DEF Origin
  <2>5. \A j \in Invoice : \A c \in invoices'[j].sold :
          /\ cards'[c].exists /\ cards'[c].replaces = None
          /\ \A k \in Invoice \ {j} : c \notin invoices'[k].sold
    <3> SUFFICES ASSUME NEW j \in Invoice, NEW c \in invoices'[j].sold
                 PROVE  /\ cards'[c].exists /\ cards'[c].replaces = None
                        /\ \A k \in Invoice \ {j} : c \notin invoices'[k].sold
      OBVIOUS
    <3>1. CASE j = i
      BY <1>1, <2>3, <3>1 DEF Origin
    <3>2. CASE j # i
      BY <1>1, <2>4, <3>2 DEF Origin
    <3> QED
      BY <3>1, <3>2
  <2>6. \A j \in Invoice, c \in Code : invoices'[j].redeemed[c] > 0 => cards'[c].exists
    <3> SUFFICES ASSUME NEW j \in Invoice, NEW c \in Code, invoices'[j].redeemed[c] > 0
                 PROVE  cards'[c].exists
      OBVIOUS
    <3>1. CASE j = i
      <4>1. /\ c \in W => x.draft[c].exists
            /\ c \in OldTender(x) \/ c \in W
        BY <1>1, <1>2, <3>1 DEF RowIsSound
      <4>2. c \in OldTender(x) => cards[c].exists
        BY <1>1, <1>2 DEF CommittedIsWhole, OldTender
      <4> QED
        BY <1>1, <4>1, <4>2
    <3>2. CASE j # i
      <4>1. invoices[j].redeemed[c] > 0 /\ cards[c].exists
        BY <1>1, <1>2, <3>2 DEF CommittedIsWhole
      <4> QED
        BY <1>4, <1>5, <4>1
    <3> QED
      BY <3>1, <3>2
  <2>7. \A c \in Code : Replaced(c)' =>
          cards'[c].exists /\ cards'[c].balance = 0 /\ ~cards'[c].active
    BY <1>1, <1>2, <1>4, <1>5 DEF CommittedIsWhole, DraftsAreHeld
  <2> QED
    BY <2>1, <2>2, <2>5, <2>6, <2>7 DEF CommittedIsWhole
<1>7. RefundsAreCovered'
  BY <1>1, <1>2 DEF IInv, RefundsAreCovered, RowIsSound
<1>8. TillsAreApart'
  <2>1. /\ tx'[t].invoice = None /\ DOMAIN tx'[t].draft = {}
        /\ \A u \in Till \ {t} : tx'[u] = tx[u]
    BY <1>1, IdleFields DEF IInv, TypeOK
  <2>2. i # None
    BY <1>1
  <2> SUFFICES ASSUME NEW u \in Till, NEW v \in Till, u # v
               PROVE  /\ tx'[u].invoice # tx'[v].invoice \/ tx'[u].invoice = None
                      /\ DOMAIN tx'[u].draft \cap DOMAIN tx'[v].draft = {}
    BY DEF TillsAreApart
  <2>3. CASE u = t \/ v = t
    BY <2>1, <2>3
  <2>4. CASE u # t /\ v # t
    BY <2>1, <2>4 DEF IInv, TillsAreApart
  <2> QED
    BY <2>3, <2>4
<1>9. \A u \in Till : TillOK(u)'
  <2>1. tx'[t] = IdleTx
    BY <1>1 DEF IInv, TypeOK
  <2>2. TillOK(t)'
    BY <2>1, IdleIsOK
  <2>3. \A u \in Till \ {t} : TillOK(u)'
    BY CommitFrames, FramedOK DEF IInv
  <2> QED
    BY <2>2, <2>3
<1> QED
  BY <1>3, <1>6, <1>7, <1>8, <1>9 DEF IInv

-----------------------------------------------------------------------------

LEMMA NextKeepsIInv == IInv /\ [Next]_vars => IInv'
<1> SUFFICES ASSUME IInv, [Next]_vars PROVE IInv'
  OBVIOUS
<1>1. CASE UNCHANGED vars
  <2>1. \A t \in Till : Frame(t)
    BY <1>1 DEF vars, Frame, Replaced, Replacements
  <2>2. \A t \in Till : TillOK(t)'
    BY <2>1, FramedOK DEF IInv
  <2>3. TypeOK' /\ RefundsAreCovered' /\ TillsAreApart'
    BY <1>1 DEF vars, IInv, TypeOK, RefundsAreCovered, TillsAreApart
  <2>4. CommittedIsWhole'
    BY <1>1 DEF vars, IInv, CommittedIsWhole, Replaced, Replacements
  <2> QED
    BY <2>2, <2>3, <2>4 DEF IInv
<1>2. CASE CardStep
  BY <1>2, IssueOK, UpdateCardOK, ReplaceOK, ApproveDeliveryOK DEF CardStep
<1>3. ASSUME NEW t \in Till, TillStep(t) PROVE IInv'
  <2>1. CASE \E i \in Invoice : CreateInvoice(t, i) \/ EditInvoice(t, i)
                                  \/ RefundInvoice(t, i)
    BY <2>1, CreateInvoiceOK, EditInvoiceOK, RefundInvoiceOK
  <2>2. CASE \E c \in Code : LockCard(t, c) \/ PayBack(t, c)
    BY <2>2, LockCardOK, PayBackOK
  <2>3. CASE \E c \in Code, amount \in Amount :
               Sell(t, c, amount) \/ Redeem(t, c, amount) \/ RefundCard(t, c, amount)
    BY <2>3, SellOK, RedeemOK, RefundCardOK
  <2>4. CASE CheckSales(t) \/ Follow(t) \/ Rebuild(t) \/ Commit(t) \/ Rollback(t)
    BY <2>4, CheckSalesOK, FollowOK, RebuildOK, CommitOK, RollbackOK
  <2> QED
    BY <1>3, <2>1, <2>2, <2>3, <2>4 DEF TillStep
<1> QED
  BY <1>1, <1>2, <1>3 DEF Next

\* Only a commit changes invoices, and of a till's steps only a commit changes cards.
LEMMA OnlyCommits ==
    ASSUME [Next]_vars
    PROVE  \/ UNCHANGED <<cards, invoices>>
           \/ CardStep /\ UNCHANGED invoices
           \/ \E t \in Till : Commit(t)
<1>1. CASE CardStep
  BY <1>1 DEF CardStep, Issue, UpdateCard, Replace, ApproveDelivery
<1>2. ASSUME NEW t \in Till, TillStep(t) PROVE UNCHANGED <<cards, invoices>> \/ Commit(t)
  BY <1>2 DEF TillStep, CreateInvoice, EditInvoice, RefundInvoice, Begin, LockCard, PayBack,
              Sell, Redeem, RefundCard, CheckSales, Follow, Rebuild, Rollback, Reach
<1>3. CASE UNCHANGED vars
  BY <1>3 DEF vars
<1> QED
  BY <1>1, <1>2, <1>3 DEF Next

LEMMA NoNewTender ==
    ASSUME IInv, [Next]_vars, NEW i \in Invoice, NEW c \in Code, Replaced(c),
           invoices'[i].redeemed[c] > 0
    PROVE  invoices[i].redeemed[c] > 0
<1>1. CASE UNCHANGED invoices
  BY <1>1
<1>2. ASSUME NEW t \in Till, Commit(t) PROVE invoices[i].redeemed[c] > 0
  <2>1. /\ invoices'[tx[t].invoice] = tx[t].row
        /\ \A j \in Invoice \ {tx[t].invoice} : invoices'[j] = invoices[j]
    BY <1>2, CommitKeeps
  <2>2. CASE i = tx[t].invoice
    BY <2>1, <2>2, TillFacts DEF RowIsSound, OldTender
  <2> QED
    BY <2>1, <2>2
<1> QED
  BY <1>1, <1>2, OnlyCommits

LEMMA SentIsKept ==
    ASSUME IInv, [Next]_vars, NEW c \in delivered
    PROVE  cards'[c].exists /\ cards'[c].face = cards[c].face
<1>1. c \in Code /\ cards[c].exists /\ cards \in [Code -> Card]
  BY DEF IInv, TypeOK, CommittedIsWhole
<1>2. CASE UNCHANGED cards
  BY <1>1, <1>2
<1>3. CASE CardStep
  <2>1. ASSUME NEW d \in Code, NEW amount \in Amount, Issue(d, amount)
        PROVE  cards'[c] = cards[c]
    BY <1>1, <2>1 DEF Issue, Fresh
  <2>2. ASSUME NEW d \in Code, NEW active \in BOOLEAN, UpdateCard(d, active)
        PROVE  cards'[c].exists /\ cards'[c].face = cards[c].face
    <3>1. cards' = [cards EXCEPT ![d].active = active]
      BY <2>2 DEF UpdateCard
    <3> QED
      BY <1>1, <3>1 DEF Card
  <2>3. ASSUME NEW d \in Code, NEW n \in Code, Replace(d, n)
        PROVE  cards'[c].exists /\ cards'[c].face = cards[c].face
    <3>1. c # n /\ n # d
      BY <1>1, <2>3 DEF Replace, Fresh
    <3>2. CASE c # d
      <4>1. cards'[c] = cards[c]
        BY <1>1, <2>3, <3>1, <3>2 DEF Replace
      <4> QED
        BY <1>1, <4>1
    <3>3. CASE c = d
      <4>1. cards'[c] = [cards[c] EXCEPT !.balance = 0, !.active = FALSE]
        BY <1>1, <2>3, <3>1, <3>3 DEF Replace
      <4> QED
        BY <1>1, <4>1 DEF Card
    <3> QED
      BY <3>2, <3>3
  <2>4. ASSUME NEW d \in Code, ApproveDelivery(d) PROVE cards'[c] = cards[c]
    BY <2>4 DEF ApproveDelivery
  <2> QED
    BY <1>1, <1>3, <2>1, <2>2, <2>3, <2>4 DEF CardStep
<1>4. ASSUME NEW t \in Till, Commit(t)
      PROVE  cards'[c].exists /\ cards'[c].face = cards[c].face
  <2>1. /\ \A d \in Code \ DOMAIN tx[t].draft : cards'[d] = cards[d]
        /\ \A d \in DOMAIN tx[t].draft : cards'[d] = tx[t].draft[d]
    BY <1>4, CommitKeeps
  <2>2. ~(Selling(t) /\ c \in OldSales(tx[t]))
    BY TillFacts DEF SalesAreHeld
  <2>3. c \in DOMAIN tx[t].draft =>
          tx[t].draft[c].exists /\ tx[t].draft[c].face = cards[c].face
    BY <1>1, <2>2, TillFacts DEF DraftsAreHeld
  <2> QED
    BY <1>1, <2>1, <2>3
<1> QED
  BY <1>2, <1>3, <1>4, OnlyCommits

-----------------------------------------------------------------------------
(* Chains of replacements. *)

RisingIn(origin, S) == \A c \in S : origin[c] \in S \cup {None}
Above(origin, c) ==
    {a \in Code : \A S \in SUBSET Code : c \in S /\ a \notin S => ~RisingIn(origin, S)}
Origins(table) == [c \in Code |-> Origin(table[c])]

LEMMA AncestorsAre ==
    ASSUME NEW c \in Code
    PROVE  /\ Ancestors(c) = Above(Origins(cards), c)
           /\ Ancestors(c)' = Above(Origins(cards'), c)
<1>1. \A S \in SUBSET Code : /\ Rising(S) <=> RisingIn(Origins(cards), S)
                             /\ Rising(S)' <=> RisingIn(Origins(cards'), S)
  BY DEF Rising, RisingIn, Origins
<1> QED
  BY <1>1 DEF Ancestors, Above

LEMMA AboveItself ==
    ASSUME NEW origin, NEW c \in Code
    PROVE  c \in Above(origin, c)
BY DEF Above

LEMMA AboveAbove ==
    ASSUME NEW origin, NEW c \in Code, NEW b \in Above(origin, c), NEW a \in Above(origin, b)
    PROVE  a \in Above(origin, c)
BY DEF Above

LEMMA OriginIsAbove ==
    ASSUME NEW origin, NEW c \in Code, origin[c] \in Code
    PROVE  origin[c] \in Above(origin, c)
<1>1. origin[c] # None
  OBVIOUS
<1> QED
  BY <1>1 DEF Above, RisingIn

LEMMA AboveRoot ==
    ASSUME NEW origin, NEW c \in Code, origin[c] = None
    PROVE  Above(origin, c) = {c}
<1>1. RisingIn(origin, {c}) /\ {c} \in SUBSET Code
  BY DEF RisingIn
<1> QED
  BY <1>1, AboveItself DEF Above

LEMMA AboveIsRising ==
    ASSUME NEW origin \in [Code -> Code \cup {None}], NEW c \in Code
    PROVE  RisingIn(origin, Above(origin, c)) /\ Above(origin, c) \in SUBSET Code
<1>1. Above(origin, c) \in SUBSET Code
  BY DEF Above
<1> SUFFICES ASSUME NEW d \in Above(origin, c), origin[d] # None
             PROVE  origin[d] \in Above(origin, c)
  BY <1>1 DEF RisingIn
<1>2. origin[d] \in Code /\ d \in Code
  BY <1>1
<1> QED
  BY <1>2, OriginIsAbove, AboveAbove

\* What is above a card is the card, and what is above its origin.
LEMMA AboveSteps ==
    ASSUME NEW origin \in [Code -> Code \cup {None}], NEW c \in Code, origin[c] \in Code,
           NEW a \in Above(origin, c), a # c
    PROVE  a \in Above(origin, origin[c])
<1> DEFINE S == Above(origin, origin[c]) \cup {c}
<1>1. RisingIn(origin, S) /\ S \in SUBSET Code /\ c \in S
  BY AboveIsRising, AboveItself DEF RisingIn
<1>2. a \in S
  <2> HIDE DEF S
  <2> QED
    BY <1>1 DEF Above
<1> QED
  BY <1>2

\* The way up has no forks: the root of a card is the root of all that is above it.
LEMMA SameRoot ==
    ASSUME NEW origin \in [Code -> Code \cup {None}], NEW c \in Code,
           NEW b \in Above(origin, c), NEW a \in Above(origin, c), origin[a] = None
    PROVE  a \in Above(origin, b)
<1>0. a \in Code /\ b \in Code
  BY DEF Above
<1> SUFFICES ASSUME NEW S \in SUBSET Code, b \in S, a \notin S, RisingIn(origin, S)
             PROVE  FALSE
  BY <1>0 DEF Above
<1> DEFINE T == S \cup {d \in Code : b \in Above(origin, d)}
<1>1. RisingIn(origin, T)
  <2> SUFFICES ASSUME NEW d \in Code \ S, b \in Above(origin, d), origin[d] # None
               PROVE  b \in Above(origin, origin[d]) /\ origin[d] \in Code
    BY DEF RisingIn
  <2> QED
    BY AboveSteps
<1>2. T \in SUBSET Code /\ c \in T
  OBVIOUS
<1>3. a \in T
  <2> HIDE DEF T
  <2> QED
    BY <1>1, <1>2 DEF Above
<1>4. b \in Above(origin, a) /\ b # a
  BY <1>3
<1> QED
  BY <1>0, <1>4, AboveRoot

\* Whoever is above another was replaced.
LEMMA AboveIsReplaced ==
    ASSUME NEW origin \in [Code -> Code \cup {None}], NEW c \in Code,
           NEW a \in Above(origin, c), a # c
    PROVE  \E d \in Code : origin[d] = a
<1> SUFFICES ASSUME \A d \in Code : origin[d] # a PROVE FALSE
  OBVIOUS
<1>1. RisingIn(origin, Code \ {a}) /\ Code \ {a} \in SUBSET Code /\ c \in Code \ {a}
  BY DEF RisingIn
<1> QED
  BY <1>1 DEF Above

\* A table that keeps where the cards of E come from keeps what is above them.
LEMMA AboveStays ==
    ASSUME NEW before, NEW after, NEW E \in SUBSET Code, NEW c \in E,
           \A d \in E : after[d] = before[d] /\ before[d] \in E \cup {None}
    PROVE  Above(after, c) = Above(before, c) /\ Above(before, c) \subseteq E
<1>1. \A S \in SUBSET Code : /\ RisingIn(before, S) => RisingIn(after, S \cap E)
                             /\ RisingIn(after, S) => RisingIn(before, S \cap E)
  BY DEF RisingIn
<1>2. RisingIn(before, E)
  BY DEF RisingIn
<1>3. \A S \in SUBSET Code : S \cap E \in SUBSET Code /\ (c \in S => c \in S \cap E)
  OBVIOUS
<1> QED
  BY <1>1, <1>2, <1>3 DEF Above

-----------------------------------------------------------------------------
(* Sums along a chain. *)

LEMMA OverIs == ASSUME NEW f, NEW S PROVE Over(f, S) = SumOf(f, S)
BY DEF Over, SumOf

LEMMA ChainIsFinite ==
    ASSUME NEW a
    PROVE  /\ Chain(a) \subseteq Code /\ IsFiniteSet(Chain(a))
           /\ Chain(a)' \subseteq Code /\ IsFiniteSet(Chain(a)')
<1>1. Chain(a) \subseteq Code /\ Chain(a)' \subseteq Code
  BY DEF Chain
<1> QED
  BY <1>1, CodesAreFinite, FS_Subset

Point(k, amount) == [c \in Code |-> IF c = k THEN amount ELSE 0]

LEMMA PointIsInt ==
    ASSUME NEW S \in SUBSET Code, NEW k, NEW amount \in Int
    PROVE  /\ Numbers(Point(k, amount), S)
           /\ \A c \in S : Point(k, amount)[c] = IF c = k THEN amount ELSE 0
<1>1. \A c \in S : Point(k, amount)[c] = IF c = k THEN amount ELSE 0
  BY DEF Point
<1>2. \A c \in S : Point(k, amount)[c] \in Int
  BY <1>1
<1> QED
  BY <1>1, <1>2 DEF Numbers

LEMMA SumOfPoint ==
    ASSUME NEW S \in SUBSET Code, NEW k \in Code, NEW amount \in Int
    PROVE  SumOf(Point(k, amount), S) = IF k \in S THEN amount ELSE 0
<1>1. IsFiniteSet(S) /\ Numbers(Point(k, amount), S)
  BY CodesAreFinite, FS_Subset, PointIsInt
<1>2. CASE k \in S
  <2>1. SumOf(Point(k, amount), S)
          = Point(k, amount)[k] + SumOf(Point(k, amount), S \ {k})
    BY <1>1, <1>2, SumTakes
  <2>2. IsFiniteSet(S \ {k}) /\ \A c \in S \ {k} : Point(k, amount)[c] = 0
    BY <1>1, FS_Subset DEF Point
  <2>3. SumOf(Point(k, amount), S \ {k}) = 0
    BY <2>2, SumOfNothing
  <2> QED
    BY <1>2, <2>1, <2>3 DEF Point
<1>3. CASE k \notin S
  <2>1. \A c \in S : Point(k, amount)[c] = 0
    BY <1>3 DEF Point
  <2> QED
    BY <1>1, <1>3, <2>1, SumOfNothing
<1> QED
  BY <1>2, <1>3

\* What moves from one card of a chain to another leaves the chain as it was.
LEMMA MovesWithin ==
    ASSUME NEW S \in SUBSET Code, NEW f, Numbers(f, S), NEW g,
           NEW n \in Code, NEW k \in Code, n \in S <=> k \in S, NEW amount \in Int,
           \A c \in S : g[c] = f[c] + (Point(n, 0 - amount)[c] + Point(k, amount)[c])
    PROVE  SumOf(g, S) = SumOf(f, S)
<1> DEFINE h == [c \in Code |-> Point(n, 0 - amount)[c] + Point(k, amount)[c]]
<1>1. IsFiniteSet(S)
  BY CodesAreFinite, FS_Subset
<1>2. /\ Numbers(Point(n, 0 - amount), S) /\ Numbers(Point(k, amount), S) /\ Numbers(h, S)
      /\ \A c \in S : h[c] = Point(n, 0 - amount)[c] + Point(k, amount)[c]
  <2>1. 0 - amount \in Int
    OBVIOUS
  <2>2. Numbers(Point(n, 0 - amount), S) /\ Numbers(Point(k, amount), S)
    BY <2>1, PointIsInt
  <2>3. \A c \in S : h[c] = Point(n, 0 - amount)[c] + Point(k, amount)[c]
    OBVIOUS
  <2>4. \A c \in S : h[c] \in Int
    <3> HIDE DEF h
    <3>1. \A c \in S : Point(n, 0 - amount)[c] \in Int /\ Point(k, amount)[c] \in Int
      BY <2>2 DEF Numbers
    <3> QED
      BY <2>3, <3>1
  <2> HIDE DEF h
  <2> QED
    BY <2>2, <2>3, <2>4 DEF Numbers
<1>3. SumOf(h, S) = SumOf(Point(n, 0 - amount), S) + SumOf(Point(k, amount), S)
  <2> HIDE DEF h
  <2> QED
    BY <1>1, <1>2, SumAdds
<1>4. SumOf(h, S) = 0
  <2>1. 0 - amount \in Int
    OBVIOUS
  <2>2. /\ SumOf(Point(n, 0 - amount), S) = IF n \in S THEN 0 - amount ELSE 0
        /\ SumOf(Point(k, amount), S) = IF k \in S THEN amount ELSE 0
    BY <2>1, SumOfPoint
  <2> QED
    BY <1>3, <2>2
<1>5. \A c \in S : g[c] = f[c] + h[c]
  OBVIOUS
<1> HIDE DEF h
<1>6. SumOf(g, S) = SumOf(f, S) + SumOf(h, S) /\ SumOf(f, S) \in Int
  BY <1>1, <1>2, <1>5, SumAdds, SumIsInt
<1> QED
  BY <1>4, <1>6

-----------------------------------------------------------------------------
(* What a till has moved. *)

Seen(x, table) == [c \in Code |-> IF c \in DOMAIN x.draft THEN x.draft[c] ELSE table[c]]
Shift(x, table, row) ==
    [c \in Code |-> (Seen(x, table)[c].balance - table[c].balance)
                      + (Debt(x)[c] - Owed(row)[c])]

LEMMA MovedIs ==
    ASSUME NEW t
    PROVE  /\ Moved(t) = Shift(tx[t], cards, invoices[tx[t].invoice])
           /\ Moved(t)' = Shift(tx'[t], cards', invoices'[tx'[t].invoice])
BY DEF Moved, Shift, Seen, View

LEMMA ShiftIsInt ==
    ASSUME NEW W \in SUBSET Code, NEW x \in Tx(W), NEW table \in [Code -> Card],
           NEW row \in Row
    PROVE  /\ \A S \in SUBSET Code : Numbers(Shift(x, table, row), S)
           /\ \A c \in Code : Debt(x)[c] \in Int /\ Owed(row)[c] \in Int
                             /\ Seen(x, table)[c].balance \in Nat
                             /\ table[c].balance \in Nat
<1>1. ASSUME NEW c \in Code
      PROVE  /\ Debt(x)[c] \in Int /\ Owed(row)[c] \in Int
             /\ Seen(x, table)[c].balance \in Nat /\ table[c].balance \in Nat
  <2>1. \A card \in Card : card.balance \in Nat
    BY DEF Card
  <2>2. x.draft \in [W -> Card]
    BY TxFields
  <2>3. table[c] \in Card /\ Seen(x, table)[c] \in Card
    BY <2>2 DEF Seen
  <2>4. \A r \in Row : r.redeemed[c] \in Nat /\ r.refunded[c] \in Nat
    BY DEF Row
  <2>5. x.row \in Row
    BY TxFields
  <2> QED
    BY <2>1, <2>3, <2>4, <2>5 DEF Debt, Owed
<1>2. \A c \in Code : Shift(x, table, row)[c]
         = (Seen(x, table)[c].balance - table[c].balance) + (Debt(x)[c] - Owed(row)[c])
  BY DEF Shift
<1>3. ASSUME NEW c \in Code PROVE Shift(x, table, row)[c] \in Int
  <2>1. \A a, b \in Nat, d, e \in Int : (a - b) + (d - e) \in Int
    OBVIOUS
  <2> QED
    BY <1>1, <1>2, <2>1
<1> QED
  BY <1>1, <1>3 DEF Numbers

\* What t has moved, when it moves something.
LEMMA MovedIsInt ==
    ASSUME TypeOK, NEW t \in Till, tx[t].invoice \in Invoice
    PROVE  \A S \in SUBSET Code : Numbers(Moved(t), S)
<1>1. /\ tx[t] \in Tx(DOMAIN tx[t].draft) /\ DOMAIN tx[t].draft \in SUBSET Code
      /\ cards \in [Code -> Card] /\ invoices[tx[t].invoice] \in Row
  BY DEF TypeOK
<1> QED
  BY <1>1, ShiftIsInt, MovedIs

\* A code that is nowhere has moved nothing.
LEMMA NothingUnknown ==
    ASSUME IInv, NEW t \in Till, tx[t].pc # "idle", NEW c \in Code, ~cards[c].exists,
           c \notin DOMAIN tx[t].draft
    PROVE  Moved(t)[c] = 0
<1> DEFINE x == tx[t]
           row == invoices[tx[t].invoice]
<1>1. /\ x \in Tx(DOMAIN x.draft) /\ DOMAIN x.draft \in SUBSET Code /\ RowIsSound(t)
      /\ x.invoice \in Invoice /\ row \in Row /\ x.row \in Row /\ cards \in [Code -> Card]
  BY TillFacts, TxFields, RowFields DEF IInv, TypeOK
<1>2. row.redeemed[c] \in Nat /\ row.refunded[c] \in Nat
      /\ x.row.redeemed[c] \in Nat /\ x.row.refunded[c] \in Nat
  BY <1>1 DEF Row
<1>3. ~(row.redeemed[c] > 0) /\ row.refunded[c] <= row.redeemed[c]
  BY <1>1 DEF IInv, CommittedIsWhole, RefundsAreCovered
<1>4. ~(x.row.redeemed[c] > 0) /\ x.row.refunded[c] <= x.row.redeemed[c]
  BY <1>1, <1>3 DEF RowIsSound, OldTender
<1>5. /\ row.redeemed[c] = 0 /\ row.refunded[c] = 0
      /\ x.row.redeemed[c] = 0 /\ x.row.refunded[c] = 0
  BY <1>2, <1>3, <1>4
<1>6. Debt(x)[c] = 0 /\ Owed(row)[c] = 0
  BY <1>5 DEF Debt, Owed
<1>7. Seen(x, cards)[c] = cards[c] /\ cards[c].balance \in Nat
  BY <1>1, CardFields DEF Seen
<1>8. Moved(t) = Shift(x, cards, row)
  BY MovedIs
<1> QED
  BY <1>6, <1>7, <1>8 DEF Shift

-----------------------------------------------------------------------------
(* What a step of others may do to the books of till t. *)

OriginsStay == \A c \in Code : cards[c].exists => Origin(cards'[c]) = Origin(cards[c])
Steady(t) ==
    /\ tx'[t] = tx[t]
    /\ tx[t].pc # "idle" => invoices'[tx[t].invoice] = invoices[tx[t].invoice]
    /\ \A c \in DOMAIN tx[t].draft : cards'[c] = cards[c]
    /\ OriginsStay

LEMMA OriginsAre ==
    ASSUME IInv
    PROVE  /\ Origins(cards) \in [Code -> Code \cup {None}]
           /\ \A c \in Code : Origins(cards)[c] = Origin(cards[c])
           /\ \A c \in Code : Origin(cards[c]) # None =>
                /\ Origin(cards[c]) \in Code /\ cards[c].exists
                /\ cards[Origin(cards[c])].exists /\ Replaced(Origin(cards[c]))
<1>1. cards \in [Code -> Card]
  BY DEF IInv, TypeOK
<1>2. ASSUME NEW c \in Code, Origin(cards[c]) # None
      PROVE  /\ Origin(cards[c]) \in Code /\ cards[c].exists
             /\ cards[Origin(cards[c])].exists /\ Replaced(Origin(cards[c]))
  <2>1. cards[c].exists /\ Origin(cards[c]) = cards[c].replaces /\ cards[c].replaces \in Code
    BY <1>1, <1>2, CardFields DEF Origin
  <2>2. Replaced(Origin(cards[c]))
    BY <2>1 DEF Replaced, Replacements
  <2> QED
    BY <2>1, <2>2 DEF IInv, CommittedIsWhole
<1>3. \A c \in Code : Origin(cards[c]) \in Code \cup {None}
  BY <1>2
<1> QED
  BY <1>2, <1>3 DEF Origins

LEMMA AncestorsStay ==
    ASSUME IInv, OriginsStay, NEW c \in Code, cards[c].exists
    PROVE  /\ Ancestors(c)' = Ancestors(c)
           /\ \A a \in Ancestors(c) : a \in Code /\ cards[a].exists
<1> DEFINE E == {d \in Code : cards[d].exists}
<1>1. \A d \in E : /\ Origins(cards')[d] = Origins(cards)[d]
                   /\ Origins(cards)[d] \in E \cup {None}
  BY OriginsAre DEF OriginsStay, Origins
<1>2. c \in E /\ E \in SUBSET Code
  OBVIOUS
<1> HIDE DEF E
<1>3. Above(Origins(cards'), c) = Above(Origins(cards), c) /\ Above(Origins(cards), c) \subseteq E
  BY <1>1, <1>2, AboveStays
<1> QED
  BY <1>3, AncestorsAre DEF E

LEMMA RootsAre ==
    ASSUME NEW a \in Code
    PROVE  /\ a \in Roots <=> cards[a].exists /\ Origin(cards[a]) = None
           /\ a \in Roots' <=> cards'[a].exists /\ Origin(cards'[a]) = None
BY DEF Roots, Origin

\* A card that exists has itself above it, and nothing else when it replaces none.
LEMMA AncestorsOf ==
    ASSUME NEW c \in Code
    PROVE  /\ c \in Ancestors(c)
           /\ Origin(cards[c]) = None => Ancestors(c) = {c}
           /\ Origin(cards'[c]) = None => Ancestors(c)' = {c}
<1>1. Origins(cards)[c] = Origin(cards[c]) /\ Origins(cards')[c] = Origin(cards'[c])
  BY DEF Origins
<1>2. c \in Above(Origins(cards), c)
  BY AboveItself
<1>3. Origins(cards)[c] = None => Above(Origins(cards), c) = {c}
  BY AboveRoot
<1>4. Origins(cards')[c] = None => Above(Origins(cards'), c) = {c}
  BY AboveRoot
<1> QED
  BY <1>1, <1>2, <1>3, <1>4, AncestorsAre

\* Chains grow by cards that were not there; they lose none.
LEMMA ChainsGrow ==
    ASSUME IInv, OriginsStay, NEW a \in Roots'
    PROVE  /\ a \in Roots => Chain(a) = {c \in Chain(a)' : cards[c].exists}
           /\ a \notin Roots => \A c \in Chain(a)' : ~cards[c].exists
<1>0. a \in Code /\ cards'[a].exists /\ Origin(cards'[a]) = None
  BY DEF Roots, Origin
<1>1. ASSUME NEW c \in Chain(a)', cards[c].exists PROVE a \in Roots /\ c \in Chain(a)
  <2>1. c \in Code /\ a \in Ancestors(c)'
    BY <1>1 DEF Chain
  <2>2. a \in Ancestors(c) /\ cards[a].exists
    BY <1>1, <2>1, AncestorsStay
  <2>3. a \in Roots
    BY <1>0, <2>2, RootsAre DEF OriginsStay
  <2> QED
    BY <1>1, <2>1, <2>2, <2>3 DEF Chain
<1>2. ASSUME a \in Roots, NEW c \in Chain(a) PROVE c \in Chain(a)' /\ cards[c].exists
  <2>1. c \in Code /\ cards[c].exists /\ a \in Ancestors(c)
    BY <1>2 DEF Chain
  <2>2. a \in Ancestors(c)'
    BY <2>1, AncestorsStay
  <2>3. cards'[c].exists
    <3>1. CASE c = a
      BY <1>0, <3>1
    <3>2. CASE c # a
      <4>1. Origin(cards[c]) # None
        BY <2>1, <3>2, AncestorsOf
      <4>2. Origin(cards'[c]) # None
        BY <2>1, <4>1 DEF OriginsStay
      <4> QED
        BY <4>2 DEF Origin
    <3> QED
      BY <3>1, <3>2
  <2> QED
    BY <2>1, <2>2, <2>3 DEF Chain
<1> QED
  BY <1>1, <1>2

LEMMA OthersKeepBooks ==
    ASSUME IInv, cards' \in [Code -> Card], NEW t \in Till, BooksOK(t), Steady(t)
    PROVE  BooksOK(t)'
<1> SUFFICES ASSUME tx[t].pc # "idle" PROVE ChainsBalance(t)' /\ WalkBalances(t)'
  BY DEF BooksOK, Steady
<1> DEFINE x == tx[t]
           i == tx[t].invoice
<1>1. /\ x \in Tx(DOMAIN x.draft) /\ DOMAIN x.draft \in SUBSET Code /\ WalkIsSound(t)
      /\ i \in Invoice /\ cards \in [Code -> Card] /\ invoices[i] \in Row
      /\ ChainsBalance(t) /\ WalkBalances(t)
      /\ x.at \in Code \cup {None}
  BY TillFacts, TxFields, RowFields DEF IInv, TypeOK, BooksOK
<1>2. tx'[t] = x /\ invoices'[i] = invoices[i] /\ OriginsStay
      /\ \A c \in DOMAIN x.draft : cards'[c] = cards[c]
  BY DEF Steady
<1>3. /\ Selling(t)' <=> Selling(t)
      /\ OldSales(tx[t])' = OldSales(tx[t]) /\ Anew(t)' = Anew(t)
  BY <1>2 DEF Selling, OldSales, Anew
<1>4. \A c \in Code : Moved(t)'[c] = Moved(t)[c]
  <2> SUFFICES ASSUME NEW c \in Code PROVE Moved(t)'[c] = Moved(t)[c]
    OBVIOUS
  <2>1. Moved(t) = Shift(x, cards, invoices[i]) /\ Moved(t)' = Shift(x, cards', invoices[i])
    BY <1>2, MovedIs
  <2>2. Seen(x, cards')[c].balance - cards'[c].balance
          = Seen(x, cards)[c].balance - cards[c].balance
    <3>1. CASE c \in DOMAIN x.draft
      BY <1>2, <3>1 DEF Seen
    <3>2. CASE c \notin DOMAIN x.draft
      <4>1. cards[c].balance \in Nat /\ cards'[c].balance \in Nat
        BY <1>1 DEF Card
      <4> QED
        BY <3>2, <4>1 DEF Seen
    <3> QED
      BY <3>1, <3>2
  <2> QED
    BY <2>1, <2>2 DEF Shift
<1>5. ASSUME NEW a \in Roots' \ Anew(t)' PROVE Over(Moved(t)', Chain(a)') = 0
  <2>1. \A c \in Chain(a)' : ~cards[c].exists => Moved(t)'[c] = 0
    <3> SUFFICES ASSUME NEW c \in Chain(a)', ~cards[c].exists PROVE Moved(t)'[c] = 0
      OBVIOUS
    <3>1. c \in Code /\ cards'[c].exists /\ c \notin DOMAIN x.draft
      BY <1>2 DEF Chain
    <3> QED
      BY <1>4, <3>1, NothingUnknown
  <2>2. /\ Chain(a)' \in SUBSET Code /\ IsFiniteSet(Chain(a)')
        /\ Chain(a) \in SUBSET Code /\ IsFiniteSet(Chain(a))
    BY ChainIsFinite
  <2>3. Numbers(Moved(t), Code) /\ Numbers(Moved(t), Chain(a)')
    BY <1>1, <2>2, MovedIsInt DEF IInv
  <2>4. CASE a \in Roots
    <3>1. Chain(a) = {c \in Chain(a)' : cards[c].exists}
      BY <1>2, <2>4, ChainsGrow
    <3>2. SumOf(Moved(t), Chain(a)) = 0
      BY <1>1, <1>3, <2>4, OverIs DEF ChainsBalance
    <3>3. \A c \in Chain(a)' \ Chain(a) : Moved(t)[c] = 0
      BY <1>4, <2>1, <2>2, <3>1
    <3>4. SumOf(Moved(t), Chain(a)') = SumOf(Moved(t), Chain(a))
      BY <2>2, <2>3, <3>1, <3>3, SumSkips
    <3>5. SumOf(Moved(t), Chain(a)') = SumOf(Moved(t)', Chain(a)')
      BY <1>4, <2>2, <2>3, SumSame
    <3> QED
      BY <3>2, <3>4, <3>5, OverIs
  <2>5. CASE a \notin Roots
    <3>1. \A c \in Chain(a)' : Moved(t)'[c] = 0
      BY <1>2, <2>1, <2>5, ChainsGrow
    <3> QED
      BY <2>2, <3>1, SumOfNothing, OverIs
  <2> QED
    BY <2>4, <2>5
<1>6. ChainsBalance(t)'
  BY <1>1, <1>2, <1>3, <1>5 DEF ChainsBalance
<1>7. x.at # None => Ancestors(x.at)' = Ancestors(x.at)
  <2> SUFFICES ASSUME x.at # None PROVE Ancestors(x.at)' = Ancestors(x.at)
    OBVIOUS
  <2>1. x.at \in Code /\ cards[x.at].exists
    BY <1>1, OriginsAre DEF WalkIsSound
  <2> QED
    BY <1>2, <2>1, AncestorsStay
<1>8. WalkBalances(t)'
  BY <1>1, <1>2, <1>3, <1>7 DEF WalkBalances
<1> QED
  BY <1>6, <1>8

-----------------------------------------------------------------------------
(* What a step of till t does to its own books. *)

LEMMA TablesStay ==
    ASSUME UNCHANGED cards
    PROVE  /\ Roots' = Roots
           /\ \A a \in Code : Chain(a)' = Chain(a) /\ Ancestors(a)' = Ancestors(a)
<1>1. \A a \in Code : Ancestors(a)' = Ancestors(a)
  BY AncestorsAre
<1>2. Roots' = Roots
  BY DEF Roots
<1> QED
  BY <1>1, <1>2 DEF Chain

\* A step that moves amount from n to k, of one chain, keeps the balance.
LEMMA BooksMove ==
    ASSUME IInv, UNCHANGED <<cards, invoices>>, NEW t \in Till, tx[t].pc # "idle",
           ChainsBalance(t), Anew(t) \subseteq Anew(t)',
           NEW n \in Code, NEW k \in Code, NEW amount \in Int,
           \A a \in Roots : n \in Chain(a) <=> k \in Chain(a),
           \A c \in Code : (\E a \in Roots \ Anew(t)' : c \in Chain(a)) =>
              Moved(t)'[c] = Moved(t)[c] + (Point(n, 0 - amount)[c] + Point(k, amount)[c])
    PROVE  \A a \in Roots' \ Anew(t)' : Over(Moved(t)', Chain(a)') = 0
<1> SUFFICES ASSUME NEW a \in Roots', a \notin Anew(t)'
             PROVE  Over(Moved(t)', Chain(a)') = 0
  OBVIOUS
<1>1. a \in Roots /\ a \notin Anew(t) /\ a \in Code
  BY TablesStay DEF Roots
<1>2. Chain(a)' = Chain(a) /\ Chain(a) \in SUBSET Code
  BY <1>1, TablesStay, ChainIsFinite
<1>3. tx[t].invoice \in Invoice /\ Numbers(Moved(t), Chain(a))
  BY <1>2, TillFacts, MovedIsInt DEF IInv
<1>4. SumOf(Moved(t), Chain(a)) = 0
  BY <1>1, OverIs DEF ChainsBalance
<1>5. n \in Chain(a) <=> k \in Chain(a)
  BY <1>1
<1>6. \A c \in Chain(a) :
        Moved(t)'[c] = Moved(t)[c] + (Point(n, 0 - amount)[c] + Point(k, amount)[c])
  BY <1>1, <1>2
<1>7. SumOf(Moved(t)', Chain(a)) = SumOf(Moved(t), Chain(a))
  BY <1>2, <1>3, <1>5, <1>6, MovesWithin
<1> QED
  BY <1>2, <1>4, <1>7, OverIs

\* A step that moves nothing keeps it too.
LEMMA BooksStay ==
    ASSUME IInv, UNCHANGED <<cards, invoices>>, NEW t \in Till, tx[t].pc # "idle",
           ChainsBalance(t), Anew(t) \subseteq Anew(t)',
           \A c \in Code : (\E a \in Roots \ Anew(t)' : c \in Chain(a)) =>
              Moved(t)'[c] = Moved(t)[c]
    PROVE  \A a \in Roots' \ Anew(t)' : Over(Moved(t)', Chain(a)') = 0
<1> SUFFICES ASSUME NEW a \in Roots', a \notin Anew(t)'
             PROVE  Over(Moved(t)', Chain(a)') = 0
  OBVIOUS
<1>1. a \in Roots /\ a \notin Anew(t) /\ a \in Code
  BY TablesStay DEF Roots
<1>2. Chain(a)' = Chain(a) /\ Chain(a) \in SUBSET Code /\ IsFiniteSet(Chain(a))
  BY <1>1, TablesStay, ChainIsFinite
<1>3. tx[t].invoice \in Invoice /\ Numbers(Moved(t), Chain(a))
  BY <1>2, TillFacts, MovedIsInt DEF IInv
<1>4. SumOf(Moved(t), Chain(a)) = 0
  BY <1>1, OverIs DEF ChainsBalance
<1>5. \A c \in Chain(a) : Moved(t)[c] = Moved(t)'[c]
  BY <1>1, <1>2
<1>6. SumOf(Moved(t), Chain(a)) = SumOf(Moved(t)', Chain(a))
  BY <1>2, <1>3, <1>5, SumSame
<1> QED
  BY <1>2, <1>4, <1>6, OverIs

\* The cards of a chain: none of them is made anew by t, and all exist.
LEMMA ChainMembers ==
    ASSUME IInv, NEW t \in Till, NEW a \in Roots \ Anew(t), NEW c \in Chain(a)
    PROVE  c \in Code /\ cards[c].exists /\ c \notin Anew(t)
<1>1. c \in Code /\ cards[c].exists /\ a \in Ancestors(c)
  BY DEF Chain
<1>2. ASSUME c \in Anew(t) PROVE FALSE
  <2>1. c \in OldSales(tx[t]) /\ tx[t].pc # "idle"
    BY <1>2 DEF Anew, Selling
  <2>2. Origin(cards[c]) = None
    BY <2>1, TillFacts DEF IInv, CommittedIsWhole, OldSales, Origin
  <2>3. a = c
    BY <1>1, <2>2, AncestorsOf
  <2> QED
    BY <1>2, <2>3
<1> QED
  BY <1>1, <1>2

\* The sales of an invoice are roots, alone on their chains.
LEMMA SalesAreAlone ==
    ASSUME IInv, NEW i \in Invoice, NEW a \in Roots \ invoices[i].sold, NEW c \in Chain(a)
    PROVE  c \in Code /\ cards[c].exists /\ c \notin invoices[i].sold
<1>1. c \in Code /\ cards[c].exists /\ a \in Ancestors(c)
  BY DEF Chain
<1>2. ASSUME c \in invoices[i].sold PROVE FALSE
  <2>1. Origin(cards[c]) = None
    BY <1>2 DEF IInv, CommittedIsWhole, Origin
  <2>2. a = c
    BY <1>1, <2>1, AncestorsOf
  <2> QED
    BY <1>2, <2>2
<1> QED
  BY <1>1, <1>2

\* A card and what is above it are on the same chains.
LEMMA SameChains ==
    ASSUME IInv, NEW c \in Code, cards[c].exists, NEW b \in Ancestors(c)
    PROVE  /\ b \in Code /\ cards[b].exists
           /\ \A a \in Roots : c \in Chain(a) <=> b \in Chain(a)
<1>1. b \in Code /\ cards[b].exists
  <2>1. \A d \in Code : cards[d].exists => Origins(cards)[d] \in {e \in Code : cards[e].exists} \cup {None}
    BY OriginsAre
  <2> DEFINE E == {e \in Code : cards[e].exists}
  <2>2. c \in E /\ E \in SUBSET Code
    OBVIOUS
  <2>3. \A d \in E : Origins(cards)[d] = Origins(cards)[d] /\ Origins(cards)[d] \in E \cup {None}
    BY <2>1
  <2> HIDE DEF E
  <2>4. Above(Origins(cards), c) \subseteq E
    BY <2>2, <2>3, AboveStays
  <2> QED
    BY <2>4, AncestorsAre DEF E
<1>2. Origins(cards) \in [Code -> Code \cup {None}] /\ b \in Above(Origins(cards), c)
  BY OriginsAre, AncestorsAre
<1>3. ASSUME NEW a \in Roots PROVE a \in Ancestors(c) <=> a \in Ancestors(b)
  <2>1. a \in Code /\ Origins(cards)[a] = None
    BY RootsAre DEF Roots, Origins
  <2>2. a \in Above(Origins(cards), b) => a \in Above(Origins(cards), c)
    BY <1>2, AboveAbove
  <2>3. a \in Above(Origins(cards), c) => a \in Above(Origins(cards), b)
    BY <1>2, <2>1, SameRoot
  <2> QED
    BY <1>1, <2>2, <2>3, AncestorsAre
<1> QED
  BY <1>1, <1>3 DEF Chain

\* Who goes on to a replacement still has where it came from above it.
LEMMA StepUp ==
    ASSUME IInv, NEW c \in Code, cards[c].exists, NEW b \in Ancestors(c),
           NEW n \in Replacements(cards, c)
    PROVE  n \in Code /\ b \in Ancestors(n)
<1>1. n \in Code /\ Origins(cards)[n] = c
  BY DEF Replacements, Origins, Origin
<1>2. c \in Above(Origins(cards), n)
  BY <1>1, OriginIsAbove
<1>3. b \in Above(Origins(cards), c)
  BY AncestorsAre
<1> QED
  BY <1>1, <1>2, <1>3, AboveAbove, AncestorsAre

-----------------------------------------------------------------------------

\* A step that changes neither what t has written nor its row.
LEMMA SameBooks ==
    ASSUME IInv, UNCHANGED <<cards, invoices>>, NEW t \in Till, tx[t].pc # "idle",
           ChainsBalance(t), tx'[t].invoice = tx[t].invoice, tx'[t].row = tx[t].row,
           tx'[t].draft = tx[t].draft, Selling(t)' <=> Selling(t),
           \A c \in Code : Debt(tx'[t])[c] = Debt(tx[t])[c]
    PROVE  ChainsBalance(t)'
<1>1. OldSales(tx[t])' = OldSales(tx[t]) /\ Anew(t)' = Anew(t)
  BY DEF OldSales, Anew
<1>2. \A c \in Code : Moved(t)'[c] = Moved(t)[c]
  BY MovedIs DEF Shift, Seen
<1>3. \A a \in Roots' \ Anew(t)' : Over(Moved(t)', Chain(a)') = 0
  <2>1. Anew(t) \subseteq Anew(t)'
    BY <1>1
  <2> QED
    BY <1>2, <2>1, BooksStay
<1> QED
  BY <1>1, <1>3 DEF ChainsBalance

LEMMA BeginBooks ==
    ASSUME IInv, NEW t \in Till, NEW i \in Invoice, NEW pc \in {"lock", "sell", "tender"},
           NEW todo \in SUBSET Code, Begin(t, i, pc, todo), pc = "sell" => ~invoices[i].exists
    PROVE  BooksOK(t)'
<1> DEFINE row == [invoices[i] EXCEPT !.exists = TRUE]
           y == [IdleTx EXCEPT !.pc = pc, !.invoice = i, !.todo = todo, !.row = row]
<1>1. /\ tx' = [tx EXCEPT ![t] = y] /\ UNCHANGED <<cards, invoices, delivered>>
  BY DEF Begin
<1>2. /\ row.sold = invoices[i].sold /\ row.redeemed = invoices[i].redeemed
      /\ row.refunded = invoices[i].refunded /\ invoices[i] \in Row
  BY RowFields DEF IInv, Row
<1> HIDE DEF row
<1>3. /\ y.pc = pc /\ y.invoice = i /\ y.row = row /\ y.at = None /\ DOMAIN y.draft = {}
  BY IdleTypes DEF IdleTx
<1> HIDE DEF y
<1>4. tx'[t] = y
  BY <1>1 DEF IInv, TypeOK
<1>5. \A c \in Code : Moved(t)'[c] = 0
  <2> SUFFICES ASSUME NEW c \in Code PROVE Moved(t)'[c] = 0
    OBVIOUS
  <2>1. Moved(t)' = Shift(y, cards, invoices[i])
    BY <1>1, <1>3, <1>4, MovedIs
  <2>2. Seen(y, cards)[c] = cards[c] /\ cards[c].balance \in Nat
    BY <1>3, CardFields DEF Seen, IInv, TypeOK
  <2>3. Debt(y)[c] = Owed(invoices[i])[c] /\ Owed(invoices[i])[c] \in Int
    <3>1. invoices[i].redeemed[c] \in Nat /\ invoices[i].refunded[c] \in Nat
      BY <1>2 DEF Row
    <3>2. y.pc # "refund"
      BY <1>3
    <3> QED
      BY <1>2, <1>3, <3>1, <3>2 DEF Debt, Owed
  <2> QED
    BY <2>1, <2>2, <2>3 DEF Shift
<1>6. \A a \in Roots' : Over(Moved(t)', Chain(a)') = 0
  <2> SUFFICES ASSUME NEW a \in Roots' PROVE Over(Moved(t)', Chain(a)') = 0
    OBVIOUS
  <2>1. Chain(a)' \subseteq Code /\ IsFiniteSet(Chain(a)')
    BY ChainIsFinite
  <2>2. \A c \in Chain(a)' : Moved(t)'[c] = 0
    BY <1>5, <2>1
  <2> QED
    BY <2>1, <2>2, SumOfNothing, OverIs
<1>7. Anew(t)' = {}
  <2>1. pc = "sell" => invoices[i] = NoRow
    BY DEF IInv, CommittedIsWhole
  <2>2. Selling(t)' => pc = "sell"
    BY <1>3, <1>4 DEF Selling
  <2>3. OldSales(tx[t])' = invoices[i].sold
    BY <1>1, <1>3, <1>4 DEF OldSales
  <2> QED
    BY <2>1, <2>2, <2>3 DEF Anew, NoRow
<1>8. ChainsBalance(t)'
  BY <1>3, <1>4, <1>6, <1>7 DEF ChainsBalance
<1>9. WalkBalances(t)'
  BY <1>1, <1>2, <1>3, <1>4 DEF WalkBalances, OldSales
<1> QED
  BY <1>8, <1>9 DEF BooksOK

LEMMA LockBooks ==
    ASSUME IInv, NEW t \in Till, NEW c \in Code, BooksOK(t), LockCard(t, c)
    PROVE  BooksOK(t)'
<1> DEFINE x == tx[t]
           y == [x EXCEPT !.todo = @ \ {c}]
<1>1. /\ x.pc = "lock" /\ UNCHANGED <<cards, invoices>> /\ tx' = [tx EXCEPT ![t] = y]
      /\ ChainsBalance(t) /\ WalkBalances(t) /\ x.at = None
  <2>1. x.at = None
    BY TillFacts DEF LockCard, WalkIsSound
  <2> QED
    BY <2>1 DEF LockCard, BooksOK
<1>2. /\ y.pc = x.pc /\ y.invoice = x.invoice /\ y.row = x.row
      /\ y.draft = x.draft /\ y.at = x.at
  BY TillFacts DEF Tx
<1>3. tx'[t] = y
  BY <1>1 DEF IInv, TypeOK
<1> HIDE DEF y
<1>4. \A d \in Code : Debt(tx'[t])[d] = Debt(tx[t])[d]
  BY <1>1, <1>2, <1>3 DEF Debt
<1>5. ChainsBalance(t)'
  <2>1. Selling(t)' <=> Selling(t)
    BY <1>2, <1>3 DEF Selling
  <2> QED
    BY <1>1, <1>2, <1>3, <1>4, <2>1, SameBooks
<1>6. WalkBalances(t)'
  BY <1>1, <1>2, <1>3 DEF WalkBalances, OldSales, Selling
<1> QED
  BY <1>5, <1>6 DEF BooksOK

LEMMA CheckBooks ==
    ASSUME IInv, NEW t \in Till, BooksOK(t), CheckSales(t)
    PROVE  BooksOK(t)'
<1> DEFINE x == tx[t]
           y == [x EXCEPT !.pc = "refund", !.todo = OldTender(x)]
           row == invoices[tx[t].invoice]
<1>1. /\ x.pc = "lock" /\ UNCHANGED <<cards, invoices>> /\ tx' = [tx EXCEPT ![t] = y]
      /\ ChainsBalance(t) /\ WalkBalances(t) /\ x.at = None
  <2>1. x.at = None
    BY TillFacts DEF CheckSales, WalkIsSound
  <2> QED
    BY <2>1 DEF CheckSales, BooksOK
<1>2. /\ y.pc = "refund" /\ y.invoice = x.invoice /\ y.row = x.row
      /\ y.draft = x.draft /\ y.at = x.at /\ y.todo = OldTender(x)
  BY TillFacts DEF Tx
<1>3. tx'[t] = y
  BY <1>1 DEF IInv, TypeOK
<1> HIDE DEF y
<1>4. ASSUME NEW d \in Code PROVE Debt(tx'[t])[d] = Debt(tx[t])[d]
  <2>1. x.invoice \in Invoice /\ RowIsSound(t) /\ x.row \in Row /\ row \in Row
    BY <1>1, TillFacts, TxFields, RowFields DEF IInv
  <2>2. x.row.redeemed = row.redeemed
    BY <1>1 DEF WalkBalances
  <2>3. /\ x.row.redeemed[d] \in Nat /\ x.row.refunded[d] \in Nat
        /\ x.row.refunded[d] = 0
    BY <1>1, <2>1 DEF RowIsSound, Row
  <2>4. d \notin OldTender(x) => Owed(x.row)[d] = 0
    BY <2>2, <2>3 DEF OldTender, Owed
  <2> QED
    BY <1>1, <1>2, <1>3, <2>4 DEF Debt
<1>5. ChainsBalance(t)'
  <2>1. Selling(t)' <=> Selling(t)
    BY <1>1, <1>2, <1>3 DEF Selling
  <2> QED
    BY <1>1, <1>2, <1>3, <1>4, <2>1, SameBooks
<1>6. WalkBalances(t)'
  BY <1>1, <1>2, <1>3 DEF WalkBalances, OldSales, Selling
<1> QED
  BY <1>5, <1>6 DEF BooksOK

\* On a chain that an edit does not make anew, it keeps what it does not write.
LEMMA RebuildBooks ==
    ASSUME IInv, NEW t \in Till, BooksOK(t), Rebuild(t)
    PROVE  BooksOK(t)'
<1> DEFINE x == tx[t]
           i == tx[t].invoice
           W == DOMAIN x.draft \cup OldSales(x)
           row == [x.row EXCEPT !.sold = {}, !.redeemed = NoRow.redeemed]
           draft == [c \in W |-> IF c \in OldSales(x) THEN NoCard ELSE x.draft[c]]
           y == [x EXCEPT !.pc = "sell", !.row = row, !.draft = draft]
<1>1. /\ x.pc = "refund" /\ x.todo = {} /\ UNCHANGED <<cards, invoices>>
      /\ ChainsBalance(t) /\ WalkBalances(t)
  BY DEF Rebuild, BooksOK
<1>2. /\ x \in Tx(DOMAIN x.draft) /\ DOMAIN x.draft \subseteq Code /\ i \in Invoice
      /\ x.row \in Row /\ RowIsSound(t) /\ DraftsAreHeld(t)
      /\ x.at = None
  BY <1>1, TillFacts, TxFields DEF WalkIsSound
<1>3. OldSales(x) \subseteq Code /\ W \subseteq Code
  BY <1>2, RowFields DEF OldSales, IInv
<1>4. /\ row.sold = {} /\ row.refunded = x.row.refunded
      /\ \A c \in Code : row.redeemed[c] = 0
  BY <1>2 DEF Row, NoRow
<1>5. /\ DOMAIN draft = W /\ \A c \in OldSales(x) : draft[c] = NoCard
      /\ \A c \in W \ OldSales(x) : c \in DOMAIN x.draft /\ draft[c] = x.draft[c]
  OBVIOUS
<1>6. tx' = [tx EXCEPT ![t] = y]
  BY <1>2 DEF Rebuild, Tx, Row
<1> HIDE DEF row, draft
<1>7. /\ y.pc = "sell" /\ y.invoice = i /\ y.row = row /\ y.draft = draft /\ y.at = None
  BY <1>2 DEF Tx
<1>8. tx'[t] = y
  BY <1>6 DEF IInv, TypeOK
<1> HIDE DEF y, W
<1>9. OldSales(tx[t])' = OldSales(x) /\ Anew(t)' = OldSales(x) /\ Anew(t) = {}
  BY <1>1, <1>7, <1>8 DEF OldSales, Anew, Selling
<1>10. \A c \in Code \ OldSales(x) : Moved(t)'[c] = Moved(t)[c]
  <2> SUFFICES ASSUME NEW c \in Code \ OldSales(x) PROVE Moved(t)'[c] = Moved(t)[c]
    OBVIOUS
  <2>1. /\ Moved(t) = Shift(x, cards, invoices[i])
        /\ Moved(t)' = Shift(y, cards, invoices[i])
    BY <1>1, <1>7, <1>8, MovedIs
  <2>2. Seen(y, cards)[c] = Seen(x, cards)[c]
    BY <1>5, <1>7 DEF Seen, W
  <2>3. Debt(x)[c] = 0
    BY <1>1 DEF Debt
  <2>4. Debt(y)[c] = 0
    <3>1. row.refunded[c] = 0 /\ row.redeemed[c] = 0
      BY <1>1, <1>2, <1>4 DEF RowIsSound
    <3> QED
      BY <1>7, <3>1 DEF Debt, Owed
  <2> QED
    BY <2>1, <2>2, <2>3, <2>4 DEF Shift
<1>11. \A a \in Roots' \ Anew(t)' : Over(Moved(t)', Chain(a)') = 0
  <2>1. \A c \in Code : (\E a \in Roots \ Anew(t)' : c \in Chain(a)) =>
              Moved(t)'[c] = Moved(t)[c]
    <3>1. \A a \in Roots \ OldSales(x) : \A c \in Chain(a) : c \notin OldSales(x)
      BY <1>2, SalesAreAlone DEF OldSales
    <3> QED
      BY <1>9, <1>10, <3>1
  <2> QED
    BY <1>1, <1>9, <2>1, BooksStay
<1>12. ASSUME NEW c \in W, c \notin OldSales(x) PROVE cards[c].exists \/ ~draft[c].exists
  <2> SUFFICES ASSUME ~cards[c].exists, draft[c].exists PROVE FALSE
    OBVIOUS
  <2>1. c \in DOMAIN x.draft /\ x.draft[c].exists
    BY <1>5, <1>12
  <2>2. c \in x.row.sold
    BY <1>1, <2>1 DEF ChainsBalance
  <2> QED
    BY <1>1, <1>12, <2>2 DEF WalkBalances, Selling
<1>13. ChainsBalance(t)'
  <2>1. Anew(t)' \subseteq W
    BY <1>9 DEF W
  <2>2. \A c \in W : draft[c].exists => c \notin OldSales(x) /\ cards[c].exists
    BY <1>5, <1>12 DEF NoCard
  <2> QED
    BY <1>1, <1>4, <1>5, <1>7, <1>8, <1>9, <1>11, <2>1, <2>2 DEF ChainsBalance
<1>14. WalkBalances(t)'
  BY <1>7, <1>8 DEF WalkBalances, Selling
<1> QED
  BY <1>13, <1>14 DEF BooksOK

LEMMA SellBooks ==
    ASSUME IInv, NEW t \in Till, NEW c \in Code, NEW amount \in Amount, BooksOK(t),
           Sell(t, c, amount)
    PROVE  BooksOK(t)'
<1> DEFINE x == tx[t]
           i == tx[t].invoice
           W == DOMAIN x.draft
           z == Write(x, c, NewCard(amount))
           row == [x.row EXCEPT !.sold = @ \cup {c}]
           y == [z EXCEPT !.row = row]
<1>1. /\ x.pc = "sell" /\ UNCHANGED <<cards, invoices>>
      /\ Fresh(c) \/ (c \in OldSales(x) /\ ~View(t)[c].exists)
      /\ ChainsBalance(t) /\ WalkBalances(t)
  BY DEF Sell, BooksOK
<1>2. /\ x \in Tx(W) /\ W \subseteq Code /\ i \in Invoice /\ x.row \in Row
      /\ RowIsSound(t) /\ SalesAreHeld(t) /\ x.at = None
  BY <1>1, TillFacts, TxFields DEF WalkIsSound
<1>3. /\ row.sold = x.row.sold \cup {c} /\ row.redeemed = x.row.redeemed
      /\ row.refunded = x.row.refunded
  BY <1>2 DEF Row
<1>4. NewCard(amount) \in Card /\ NewCard(amount).balance = amount
  BY NewCardFields DEF Amount
<1> HIDE DEF x, W
<1>5. /\ z \in Tx(W \cup {c}) /\ DOMAIN z.draft = W \cup {c}
      /\ z.draft[c] = NewCard(amount) /\ \A d \in W \ {c} : z.draft[d] = x.draft[d]
      /\ z.pc = x.pc /\ z.invoice = x.invoice /\ z.row = x.row /\ z.at = x.at
  BY <1>2, <1>4, WriteFields DEF Written
<1> USE DEF x, W
<1>6. tx' = [tx EXCEPT ![t] = y]
  <2>1. y = [z EXCEPT !.row.sold = @ \cup {c}]
    BY <1>5, <1>2 DEF Tx, Row
  <2> QED
    BY <2>1 DEF Sell
<1> HIDE DEF z, row
<1>7. /\ y.pc = "sell" /\ y.invoice = i /\ y.row = row /\ y.draft = z.draft /\ y.at = None
  BY <1>1, <1>2, <1>5 DEF Tx
<1>8. tx'[t] = y
  BY <1>6 DEF IInv, TypeOK
<1> HIDE DEF y
<1>9. /\ OldSales(tx[t])' = OldSales(x) /\ Anew(t)' = OldSales(x) /\ Anew(t) = OldSales(x)
      /\ Selling(t) /\ Selling(t)'
  BY <1>1, <1>7, <1>8 DEF OldSales, Anew, Selling
<1>10. c \in OldSales(x) \/ ~cards[c].exists
  BY <1>1 DEF Fresh
<1>11. x.row.redeemed[c] = 0
  <2> SUFFICES ASSUME x.row.redeemed[c] > 0 PROVE FALSE
    BY <1>2 DEF Row
  <2>1. ~(c \in W /\ ~x.draft[c].exists) /\ (c \in OldTender(x) \/ c \in W)
    BY <1>2 DEF RowIsSound
  <2>2. c \notin OldTender(x)
    BY <1>2, <1>9, <1>10 DEF SalesAreHeld, OldTender, IInv, CommittedIsWhole
  <2>3. c \in W /\ x.draft[c].exists
    BY <2>1, <2>2
  <2> QED
    BY <1>1, <2>3 DEF Fresh, View
<1>12. \A a \in Roots' \ Anew(t)' : Over(Moved(t)', Chain(a)') = 0
  <2>1. \A d \in Code \ {c} : Moved(t)'[d] = Moved(t)[d]
    <3>1. /\ Moved(t) = Shift(x, cards, invoices[i])
          /\ Moved(t)' = Shift(y, cards, invoices[i])
      BY <1>1, <1>7, <1>8, MovedIs
    <3>2. \A d \in Code \ {c} : Seen(y, cards)[d] = Seen(x, cards)[d]
      BY <1>5, <1>7 DEF Seen
    <3>3. \A d \in Code : Debt(y)[d] = Debt(x)[d]
      BY <1>1, <1>3, <1>7 DEF Debt, Owed
    <3> QED
      BY <3>1, <3>2, <3>3 DEF Shift
  <2>2. \A a \in Roots \ Anew(t)' : c \notin Chain(a)
    <3>1. \A a \in Roots \ OldSales(x) : c \in Chain(a) =>
             cards[c].exists /\ c \notin OldSales(x)
      BY <1>2, SalesAreAlone DEF OldSales
    <3> QED
      BY <1>9, <1>10, <3>1
  <2>3. \A d \in Code : (\E a \in Roots \ Anew(t)' : d \in Chain(a)) =>
              Moved(t)'[d] = Moved(t)[d]
    BY <2>1, <2>2
  <2>4. Anew(t) \subseteq Anew(t)' /\ tx[t].pc # "idle"
    BY <1>1, <1>9
  <2> QED
    BY <1>1, <2>3, <2>4, BooksStay
<1>13. ASSUME NEW d \in W \cup {c}
       PROVE  /\ y.draft[d].exists /\ (~cards'[d].exists \/ d \in Anew(t)') => d \in y.row.sold
              /\ d \in y.row.sold => y.draft[d].balance + y.row.redeemed[d] \in Amount
  <2>1. CASE d = c
    BY <1>3, <1>4, <1>5, <1>7, <1>11, <2>1 DEF Amount
  <2>2. CASE d # c
    <3>1. y.draft[d] = x.draft[d] /\ y.row.redeemed = x.row.redeemed
          /\ y.row.sold = x.row.sold \cup {c}
      BY <1>3, <1>5, <1>7, <2>2
    <3> QED
      BY <1>1, <1>9, <2>2, <3>1 DEF ChainsBalance
  <2> QED
    BY <2>1, <2>2
<1>14. ChainsBalance(t)'
  <2>1. Anew(t)' \subseteq W \cup {c}
    BY <1>1, <1>9 DEF ChainsBalance
  <2> QED
    BY <1>5, <1>7, <1>8, <1>12, <1>13, <2>1 DEF ChainsBalance
<1>15. WalkBalances(t)'
  BY <1>7, <1>8 DEF WalkBalances, Selling
<1> QED
  BY <1>14, <1>15 DEF BooksOK

\* The money on its way belongs to a chain of card c, and how much it is.
Walking(x, c) ==
    /\ x.code \in Ancestors(c)
    /\ c = x.code \/ (cards[c].exists /\ Origin(cards[c]) # None)
    /\ x.pc = "refund" => x.amount = x.row.redeemed[x.code]
    /\ x.pc = "redeem" => x.row.redeemed[x.code] = 0

LEMMA WalkBooks ==
    ASSUME IInv, NEW t \in Till, NEW x, NEW c \in Code, BooksOK(t), OnTheWay(t, x, c),
           Walking(x, c), UNCHANGED <<cards, invoices>>,
           NEW n \in Successor(t, x, c), tx' = [tx EXCEPT ![t] = [x EXCEPT !.at = n]]
    PROVE  BooksOK(t)'
<1> DEFINE y == [x EXCEPT !.at = n]
<1>1. /\ n \in Replacements(cards, c) /\ n \in Code
  BY ViewReplaces DEF Successor, Replacements
<1>2. /\ y.pc = x.pc /\ y.invoice = tx[t].invoice /\ y.at = n /\ y.row = tx[t].row
      /\ y.draft = tx[t].draft /\ y.todo = tx[t].todo
      /\ y.code = x.code /\ y.amount = x.amount /\ x.row = tx[t].row
      /\ x.invoice = tx[t].invoice
      /\ x.pc \in {"refund", "redeem", "tender"}
      /\ x.pc = tx[t].pc \/ (Selling(t) /\ x.pc = "redeem")
  BY <1>1 DEF OnTheWay, Tx
<1>3. tx'[t] = y
  BY DEF IInv, TypeOK
<1> HIDE DEF y
<1>4. /\ tx[t].pc # "idle" /\ ChainsBalance(t) /\ WalkBalances(t)
      /\ (tx[t].pc = "refund" <=> y.pc = "refund") /\ (Selling(t)' <=> Selling(t))
      /\ y.pc # "lock"
  BY <1>2, <1>3 DEF BooksOK, Selling
<1>5. ChainsBalance(t)'
  <2>1. \A d \in Code : Debt(tx'[t])[d] = Debt(tx[t])[d]
    <3>1. Debt(y) = Debt(tx[t])
      BY <1>2, <1>4 DEF Debt
    <3> QED
      BY <1>3, <3>1
  <2> QED
    BY <1>2, <1>3, <1>4, <2>1, SameBooks
<1>6. x.code \in Ancestors(n)
  <2>1. cards[c].exists
    <3>1. Origin(cards[n]) = c /\ c # None
      BY <1>1 DEF Replacements, Origin
    <3> QED
      BY <1>1, <3>1, OriginsAre
  <2> QED
    BY <1>1, <2>1, StepUp DEF Walking
<1>7. WalkBalances(t)'
  <2>1. Ancestors(n)' = Ancestors(n)
    BY <1>1, TablesStay
  <2>2. /\ ~Selling(t) => y.row.sold = invoices'[y.invoice].sold
        /\ y.pc = "refund" => y.row.redeemed = invoices'[y.invoice].redeemed
    BY <1>2, <1>3, <1>4 DEF WalkBalances, OldSales
  <2> QED
    BY <1>2, <1>3, <1>4, <1>6, <2>1, <2>2 DEF WalkBalances, Walking, OldSales
<1> QED
  BY <1>5, <1>7 DEF BooksOK

LEMMA SettleBooks ==
    ASSUME IInv, NEW t \in Till, NEW x, NEW c \in Code, BooksOK(t), OnTheWay(t, x, c),
           Walking(x, c), UNCHANGED <<cards, invoices>>,
           x.pc = "redeem" => Redeemable(View(t)[c], x.amount),
           tx' = [tx EXCEPT ![t] = Settled(t, x, c)]
    PROVE  BooksOK(t)'
<1> DEFINE W == DOMAIN tx[t].draft
           i == tx[t].invoice
           y == Settled(t, x, c)
           old == View(t)[c]
           code == x.code
           paid == IF x.pc = "redeem" THEN 0 - x.amount ELSE x.amount
<1>1. /\ x \in Tx(W) /\ code \in Code /\ x.pc \in {"refund", "redeem", "tender"}
      /\ x.pc = "tender" => Refundable(x, x.code, x.amount)
      /\ x.invoice = i /\ x.row = tx[t].row /\ x.draft = tx[t].draft
      /\ x.todo = tx[t].todo /\ (c \in W \/ cards[c].exists)
      /\ x.pc = tx[t].pc \/ (Selling(t) /\ x.pc = "redeem")
      /\ x.pc = "refund" => x.code \in x.todo
  BY DEF OnTheWay
<1>2. tx'[t] = y
  BY DEF IInv, TypeOK
<1>3. Settles(W, x, c, old, y)
  <2> HIDE DEF W
  <2> QED
    BY <1>1, SettledFields
<1> HIDE DEF y
<1>4. /\ DOMAIN y.draft = W \cup {c} /\ BalanceMoves(x, old, y.draft[c])
      /\ \A d \in W \ {c} : y.draft[d] = tx[t].draft[d]
      /\ y.pc = x.pc /\ y.invoice = i /\ y.at = None /\ RowMoves(x, y.row)
      /\ y.todo = (IF x.pc = "refund" THEN x.todo \ {code} ELSE x.todo)
  BY <1>1, <1>3 DEF Settles
<1>5. /\ tx[t].pc # "idle" /\ ChainsBalance(t) /\ WalkBalances(t)
      /\ (Selling(t) <=> x.pc = "redeem") /\ (Selling(t)' <=> x.pc = "redeem")
      /\ (tx[t].pc = "refund" <=> x.pc = "refund")
      /\ (tx[t].pc = "tender" <=> x.pc = "tender")
      /\ OldSales(tx[t])' = OldSales(tx[t]) /\ Anew(t)' = Anew(t)
  BY <1>1, <1>2, <1>4 DEF BooksOK, Selling, OldSales, Anew
<1>6. /\ W \subseteq Code /\ i \in Invoice /\ RowIsSound(t) /\ SalesAreHeld(t)
      /\ x.row \in Row /\ x.amount \in Nat
      /\ \A d \in Code : x.row.redeemed[d] \in Nat /\ x.row.refunded[d] \in Nat
      /\ old \in Card /\ old.balance \in Nat /\ cards \in [Code -> Card]
  BY <1>1, <1>5, TillFacts, TxFields, ViewCard DEF Row, Card, IInv, TypeOK
<1>7. paid \in Int
  BY <1>6
<1>8. ASSUME NEW d \in Code
      PROVE  Debt(y)[d] = Debt(tx[t])[d] + Point(code, 0 - paid)[d]
  <2> DEFINE red == x.row.redeemed[d]
             ref == x.row.refunded[d]
  <2>1. red \in Nat /\ ref \in Nat /\ y.row.redeemed[d] \in Nat /\ y.row.refunded[d] \in Nat
    BY <1>4, <1>6 DEF RowMoves, Row
  <2>2. /\ Debt(y)[d] = IF y.pc = "refund" /\ d \notin y.todo THEN 0
                        ELSE y.row.redeemed[d] - y.row.refunded[d]
        /\ Debt(tx[t])[d] = IF x.pc = "refund" /\ d \notin x.todo THEN 0 ELSE red - ref
        /\ Point(code, 0 - paid)[d] = IF d = code THEN 0 - paid ELSE 0
    BY <1>1, <1>5 DEF Debt, Owed, Point
  <2>3. CASE d # code
    <3>1. y.row.redeemed[d] = red /\ y.row.refunded[d] = ref
      BY <1>4, <2>3 DEF RowMoves
    <3>2. y.pc = "refund" /\ d \notin y.todo <=> x.pc = "refund" /\ d \notin x.todo
      BY <1>4, <2>3
    <3> HIDE DEF red, ref
    <3> QED
      BY <2>1, <2>2, <2>3, <3>1, <3>2
  <2>4. CASE d = code /\ x.pc = "redeem"
    <3>1. y.row.redeemed[d] = x.amount /\ y.row.refunded[d] = ref /\ red = 0
      BY <1>4, <2>4 DEF RowMoves, Walking
    <3> HIDE DEF red, ref
    <3> QED
      BY <1>4, <1>6, <2>1, <2>2, <2>4, <3>1
  <2>5. CASE d = code /\ x.pc = "tender"
    <3>1. y.row.redeemed[d] = red /\ y.row.refunded[d] = ref + x.amount
      BY <1>4, <2>5 DEF RowMoves
    <3> HIDE DEF red, ref
    <3> QED
      BY <1>4, <1>6, <2>1, <2>2, <2>5, <3>1
  <2>6. CASE d = code /\ x.pc = "refund"
    <3>1. /\ y.row.redeemed[d] = red /\ y.row.refunded[d] = ref /\ ref = 0
          /\ x.amount = red
      BY <1>1, <1>4, <1>5, <1>6, <2>6 DEF RowMoves, Walking, RowIsSound
    <3>2. d \in x.todo /\ d \notin y.todo /\ y.pc = "refund"
      BY <1>1, <1>4, <2>6
    <3> HIDE DEF red, ref
    <3> QED
      BY <1>6, <2>1, <2>2, <2>6, <3>1, <3>2
  <2> QED
    BY <1>1, <2>3, <2>4, <2>5, <2>6
<1>9. ASSUME NEW d \in Code
      PROVE  Seen(y, cards)[d].balance = Seen(tx[t], cards)[d].balance + Point(c, paid)[d]
  <2>1. Point(c, paid)[d] = IF d = c THEN paid ELSE 0
    BY DEF Point
  <2>2. CASE d = c
    <3>1. Seen(y, cards)[c] = y.draft[c] /\ Seen(tx[t], cards)[c] = old
      BY <1>4 DEF Seen, View
    <3>2. y.draft[c].balance = old.balance + paid
      BY <1>4, <1>6 DEF BalanceMoves
    <3> QED
      BY <2>1, <2>2, <3>1, <3>2
  <2>3. CASE d # c
    <3>1. Seen(y, cards)[d] = Seen(tx[t], cards)[d]
      BY <1>4, <2>3 DEF Seen
    <3>2. Seen(tx[t], cards)[d] = View(t)[d] /\ View(t)[d] \in Card
      BY ViewCard DEF Seen, View
    <3>3. Seen(tx[t], cards)[d].balance \in Nat
      BY <3>2 DEF Card
    <3> QED
      BY <2>1, <2>3, <3>1, <3>3
  <2> QED
    BY <2>2, <2>3
<1>10. ASSUME NEW d \in Code
       PROVE  Moved(t)'[d] = Moved(t)[d] + (Point(code, 0 - paid)[d] + Point(c, paid)[d])
  <2>1. /\ Moved(t) = Shift(tx[t], cards, invoices[i])
        /\ Moved(t)' = Shift(y, cards, invoices[i])
    BY <1>2, <1>4, MovedIs
  <2>2. /\ Debt(tx[t])[d] \in Int /\ Owed(invoices[i])[d] \in Int
        /\ Seen(tx[t], cards)[d].balance \in Nat /\ cards[d].balance \in Nat
    <3>1. /\ tx[t] \in Tx(W) /\ W \in SUBSET Code /\ cards \in [Code -> Card]
          /\ invoices[i] \in Row
      BY <1>6, TillFacts, RowFields DEF IInv
    <3> HIDE DEF W, i
    <3> QED
      BY <3>1, ShiftIsInt
  <2>3. Point(code, 0 - paid)[d] \in Int /\ Point(c, paid)[d] \in Int
    <3> HIDE DEF paid
    <3>1. 0 - paid \in Int
      BY <1>7
    <3> QED
      BY <1>7, <3>1, PointIsInt DEF Point
  <2>4. /\ Shift(tx[t], cards, invoices[i])[d]
             = (Seen(tx[t], cards)[d].balance - cards[d].balance)
                 + (Debt(tx[t])[d] - Owed(invoices[i])[d])
        /\ Shift(y, cards, invoices[i])[d]
             = (Seen(y, cards)[d].balance - cards[d].balance)
                 + (Debt(y)[d] - Owed(invoices[i])[d])
    BY DEF Shift
  <2>5. \A s, b \in Nat, e, o, p, q \in Int :
          ((s + q) - b) + ((e + p) - o) = ((s - b) + (e - o)) + (p + q)
    OBVIOUS
  <2> HIDE DEF paid, code, i
  <2> QED
    BY <1>8, <1>9, <2>1, <2>2, <2>3, <2>4, <2>5
<1>11. \A a \in Roots : code \in Chain(a) <=> c \in Chain(a)
  <2>1. CASE c = code
    BY <2>1
  <2>2. CASE c # code
    BY <2>2, SameChains DEF Walking
  <2> QED
    BY <2>1, <2>2
<1>12. \A a \in Roots' \ Anew(t)' : Over(Moved(t)', Chain(a)') = 0
  <2>1. Anew(t) \subseteq Anew(t)'
    BY <1>5
  <2> HIDE DEF paid, code, i
  <2>2. \A d \in Code : (\E a \in Roots \ Anew(t)' : d \in Chain(a)) =>
           Moved(t)'[d] = Moved(t)[d] + (Point(code, 0 - paid)[d] + Point(c, paid)[d])
    BY <1>10
  <2>3. code \in Code
    BY <1>1 DEF code
  <2> QED
    BY <1>5, <1>7, <1>11, <2>1, <2>2, <2>3, BooksMove
<1>13. x.pc = "redeem" => \A d \in Code : d \in x.row.sold =>
          Origin(cards[d]) = None /\ d \in W /\ d \notin OldTender(x)
  <2> SUFFICES ASSUME NEW d \in Code, d \in x.row.sold, x.pc = "redeem"
               PROVE  Origin(cards[d]) = None /\ d \in W /\ d \notin OldTender(x)
    OBVIOUS
  <2>1. d \in OldSales(tx[t]) \/ (d \in W /\ ~cards[d].exists)
    BY <1>1, <1>6 DEF RowIsSound
  <2>2. CASE d \in OldSales(tx[t])
    <3>1. d \in W
      BY <1>5, <2>2 DEF ChainsBalance, Anew
    <3>2. Origin(cards[d]) = None
      BY <1>6, <2>2 DEF IInv, CommittedIsWhole, OldSales, Origin
    <3>3. d \notin OldTender(x)
      BY <1>1, <1>5, <1>6, <2>2 DEF SalesAreHeld, OldTender
    <3> QED
      BY <3>1, <3>2, <3>3
  <2>3. CASE d \in W /\ ~cards[d].exists
    BY <1>1, <1>6, <2>3 DEF Origin, OldTender, IInv, CommittedIsWhole
  <2> QED
    BY <2>1, <2>2, <2>3
<1>14. ASSUME NEW d \in W \cup {c}
       PROVE  /\ y.draft[d].exists /\ (~cards[d].exists \/ d \in Anew(t)) => d \in x.row.sold
              /\ x.pc = "redeem" /\ d \in x.row.sold =>
                   y.draft[d].balance + y.row.redeemed[d] \in Amount
  <2>1. CASE d = c
    <3>1. c \in W => old = tx[t].draft[c]
      BY DEF View
    <3>2. ASSUME y.draft[c].exists, ~cards[c].exists \/ c \in Anew(t) PROVE c \in x.row.sold
      <4>1. c \in W
        BY <1>1, <1>5, <3>2 DEF ChainsBalance
      <4>2. tx[t].draft[c].exists
        BY <1>4, <3>1, <3>2, <4>1 DEF BalanceMoves
      <4> QED
        BY <1>1, <1>5, <3>2, <4>1, <4>2 DEF ChainsBalance
    <3>3. ASSUME x.pc = "redeem", c \in x.row.sold
          PROVE  y.draft[c].balance + y.row.redeemed[c] \in Amount
      <4>1. c = code /\ c \in W
        BY <1>13, <3>3 DEF Walking
      <4>2. x.row.redeemed[c] = 0 /\ y.row.redeemed[c] = x.amount
        BY <1>4, <3>3, <4>1 DEF Walking, RowMoves
      <4>3. old.balance + 0 \in Amount
        BY <1>1, <1>5, <3>1, <3>3, <4>1, <4>2 DEF ChainsBalance
      <4>4. y.draft[c].balance = old.balance - x.amount
        BY <1>4, <3>3 DEF BalanceMoves
      <4>5. y.draft[c].balance + y.row.redeemed[c] = old.balance + 0
        BY <1>6, <4>2, <4>4
      <4> QED
        BY <4>3, <4>5
    <3> QED
      BY <2>1, <3>2, <3>3
  <2>2. CASE d # c
    <3>1. d \in W /\ y.draft[d] = tx[t].draft[d]
      BY <1>4, <2>2
    <3>2. ASSUME x.pc = "redeem", d \in x.row.sold
          PROVE  y.row.redeemed[d] = x.row.redeemed[d]
      <4>1. d # code
        BY <1>6, <1>13, <2>2, <3>1, <3>2 DEF OnTheWay
      <4> QED
        BY <1>4, <1>6, <3>1, <4>1 DEF RowMoves
    <3> QED
      BY <1>1, <1>5, <3>1, <3>2 DEF ChainsBalance
  <2> QED
    BY <2>1, <2>2
<1>15. y.row.sold = x.row.sold
  BY <1>4 DEF RowMoves
<1>16. ChainsBalance(t)'
  <2>1. Anew(t)' \subseteq W \cup {c}
    BY <1>5 DEF ChainsBalance
  <2> QED
    BY <1>2, <1>4, <1>5, <1>12, <1>14, <1>15, <2>1 DEF ChainsBalance
<1>17. WalkBalances(t)'
  <2>1. ASSUME x.pc = "refund" PROVE y.row.redeemed = x.row.redeemed
    <3>1. y.row.redeemed \in [Code -> 0..MaxFace] /\ x.row.redeemed \in [Code -> 0..MaxFace]
      BY <1>4, <1>6 DEF RowMoves, Row
    <3>2. \A d \in Code : y.row.redeemed[d] = x.row.redeemed[d]
      BY <1>4, <2>1 DEF RowMoves
    <3> QED
      BY <3>1, <3>2
  <2>2. /\ ~Selling(t)' => y.row.sold = invoices'[i].sold
        /\ x.pc = "refund" => y.row.redeemed = invoices'[i].redeemed
    BY <1>1, <1>5, <1>15, <2>1 DEF WalkBalances, OldSales
  <2> QED
    BY <1>1, <1>2, <1>4, <2>2 DEF WalkBalances, OldSales
<1> QED
  BY <1>16, <1>17 DEF BooksOK

LEMMA ReachBooks ==
    ASSUME IInv, NEW t \in Till, NEW x, NEW c \in Code, BooksOK(t), OnTheWay(t, x, c),
           Walking(x, c), Reach(t, x, c)
    PROVE  BooksOK(t)'
<1>1. UNCHANGED <<cards, invoices>>
  BY DEF Reach
<1>2. CASE Successor(t, x, c) # {}
  <2>1. \E n \in Successor(t, x, c) : tx' = [tx EXCEPT ![t] = [x EXCEPT !.at = n]]
    BY <1>2 DEF Reach
  <2> QED
    BY <1>1, <2>1, WalkBooks
<1>3. CASE Successor(t, x, c) = {}
  <2>1. /\ x.pc = "redeem" => Redeemable(View(t)[c], x.amount)
        /\ tx' = [tx EXCEPT ![t] = Settled(t, x, c)]
    BY <1>3 DEF Reach
  <2> QED
    BY <1>1, <2>1, SettleBooks
<1> QED
  BY <1>2, <1>3

\* Of a till's own steps, one that ends its transaction leaves no books.
LEMMA EndBooks ==
    ASSUME IInv, NEW t \in Till, End(t)
    PROVE  BooksOK(t)'
<1>1. tx'[t] = IdleTx
  BY DEF End, IInv, TypeOK
<1> QED
  BY <1>1, IdleFields DEF BooksOK

LEMMA OwnBooks ==
    ASSUME IInv, NEW t \in Till, BooksOK(t), TillStep(t)
    PROVE  BooksOK(t)'
<1>1. ASSUME NEW i \in Invoice, CreateInvoice(t, i) PROVE BooksOK(t)'
  <2>1. Begin(t, i, "sell", {}) /\ ~invoices[i].exists /\ {} \in SUBSET Code
    BY <1>1 DEF CreateInvoice
  <2> QED
    BY <2>1, BeginBooks
<1>2. ASSUME NEW i \in Invoice, EditInvoice(t, i) PROVE BooksOK(t)'
  <2> DEFINE todo == invoices[i].sold \cup {c \in Code : invoices[i].redeemed[c] > 0}
  <2>1. todo \in SUBSET Code
    BY RowFields DEF IInv
  <2>2. Begin(t, i, "lock", todo)
    BY <1>2 DEF EditInvoice
  <2> HIDE DEF todo
  <2> QED
    BY <2>1, <2>2, BeginBooks
<1>3. ASSUME NEW i \in Invoice, RefundInvoice(t, i) PROVE BooksOK(t)'
  <2>1. Begin(t, i, "tender", {}) /\ {} \in SUBSET Code
    BY <1>3 DEF RefundInvoice
  <2> QED
    BY <2>1, BeginBooks
<1>4. ASSUME NEW c \in Code, PayBack(t, c) PROVE BooksOK(t)'
  <2>1. PICK x : /\ OnTheWay(t, x, c) /\ Reach(t, x, c) /\ x.pc = "refund"
                 /\ x.code = c /\ x.amount = invoices[tx[t].invoice].redeemed[c]
    BY <1>4, PayBackReaches
  <2>2. x.row = tx[t].row /\ tx[t].pc = "refund"
    BY <1>4, <2>1 DEF OnTheWay, PayBack
  <2>3. x.amount = x.row.redeemed[c]
    BY <2>1, <2>2 DEF BooksOK, WalkBalances
  <2>4. Walking(x, c)
    BY <2>1, <2>3, AncestorsOf DEF Walking
  <2> QED
    BY <2>1, <2>4, ReachBooks
<1>5. ASSUME NEW c \in Code, NEW amount \in Amount, Redeem(t, c, amount) PROVE BooksOK(t)'
  <2>1. PICK x : OnTheWay(t, x, c) /\ Reach(t, x, c) /\ x.pc = "redeem" /\ x.code = c
    BY <1>5, RedeemReaches
  <2>2. x.row.redeemed[c] = 0
    BY <1>5, <2>1 DEF OnTheWay, Redeem
  <2>3. Walking(x, c)
    BY <2>1, <2>2, AncestorsOf DEF Walking
  <2> QED
    BY <2>1, <2>3, ReachBooks
<1>6. ASSUME NEW c \in Code, NEW amount \in Amount, RefundCard(t, c, amount)
      PROVE  BooksOK(t)'
  <2>1. PICK x : OnTheWay(t, x, c) /\ Reach(t, x, c) /\ x.pc = "tender" /\ x.code = c
    BY <1>6, RefundCardReaches
  <2>2. Walking(x, c)
    BY <2>1, AncestorsOf DEF Walking
  <2> QED
    BY <2>1, <2>2, ReachBooks
<1>7. ASSUME Follow(t) PROVE BooksOK(t)'
  <2>1. /\ tx[t].at \in Code /\ OnTheWay(t, tx[t], tx[t].at) /\ Reach(t, tx[t], tx[t].at)
        /\ tx[t].at # None /\ WalkIsSound(t)
    BY <1>7, FollowReaches, TillFacts DEF Follow
  <2>2. tx[t].pc # "idle" /\ WalkBalances(t)
    BY <2>1 DEF OnTheWay, BooksOK
  <2>3. Walking(tx[t], tx[t].at)
    BY <2>1, <2>2, OriginsAre DEF WalkIsSound, WalkBalances, Walking
  <2> QED
    BY <2>1, <2>3, ReachBooks
<1>8. CASE Commit(t) \/ Rollback(t)
  BY <1>8, EndBooks DEF Commit, Rollback
<1>9. ASSUME NEW c \in Code, LockCard(t, c) PROVE BooksOK(t)'
  BY <1>9, LockBooks
<1>10. ASSUME NEW c \in Code, NEW amount \in Amount, Sell(t, c, amount) PROVE BooksOK(t)'
  BY <1>10, SellBooks
<1>11. CASE CheckSales(t) \/ Rebuild(t)
  BY <1>11, CheckBooks, RebuildBooks
<1> QED
  BY <1>1, <1>2, <1>3, <1>4, <1>5, <1>6, <1>7, <1>8, <1>9, <1>10, <1>11 DEF TillStep

-----------------------------------------------------------------------------
(* What the steps of others leave alone. *)

LEMMA CardStepIsSteady ==
    ASSUME IInv, CardStep, NEW t \in Till
    PROVE  Steady(t)
<1>1. UNCHANGED <<invoices, tx>>
  BY DEF CardStep, Issue, UpdateCard, Replace, ApproveDelivery
<1>2. DOMAIN tx[t].draft \subseteq Code /\ cards \in [Code -> Card]
  BY TillFacts DEF IInv, TypeOK
<1>3. (\A c \in DOMAIN tx[t].draft : cards'[c] = cards[c]) /\ OriginsStay
  <2>1. ASSUME NEW c \in Code, NEW amount \in Amount, Issue(c, amount)
        PROVE  (\A d \in DOMAIN tx[t].draft : cards'[d] = cards[d]) /\ OriginsStay
    BY <1>2, <2>1 DEF Issue, Fresh, OriginsStay
  <2>2. ASSUME NEW c \in Code, NEW active \in BOOLEAN, UpdateCard(c, active)
        PROVE  (\A d \in DOMAIN tx[t].draft : cards'[d] = cards[d]) /\ OriginsStay
    <3>1. /\ cards' = [cards EXCEPT ![c].active = active] /\ c \notin DOMAIN tx[t].draft
      BY <2>2, NobodyWrites DEF UpdateCard
    <3>2. \A d \in Code \ {c} : cards'[d] = cards[d]
      BY <1>2, <3>1
    <3>3. cards'[c].exists = cards[c].exists /\ cards'[c].replaces = cards[c].replaces
      BY <1>2, <3>1, CardFields DEF Card
    <3> QED
      BY <1>2, <3>1, <3>2, <3>3 DEF OriginsStay, Origin
  <2>3. ASSUME NEW c \in Code, NEW n \in Code, Replace(c, n)
        PROVE  (\A d \in DOMAIN tx[t].draft : cards'[d] = cards[d]) /\ OriginsStay
    <3> DEFINE fresh == [NewCard(cards[c].balance) EXCEPT !.replaces = c]
               spent == [cards[c] EXCEPT !.balance = 0, !.active = FALSE]
    <3>1. /\ c \notin DOMAIN tx[t].draft /\ n \notin DOMAIN tx[t].draft /\ n # c
          /\ ~cards[n].exists
      BY <2>3, NobodyWrites DEF Replace, Fresh
    <3>2. cards' = [cards EXCEPT ![n] = fresh, ![c] = spent]
      BY <2>3, <3>1 DEF Replace
    <3>3. spent.exists = cards[c].exists /\ spent.replaces = cards[c].replaces
      BY <1>2, CardFields DEF Card
    <3> HIDE DEF fresh, spent
    <3>4. (\A d \in Code \ {c, n} : cards'[d] = cards[d]) /\ cards'[c] = spent
      BY <1>2, <3>1, <3>2
    <3> QED
      BY <1>2, <3>1, <3>3, <3>4 DEF OriginsStay, Origin
  <2>4. ASSUME NEW c \in Code, ApproveDelivery(c)
        PROVE  (\A d \in DOMAIN tx[t].draft : cards'[d] = cards[d]) /\ OriginsStay
    BY <1>2, <2>4 DEF ApproveDelivery, OriginsStay
  <2> QED
    BY <2>1, <2>2, <2>3, <2>4 DEF CardStep
<1> QED
  BY <1>1, <1>3 DEF Steady

LEMMA OtherTillIsSteady ==
    ASSUME IInv, NEW u \in Till, TillStep(u), NEW t \in Till \ {u}
    PROVE  Steady(t)
<1>1. CASE Commit(u)
  <2>1. Frame(t) /\ OriginsStay
    BY <1>1, CommitFrames, CommitKeeps DEF OriginsStay
  <2> QED
    BY <2>1 DEF Frame, Steady
<1>2. CASE UNCHANGED <<cards, invoices>> /\ tx'[t] = tx[t]
  BY <1>2 DEF Steady, OriginsStay
<1>3. ASSUME ~Commit(u) PROVE UNCHANGED <<cards, invoices>> /\ tx'[t] = tx[t]
  <2>1. DOMAIN tx = Till
    BY DEF IInv, TypeOK
  <2> QED
    BY <1>3, <2>1 DEF TillStep, CreateInvoice, EditInvoice, RefundInvoice, Begin, LockCard,
              PayBack, Sell, Redeem, RefundCard, CheckSales, Follow, Rebuild, Rollback, End,
              Reach
<1> QED
  BY <1>1, <1>2, <1>3

LEMMA NextKeepsBooks == BooksInv /\ [Next]_vars => BooksInv'
<1> SUFFICES ASSUME BooksInv, [Next]_vars PROVE \A t \in Till : BooksOK(t)'
  BY NextKeepsIInv DEF BooksInv
<1>1. IInv /\ IInv' /\ \A t \in Till : BooksOK(t)
  BY NextKeepsIInv DEF BooksInv
<1>2. cards' \in [Code -> Card]
  BY <1>1 DEF IInv, TypeOK
<1>3. ASSUME NEW t \in Till, Steady(t) PROVE BooksOK(t)'
  BY <1>1, <1>2, <1>3, OthersKeepBooks
<1>4. CASE UNCHANGED vars
  <2>1. \A t \in Till : Steady(t)
    BY <1>4 DEF vars, Steady, OriginsStay
  <2> QED
    BY <1>3, <2>1
<1>5. CASE CardStep
  BY <1>1, <1>3, <1>5, CardStepIsSteady
<1>6. ASSUME NEW u \in Till, TillStep(u), NEW t \in Till PROVE BooksOK(t)'
  BY <1>1, <1>3, <1>6, OwnBooks, OtherTillIsSteady
<1> QED
  BY <1>4, <1>5, <1>6 DEF Next

LEMMA InitBooks == Init => BooksInv
<1> SUFFICES ASSUME Init PROVE \A t \in Till : BooksOK(t)
  BY InitIInv DEF BooksInv
<1> QED
  BY IdleFields DEF Init, BooksOK

-----------------------------------------------------------------------------
(* The accounts that cards and invoices stand for.                          *)

LEMMA AccountFields ==
    ASSUME IInv
    PROVE  /\ Roots \subseteq Code
           /\ Value \in [Code -> Nat] /\ Spent \in [Code -> [Invoice -> Nat]]
           /\ \A a \in Code : Value[a] = SumOf(Balances, Chain(a))
           /\ \A a \in Code, i \in Invoice :
                 Spent[a][i] = SumOf(Owed(invoices[i]), Chain(a))
           /\ \A c \in Code : Balances[c] \in Nat
           /\ \A i \in Invoice, c \in Code : Owed(invoices[i])[c] \in Nat
<1>1. \A c \in Code : Balances[c] \in Nat
  BY CardFields DEF Balances, IInv, TypeOK
<1>2. ASSUME NEW i \in Invoice, NEW c \in Code PROVE Owed(invoices[i])[c] \in Nat
  <2>1. /\ invoices[i].redeemed[c] \in Nat /\ invoices[i].refunded[c] \in Nat
        /\ invoices[i].refunded[c] <= invoices[i].redeemed[c]
    BY DEF IInv, TypeOK, Row, RefundsAreCovered
  <2> QED
    BY <2>1 DEF Owed
<1>3. \A a \in Code : Value[a] = SumOf(Balances, Chain(a))
  BY OverIs DEF Value
<1>4. \A a \in Code, i \in Invoice : Spent[a][i] = SumOf(Owed(invoices[i]), Chain(a))
  BY OverIs DEF Spent
<1>5. \A a \in Code : Value[a] \in Nat
  <2> SUFFICES ASSUME NEW a \in Code PROVE SumOf(Balances, Chain(a)) \in Nat
    BY <1>3
  <2>1. IsFiniteSet(Chain(a)) /\ \A c \in Chain(a) : Balances[c] \in Nat
    BY <1>1, ChainIsFinite
  <2> QED
    BY <2>1, SumIsNat
<1>6. \A a \in Code, i \in Invoice : Spent[a][i] \in Nat
  <2> SUFFICES ASSUME NEW a \in Code, NEW i \in Invoice
               PROVE  SumOf(Owed(invoices[i]), Chain(a)) \in Nat
    BY <1>4
  <2>1. IsFiniteSet(Chain(a)) /\ \A c \in Chain(a) : Owed(invoices[i])[c] \in Nat
    BY <1>2, ChainIsFinite
  <2> QED
    BY <2>1, SumIsNat
<1>7. Value = [a \in Code |-> Value[a]]
  BY DEF Value
<1>8. Spent = [a \in Code |-> [i \in Invoice |-> Spent[a][i]]]
  BY DEF Spent
<1>9. Value \in [Code -> Nat]
  BY <1>5, <1>7
<1>10. Spent \in [Code -> [Invoice -> Nat]]
  BY <1>6, <1>8
<1> QED
  BY <1>1, <1>2, <1>3, <1>4, <1>9, <1>10 DEF Roots

\* The same after a step that keeps the invariant.
LEMMA AccountFieldsNext ==
    ASSUME IInv'
    PROVE  /\ Roots' \subseteq Code
           /\ Value' \in [Code -> Nat] /\ Spent' \in [Code -> [Invoice -> Nat]]
           /\ \A a \in Code : Value'[a] = SumOf(Balances', Chain(a)')
           /\ \A a \in Code, i \in Invoice :
                 Spent'[a][i] = SumOf(Owed(invoices'[i]), Chain(a)')
           /\ \A c \in Code : Balances'[c] \in Nat
           /\ \A i \in Invoice, c \in Code : Owed(invoices'[i])[c] \in Nat
<1>1. /\ cards' \in [Code -> Card] /\ invoices' \in [Invoice -> Row]
      /\ \A i \in Invoice, c \in Code : invoices'[i].refunded[c] <= invoices'[i].redeemed[c]
  BY DEF IInv, TypeOK, RefundsAreCovered
<1>2. \A c \in Code : Balances'[c] \in Nat
  BY <1>1 DEF Balances, Card
<1>3. ASSUME NEW i \in Invoice, NEW c \in Code PROVE Owed(invoices'[i])[c] \in Nat
  <2>1. /\ invoices'[i].redeemed[c] \in Nat /\ invoices'[i].refunded[c] \in Nat
        /\ invoices'[i].refunded[c] <= invoices'[i].redeemed[c]
    BY <1>1 DEF Row
  <2> QED
    BY <2>1 DEF Owed
<1>4. \A a \in Code : Value'[a] = SumOf(Balances', Chain(a)')
  BY OverIs DEF Value
<1>5. \A a \in Code, i \in Invoice : Spent'[a][i] = SumOf(Owed(invoices'[i]), Chain(a)')
  BY OverIs DEF Spent
<1>6. \A a \in Code : Value'[a] \in Nat
  <2> SUFFICES ASSUME NEW a \in Code PROVE SumOf(Balances', Chain(a)') \in Nat
    BY <1>4
  <2>1. IsFiniteSet(Chain(a)') /\ \A c \in Chain(a)' : Balances'[c] \in Nat
    BY <1>2, ChainIsFinite
  <2> QED
    BY <2>1, SumIsNat
<1>7. \A a \in Code, i \in Invoice : Spent'[a][i] \in Nat
  <2> SUFFICES ASSUME NEW a \in Code, NEW i \in Invoice
               PROVE  SumOf(Owed(invoices'[i]), Chain(a)') \in Nat
    BY <1>5
  <2>1. IsFiniteSet(Chain(a)') /\ \A c \in Chain(a)' : Owed(invoices'[i])[c] \in Nat
    BY <1>3, ChainIsFinite
  <2> QED
    BY <2>1, SumIsNat
<1>8. Value' = [a \in Code |-> Value'[a]]
  BY DEF Value
<1>9. Spent' = [a \in Code |-> [i \in Invoice |-> Spent'[a][i]]]
  BY DEF Spent
<1>10. Value' \in [Code -> Nat]
  BY <1>6, <1>8
<1>11. Spent' \in [Code -> [Invoice -> Nat]]
  BY <1>7, <1>9
<1> QED
  BY <1>2, <1>3, <1>4, <1>5, <1>10, <1>11 DEF Roots

\* Sums over a chain that is empty, or has its first code only.
LEMMA SumOfOne ==
    ASSUME NEW f, NEW a \in Code, f[a] \in Int
    PROVE  SumOf(f, {a}) = f[a]
<1>1. IsFiniteSet({a}) /\ Numbers(f, {a}) /\ {a} \ {a} = {}
  BY FS_Singleton DEF Numbers
<1>2. SumOf(f, {a}) = f[a] + SumOf(f, {a} \ {a})
  BY <1>1, SumTakes
<1> QED
  BY <1>1, <1>2, SumStart

LEMMA SumOfAtMostOne ==
    ASSUME NEW f, NEW a \in Code, NEW S \in SUBSET {a}, f[a] = 0
    PROVE  SumOf(f, S) = 0
<1>1. IsFiniteSet(S)
  BY FS_Singleton, FS_Subset
<1> QED
  BY <1>1, SumOfNothing

\* What no chain has is on no account.
LEMMA NoChain ==
    ASSUME NEW a \in Code
    PROVE  /\ a \notin Roots => Chain(a) = {}
           /\ a \notin Roots' => Chain(a)' = {}
           /\ a \in Roots => a \in Chain(a)
           /\ a \in Roots' => a \in Chain(a)'
<1>1. a \in Ancestors(a) /\ a \in Ancestors(a)'
  BY AboveItself, AncestorsAre
<1> QED
  BY <1>1 DEF Chain, Roots

LEMMA InitAccounts == ASSUME Init PROVE Accounts!Init
<1>1. Roots = {}
  BY DEF Init, Roots, NoCard
<1>2. \A a \in Code : Chain(a) = {}
  BY <1>1, NoChain
<1>3. \A f : Over(f, {}) = 0
  BY OverIs, SumStart
<1>4. Value = [a \in Code |-> 0]
  BY <1>2, <1>3 DEF Value
<1>5. Spent = [a \in Code |-> [i \in Invoice |-> 0]]
  BY <1>2, <1>3 DEF Spent
<1> QED
  BY <1>1, <1>4, <1>5 DEF Accounts!Init

-----------------------------------------------------------------------------
(* Requests that lock one card. *)

\* A chain that gets no new card.
LEMMA ChainStays ==
    ASSUME IInv, OriginsStay, NEW a \in Code, a \in Roots' => a \in Roots,
           a \in Roots => a \in Roots',
           \A c \in Chain(a)' : cards[c].exists
    PROVE  Chain(a)' = Chain(a)
<1>1. CASE a \in Roots'
  BY <1>1, ChainsGrow
<1>2. CASE a \notin Roots'
  BY <1>2, NoChain
<1> QED
  BY <1>1, <1>2

LEMMA OwedByNobody ==
    ASSUME IInv, NEW i \in Invoice, NEW c \in Code, ~cards[c].exists
    PROVE  Owed(invoices[i])[c] = 0
<1>1. /\ invoices[i].redeemed[c] \in Nat /\ invoices[i].refunded[c] \in Nat
      /\ invoices[i].refunded[c] <= invoices[i].redeemed[c]
  BY DEF IInv, TypeOK, Row, RefundsAreCovered
<1>2. ~(invoices[i].redeemed[c] > 0)
  BY DEF IInv, CommittedIsWhole
<1>3. invoices[i].redeemed[c] = 0 /\ invoices[i].refunded[c] = 0
  BY <1>1, <1>2
<1> QED
  BY <1>3 DEF Owed

LEMMA IssueOpens ==
    ASSUME IInv, IInv', NEW c \in Code, NEW amount \in Amount, Issue(c, amount)
    PROVE  Accounts!Open(c)
<1>1. /\ ~cards[c].exists /\ cards' = [cards EXCEPT ![c] = NewCard(amount)]
      /\ cards \in [Code -> Card] /\ UNCHANGED invoices
  BY DEF Issue, Fresh, IInv, TypeOK
<1>2. /\ cards'[c].exists /\ Origin(cards'[c]) = None /\ cards'[c].balance = amount
      /\ \A d \in Code \ {c} : cards'[d] = cards[d]
  <2>1. amount \in Nat
    BY DEF Amount
  <2> QED
    BY <1>1, <2>1, NewCardFields DEF Origin
<1>3. c \notin Roots /\ Roots' = Roots \cup {c}
  <2>1. \A a \in Code : a \in Roots' <=> a \in Roots \/ a = c
    BY <1>1, <1>2, RootsAre
  <2> QED
    BY <1>1, <2>1 DEF Roots
<1>4. OriginsStay
  BY <1>1, <1>2 DEF OriginsStay
<1>5. Chain(c)' = {c}
  <2>1. \A d \in Chain(c)' : ~cards[d].exists /\ d \in Code /\ cards'[d].exists
    BY <1>3, <1>4, ChainsGrow DEF Chain
  <2> QED
    BY <1>2, <1>3, <2>1, NoChain
<1>6. \A b \in Code \ {c} : Chain(b)' = Chain(b)
  <2> SUFFICES ASSUME NEW b \in Code \ {c} PROVE Chain(b)' = Chain(b)
    OBVIOUS
  <2>1. c \notin Chain(b)'
    BY <1>2, AncestorsOf DEF Chain
  <2>2. \A d \in Chain(b)' : cards[d].exists
    BY <1>2, <2>1 DEF Chain
  <2> QED
    BY <1>3, <1>4, <2>2, ChainStays
<1>7. /\ Value' \in [Code -> Nat] /\ Roots \subseteq Code
      /\ Spent \in [Code -> [Invoice -> Nat]] /\ Spent' \in [Code -> [Invoice -> Nat]]
      /\ \A a \in Code : Value[a] = SumOf(Balances, Chain(a))
                         /\ Value'[a] = SumOf(Balances', Chain(a)')
      /\ \A a \in Code, i \in Invoice :
            /\ Spent[a][i] = SumOf(Owed(invoices[i]), Chain(a))
            /\ Spent'[a][i] = SumOf(Owed(invoices[i]), Chain(a)')
      /\ \A d \in Code : Balances'[d] \in Nat /\ Balances[d] \in Nat
  BY <1>1, AccountFields, AccountFieldsNext
<1>8. Value'[c] = amount
  <2>1. Balances'[c] = amount /\ amount \in Int
    BY <1>2 DEF Balances, Amount
  <2>2. SumOf(Balances', {c}) = amount
    BY <2>1, SumOfOne
  <2> QED
    BY <1>5, <1>7, <2>2
<1>9. ASSUME NEW b \in Code \ {c} PROVE Value'[b] = Value[b]
  <2>1. c \notin Chain(b) /\ Chain(b) \subseteq Code
    BY <1>1 DEF Chain
  <2>2. \A d \in Chain(b) : Balances'[d] = Balances[d] /\ Balances'[d] \in Int
    BY <1>2, <1>7, <2>1 DEF Balances
  <2>3. IsFiniteSet(Chain(b)) /\ Numbers(Balances', Chain(b))
    BY <2>2, ChainIsFinite DEF Numbers
  <2>4. SumOf(Balances', Chain(b)) = SumOf(Balances, Chain(b))
    BY <2>2, <2>3, SumSame
  <2> QED
    BY <1>6, <1>7, <2>4
<1>10. Spent' = Spent
  <2>1. ASSUME NEW a \in Code, NEW i \in Invoice PROVE Spent'[a][i] = Spent[a][i]
    <3>1. CASE a = c
      <4>1. Chain(c) = {} /\ Owed(invoices[i])[c] = 0
        BY <1>1, <1>3, NoChain, OwedByNobody
      <4>2. SumOf(Owed(invoices[i]), {c}) = 0 /\ SumOf(Owed(invoices[i]), {}) = 0
        BY <4>1, SumOfOne, SumStart
      <4> QED
        BY <1>5, <1>7, <3>1, <4>1, <4>2
    <3>2. CASE a # c
      BY <1>6, <1>7, <3>2
    <3> QED
      BY <3>1, <3>2
  <2> QED
    BY <1>7, <2>1
<1> QED
  BY <1>3, <1>7, <1>8, <1>9, <1>10 DEF Accounts!Open, Amount

\* What is not stored on an account does not change it.
LEMMA SameAccounts ==
    ASSUME UNCHANGED invoices,
           \A c \in Code : /\ cards'[c].exists = cards[c].exists
                           /\ cards'[c].balance = cards[c].balance
                           /\ cards'[c].replaces = cards[c].replaces
    PROVE  UNCHANGED Accounts!vars
<1>1. Origins(cards') = Origins(cards)
  BY DEF Origins, Origin
<1>2. Roots' = Roots
  BY DEF Roots
<1>3. \A c \in Code : Ancestors(c)' = Ancestors(c)
  BY <1>1, AncestorsAre
<1>4. \A a \in Code : Chain(a)' = Chain(a)
  BY <1>2, <1>3 DEF Chain
<1>5. Balances' = Balances
  BY DEF Balances
<1>6. Value' = Value
  BY <1>4, <1>5 DEF Value
<1>7. Spent' = Spent
  BY <1>4 DEF Spent
<1> QED
  BY <1>2, <1>6, <1>7 DEF Accounts!vars

LEMMA UpdateIsSilent ==
    ASSUME IInv, NEW c \in Code, NEW active \in BOOLEAN, UpdateCard(c, active)
    PROVE  UNCHANGED Accounts!vars
<1>1. cards' = [cards EXCEPT ![c].active = active] /\ UNCHANGED invoices
      /\ cards \in [Code -> Card]
  BY DEF UpdateCard, IInv, TypeOK
<1>2. \A d \in Code : /\ cards'[d].exists = cards[d].exists
                      /\ cards'[d].balance = cards[d].balance
                      /\ cards'[d].replaces = cards[d].replaces
  BY <1>1, CardFields DEF Card
<1> QED
  BY <1>1, <1>2, SameAccounts

\* A replacement joins the chain of the card, and the balance moves to it.
LEMMA ReplaceIsSilent ==
    ASSUME IInv, IInv', NEW c \in Code, NEW n \in Code, Replace(c, n)
    PROVE  UNCHANGED Accounts!vars
<1> DEFINE fresh == [NewCard(cards[c].balance) EXCEPT !.replaces = c]
           spent == [cards[c] EXCEPT !.balance = 0, !.active = FALSE]
<1>1. /\ cards[c].exists /\ n # c /\ ~cards[n].exists
      /\ cards \in [Code -> Card] /\ UNCHANGED invoices
  BY DEF Replace, Fresh, IInv, TypeOK
<1>2. cards' = [cards EXCEPT ![n] = fresh, ![c] = spent]
  BY <1>1 DEF Replace
<1>3. /\ fresh.exists /\ fresh.replaces = c /\ fresh.balance = cards[c].balance
      /\ spent.exists /\ spent.replaces = cards[c].replaces /\ spent.balance = 0
      /\ cards[c].balance \in Nat
  <2>1. cards[c] \in Card /\ cards[c].balance \in Nat
    BY <1>1, CardFields
  <2>2. NewCard(cards[c].balance) \in Card /\ NewCard(cards[c].balance).exists
        /\ NewCard(cards[c].balance).balance = cards[c].balance
    BY <2>1, NewCardFields
  <2> QED
    BY <1>1, <2>1, <2>2 DEF Card
<1> HIDE DEF fresh, spent
<1>4. /\ cards'[n] = fresh /\ cards'[c] = spent
      /\ \A d \in Code \ {c, n} : cards'[d] = cards[d]
  BY <1>1, <1>2
<1>5. OriginsStay
  BY <1>1, <1>3, <1>4 DEF OriginsStay, Origin
<1>6. Roots' = Roots
  <2>1. c # None
    OBVIOUS
  <2>2. \A a \in Code : a \in Roots' <=> a \in Roots
    BY <1>1, <1>3, <1>4, <2>1 DEF Roots
  <2> QED
    BY <2>2 DEF Roots
<1>7. ASSUME NEW a \in Roots
      PROVE  Chain(a)' = IF c \in Chain(a) THEN Chain(a) \cup {n} ELSE Chain(a)
  <2>1. Chain(a) = {d \in Chain(a)' : cards[d].exists}
    BY <1>5, <1>6, <1>7, ChainsGrow
  <2>2. \A d \in Chain(a)' : d \in Chain(a) \/ d = n
    <3>1. \A d \in Chain(a)' : d \in Code /\ cards'[d].exists
      BY DEF Chain
    <3> QED
      BY <1>1, <1>4, <2>1, <3>1
  <2>3. n \in Chain(a)' <=> c \in Chain(a)
    <3>0. a \in Code /\ Origin(cards[a]) = None
      BY <1>7 DEF Roots, Origin
    <3>1. Origins(cards')[n] = c
      BY <1>3, <1>4 DEF Origins, Origin
    <3>2. Origins(cards') \in [Code -> Code \cup {None}]
      <4>1. \A d \in Code : Origin(cards'[d]) \in Code \cup {None}
        BY <1>1, <1>3, <1>4, CardFields DEF Origin
      <4> QED
        BY <4>1 DEF Origins
    <3>3. c \in Above(Origins(cards'), n)
      BY <3>1, OriginIsAbove
    <3>4. ASSUME a \in Above(Origins(cards'), c) PROVE a \in Above(Origins(cards'), n)
      BY <3>3, <3>4, AboveAbove
    <3>5. ASSUME a \in Above(Origins(cards'), n) PROVE a \in Above(Origins(cards'), c)
      <4>1. a # n
        BY <1>1, <1>7 DEF Roots
      <4> QED
        BY <3>1, <3>2, <3>5, <4>1, AboveSteps
    <3>6. Ancestors(c)' = Ancestors(c)
      BY <1>1, <1>5, AncestorsStay
    <3>7. a \in Ancestors(n)' <=> a \in Ancestors(c)
      BY <3>4, <3>5, <3>6, AncestorsAre
    <3> QED
      BY <1>1, <1>3, <1>4, <1>6, <1>7, <3>7 DEF Chain
  <2>4. \A d \in Chain(a) : d \in Chain(a)' /\ d # n
    BY <1>1, <2>1
  <2> QED
    BY <2>2, <2>3, <2>4
<1>8. \A a \in Roots : Chain(a) \subseteq Code /\ IsFiniteSet(Chain(a)) /\ n \notin Chain(a)
  <2>1. \A a \in Roots : n \notin Chain(a)
    BY <1>1 DEF Chain
  <2> QED
    BY <2>1, ChainIsFinite
<1>9. /\ Value \in [Code -> Nat] /\ Value' \in [Code -> Nat] /\ Roots \subseteq Code
      /\ Spent \in [Code -> [Invoice -> Nat]] /\ Spent' \in [Code -> [Invoice -> Nat]]
      /\ \A a \in Code : Value[a] = SumOf(Balances, Chain(a))
                         /\ Value'[a] = SumOf(Balances', Chain(a)')
      /\ \A a \in Code, i \in Invoice :
            /\ Spent[a][i] = SumOf(Owed(invoices[i]), Chain(a))
            /\ Spent'[a][i] = SumOf(Owed(invoices[i]), Chain(a)')
      /\ \A d \in Code : Balances'[d] \in Nat /\ Balances[d] \in Nat
      /\ \A i \in Invoice, d \in Code : Owed(invoices[i])[d] \in Nat
  BY <1>1, AccountFields, AccountFieldsNext
<1>10. /\ Balances'[n] = Balances[c] /\ Balances'[c] = 0
       /\ \A d \in Code \ {c, n} : Balances'[d] = Balances[d]
  BY <1>3, <1>4 DEF Balances
<1>11. ASSUME NEW a \in Code \ Roots PROVE Chain(a)' = {} /\ Chain(a) = {}
  BY <1>6, NoChain
<1>12. ASSUME NEW a \in Roots, c \notin Chain(a)
       PROVE  /\ SumOf(Balances', Chain(a)') = SumOf(Balances, Chain(a))
              /\ \A i \in Invoice :
                   SumOf(Owed(invoices[i]), Chain(a)') = SumOf(Owed(invoices[i]), Chain(a))
  <2>1. Chain(a)' = Chain(a)
    BY <1>7, <1>12
  <2>2. \A d \in Chain(a) : Balances'[d] = Balances[d] /\ Balances'[d] \in Int
    BY <1>8, <1>9, <1>10, <1>12
  <2>3. IsFiniteSet(Chain(a)) /\ Numbers(Balances', Chain(a))
    BY <1>8, <2>2 DEF Numbers
  <2>4. SumOf(Balances', Chain(a)) = SumOf(Balances, Chain(a))
    BY <2>2, <2>3, SumSame
  <2> QED
    BY <2>1, <2>4
<1>13. ASSUME NEW a \in Roots, c \in Chain(a)
       PROVE  /\ SumOf(Balances', Chain(a)') = SumOf(Balances, Chain(a))
              /\ \A i \in Invoice :
                   SumOf(Owed(invoices[i]), Chain(a)') = SumOf(Owed(invoices[i]), Chain(a))
  <2> DEFINE S == Chain(a)
             T == Chain(a) \ {c}
             R == Chain(a) \cup {n}
  <2>1. Chain(a)' = R /\ R \ {n} = S
    BY <1>7, <1>8, <1>13
  <2>2. IsFiniteSet(S) /\ IsFiniteSet(T) /\ IsFiniteSet(R) /\ R \subseteq Code
    BY <1>8, FS_Subset, FS_AddElement
  <2>3. /\ Numbers(Balances, S) /\ Numbers(Balances', S) /\ Numbers(Balances', R)
        /\ Numbers(Balances, T) /\ \A d \in T : Balances[d] = Balances'[d]
        /\ Balances[c] \in Int
    <3>1. \A d \in Code : Balances[d] \in Int /\ Balances'[d] \in Int
      BY <1>9
    <3> QED
      BY <1>8, <1>10, <2>2, <3>1 DEF Numbers
  <2>4. S \ {c} = T /\ c \in S /\ n \in R
    BY <1>13
  <2> HIDE DEF S, T, R
  <2>5. SumOf(Balances', R) = Balances'[n] + SumOf(Balances', R \ {n})
    BY <2>2, <2>3, <2>4, SumTakes
  <2>6. SumOf(Balances', S) = Balances'[c] + SumOf(Balances', S \ {c})
    BY <2>2, <2>3, <2>4, SumTakes
  <2>7. SumOf(Balances, S) = Balances[c] + SumOf(Balances, S \ {c})
    BY <2>2, <2>3, <2>4, SumTakes
  <2>8. SumOf(Balances, T) = SumOf(Balances', T) /\ SumOf(Balances, T) \in Int
    BY <2>2, <2>3, SumSame, SumIsInt
  <2>9. SumOf(Balances', R) = SumOf(Balances, S)
    <3>1. SumOf(Balances', S) = SumOf(Balances, T)
      <4>1. SumOf(Balances', S \ {c}) = SumOf(Balances, T)
        BY <2>4, <2>8
      <4>2. Balances'[c] = 0
        BY <1>10
      <4>3. \A m \in Int : 0 + m = m
        OBVIOUS
      <4> QED
        BY <2>6, <2>8, <4>1, <4>2, <4>3
    <3>2. SumOf(Balances, S) = Balances[c] + SumOf(Balances, T)
      BY <2>4, <2>7
    <3>3. SumOf(Balances', R) = Balances[c] + SumOf(Balances', S)
      BY <1>10, <2>1, <2>5
    <3> QED
      BY <3>1, <3>2, <3>3
  <2>10. ASSUME NEW i \in Invoice
         PROVE  SumOf(Owed(invoices[i]), R) = SumOf(Owed(invoices[i]), S)
    <3>1. Numbers(Owed(invoices[i]), R) /\ Owed(invoices[i])[n] = 0
      BY <1>1, <1>9, <2>2, OwedByNobody DEF Numbers
    <3>2. S \in SUBSET R /\ \A d \in R \ S : d = n
      BY DEF R, S
    <3> QED
      BY <2>2, <3>1, <3>2, SumSkips
  <2> QED
    BY <2>1, <2>9, <2>10 DEF S
<1>14. ASSUME NEW a \in Code
       PROVE  /\ SumOf(Balances', Chain(a)') = SumOf(Balances, Chain(a))
              /\ \A i \in Invoice :
                   SumOf(Owed(invoices[i]), Chain(a)') = SumOf(Owed(invoices[i]), Chain(a))
  <2>1. CASE a \in Roots
    BY <1>12, <1>13, <2>1
  <2>2. CASE a \notin Roots
    <3>1. \A f : SumOf(f, {}) = 0
      BY SumStart
    <3> QED
      BY <1>11, <2>2, <3>1
  <2> QED
    BY <2>1, <2>2
<1>15. /\ \A a \in Code : Value'[a] = Value[a]
       /\ \A a \in Code, i \in Invoice : Spent'[a][i] = Spent[a][i]
  BY <1>9, <1>14
<1>16. Value' = Value /\ Spent' = Spent
  BY <1>9, <1>15
<1> QED
  BY <1>6, <1>16 DEF Accounts!vars

LEMMA CommitSettles ==
    ASSUME IInv, IInv', NEW t \in Till, BooksOK(t), Commit(t)
    PROVE  Accounts!Settle(tx[t].invoice)
<1> DEFINE x == tx[t]
           i == tx[t].invoice
           W == DOMAIN tx[t].draft
           A == Anew(t)
<1>1. /\ x.pc # "idle" /\ i \in Invoice /\ x.row \in Row
      /\ invoices'[i] = x.row /\ \A j \in Invoice \ {i} : invoices'[j] = invoices[j]
      /\ \A c \in Code : Origin(cards'[c]) = Origin(cards[c])
      /\ \A c \in Code : Replaced(c)' <=> Replaced(c)
      /\ \A c \in Code \ W : cards'[c] = cards[c]
      /\ \A c \in W : cards'[c] = x.draft[c]
      /\ \A c \in Code : cards'[c] = View(t)[c]
      /\ x.pc \in {"sell", "redeem", "tender"}
  BY CommitKeeps DEF Commit
<1>2. /\ W \subseteq Code /\ RowIsSound(t) /\ SalesAreHeld(t) /\ DraftsAreHeld(t)
      /\ ChainsBalance(t) /\ WalkBalances(t)
  BY <1>1, TillFacts DEF BooksOK
<1>3. A \subseteq Code /\ \A a \in A : a \in OldSales(x) /\ Selling(t)
  <2>1. OldSales(x) \subseteq Code
    BY <1>1, RowFields DEF OldSales, IInv
  <2> QED
    BY <2>1 DEF Anew
<1>4. /\ Roots \subseteq Code /\ Roots' \subseteq Code
      /\ Value' \in [Code -> Nat] /\ Spent' \in [Code -> [Invoice -> Nat]]
      /\ \A a \in Code : Value[a] = SumOf(Balances, Chain(a))
                         /\ Value'[a] = SumOf(Balances', Chain(a)')
      /\ \A a \in Code, j \in Invoice :
            /\ Spent[a][j] = SumOf(Owed(invoices[j]), Chain(a))
            /\ Spent'[a][j] = SumOf(Owed(invoices'[j]), Chain(a)')
      /\ \A d \in Code : Balances'[d] \in Nat /\ Balances[d] \in Nat
      /\ \A j \in Invoice, d \in Code :
            Owed(invoices[j])[d] \in Nat /\ Owed(invoices'[j])[d] \in Nat
  BY AccountFields, AccountFieldsNext
\* A card that exists goes on existing, unless it is made anew.
<1>5. \A c \in Code \ A : cards[c].exists => cards'[c].exists
  BY <1>1, <1>2 DEF DraftsAreHeld, Anew
<1>6. A \subseteq Roots /\ \A c \in A : ~Replaced(c)
  <2>1. \A c \in A : cards[c].exists /\ cards[c].replaces = None /\ ~Replaced(c)
    BY <1>1, <1>2, <1>3 DEF IInv, CommittedIsWhole, OldSales, SalesAreHeld
  <2> QED
    BY <1>3, <2>1 DEF Roots
<1>7. Roots \ A \subseteq Roots'
  BY <1>1, <1>4, <1>5, RootsAre
<1>8. \A c \in Code : Ancestors(c)' = Ancestors(c)
  <2>1. Origins(cards') = Origins(cards)
    BY <1>1 DEF Origins
  <2> QED
    BY <2>1, AncestorsAre
\* A code that was not replaced is alone on its chain.
<1>9. ASSUME NEW a \in Code, ~Replaced(a)
      PROVE  Chain(a) \in SUBSET {a} /\ Chain(a)' \in SUBSET {a}
  <2>1. \A c \in Code : a \in Ancestors(c) => c = a
    <3> SUFFICES ASSUME NEW c \in Code, a \in Ancestors(c), a # c PROVE FALSE
      OBVIOUS
    <3>1. \E d \in Code : Origins(cards)[d] = a
      BY AboveIsReplaced, AncestorsAre, OriginsAre
    <3>2. a # None
      OBVIOUS
    <3> QED
      BY <1>9, <3>1, <3>2, OriginsAre
  <2> QED
    BY <1>8, <2>1 DEF Chain
<1>10. \A a \in Code : a \notin Roots => ~Replaced(a) \/ Origin(cards[a]) # None
  BY RootsAre DEF IInv, CommittedIsWhole
<1>11. ASSUME NEW a \in Roots \ A PROVE Chain(a)' = Chain(a)
  <2>1. a \in Roots' /\ a \in Code
    BY <1>4, <1>7
  <2>2. \A c \in Chain(a) : c \in Chain(a)'
    <3>1. \A c \in Chain(a) : c \in Code \ A /\ cards[c].exists
      BY ChainMembers
    <3> QED
      BY <1>5, <1>8, <2>1, <3>1 DEF Chain
  <2>3. \A c \in Chain(a)' : c \in Chain(a)
    <3> SUFFICES ASSUME NEW c \in Chain(a)' PROVE c \in Chain(a)
      OBVIOUS
    <3>1. c \in Code /\ cards'[c].exists /\ a \in Ancestors(c)
      BY <1>8 DEF Chain
    <3>2. CASE c = a
      BY <2>1, <3>2, NoChain
    <3>3. CASE c # a
      <4>1. Origin(cards[c]) # None
        BY <3>1, <3>3, AncestorsOf
      <4>2. cards[c].exists
        BY <4>1 DEF Origin
      <4> QED
        BY <3>1, <4>2 DEF Chain
    <3> QED
      BY <3>2, <3>3
  <2> QED
    BY <2>2, <2>3
\* An account that is opened, closed or opened anew has one card at most.
<1>12. ASSUME NEW a \in Code, a \notin Roots \ A
       PROVE  /\ a \in Roots \/ a \in Roots' =>
                   /\ Chain(a) \in SUBSET {a} /\ Chain(a)' \in SUBSET {a}
                   /\ \A j \in Invoice : Owed(invoices[j])[a] = 0
              /\ ~(a \in Roots \/ a \in Roots') => Chain(a) = {} /\ Chain(a)' = {}
  <2>1. CASE a \in A
    <3>1. \A j \in Invoice : invoices[j].redeemed[a] = 0
      BY <1>2, <1>3, <2>1 DEF SalesAreHeld
    <3>2. ASSUME NEW j \in Invoice PROVE Owed(invoices[j])[a] = 0
      <4>1. invoices[j].refunded[a] \in Nat /\ invoices[j].refunded[a] <= invoices[j].redeemed[a]
        BY DEF IInv, TypeOK, Row, RefundsAreCovered
      <4>2. invoices[j].redeemed[a] = 0 /\ invoices[j].refunded[a] = 0
        BY <3>1, <4>1
      <4> QED
        BY <4>2 DEF Owed
    <3> QED
      BY <1>6, <1>9, <2>1, <3>2
  <2>2. CASE a \notin Roots /\ a \in Roots'
    <3>1. Origin(cards[a]) = None /\ ~cards[a].exists
      BY <1>1, <2>2, RootsAre
    <3>2. ~Replaced(a)
      BY <3>1 DEF IInv, CommittedIsWhole
    <3> QED
      BY <1>9, <2>2, <3>1, <3>2, OwedByNobody
  <2>3. CASE a \notin Roots /\ a \notin Roots'
    BY <2>3, NoChain
  <2> QED
    BY <1>12, <2>1, <2>2, <2>3
\* The other invoices keep what they have taken.
<1>13. ASSUME NEW a \in Code, NEW j \in Invoice \ {i} PROVE Spent'[a][j] = Spent[a][j]
  <2>1. invoices'[j] = invoices[j]
    BY <1>1
  <2>2. CASE a \in Roots \ A
    BY <1>4, <1>11, <2>1, <2>2
  <2>3. CASE a \notin Roots \ A
    <3> DEFINE f == Owed(invoices[j])
    <3>1. \/ Chain(a) = {} /\ Chain(a)' = {}
          \/ Chain(a) \in SUBSET {a} /\ Chain(a)' \in SUBSET {a} /\ f[a] = 0
      BY <1>12, <2>3
    <3>2. SumOf(f, {}) = 0
      BY SumStart
    <3> HIDE DEF f
    <3>3. SumOf(f, Chain(a)) = 0 /\ SumOf(f, Chain(a)') = 0
      BY <3>1, <3>2, SumOfAtMostOne
    <3> QED
      BY <1>4, <2>1, <3>3 DEF f
  <2> QED
    BY <2>2, <2>3
<1>14. \A a \in Code \ Roots' : Value'[a] = 0 /\ Spent'[a][i] = 0
  <2> SUFFICES ASSUME NEW a \in Code \ Roots' PROVE Value'[a] = 0 /\ Spent'[a][i] = 0
    OBVIOUS
  <2>1. Chain(a)' = {}
    BY NoChain
  <2>2. SumOf(Balances', {}) = 0 /\ SumOf(Owed(invoices'[i]), {}) = 0
    BY SumStart
  <2>3. Value'[a] = SumOf(Balances', Chain(a)')
    BY <1>4
  <2>4. Spent'[a][i] = SumOf(Owed(invoices'[i]), Chain(a)')
    BY <1>1, <1>4
  <2> QED
    BY <2>1, <2>2, <2>3, <2>4
<1>15. \A a \in A, j \in Invoice : Spent[a][j] = 0
  <2> SUFFICES ASSUME NEW a \in A, NEW j \in Invoice PROVE Spent[a][j] = 0
    OBVIOUS
  <2> DEFINE f == Owed(invoices[j])
  <2>1. a \in Code /\ Chain(a) \in SUBSET {a} /\ f[a] = 0
    BY <1>3, <1>6, <1>12
  <2> HIDE DEF f
  <2>2. SumOf(f, Chain(a)) = 0
    BY <2>1, SumOfAtMostOne
  <2> QED
    BY <1>4, <2>1, <2>2 DEF f
\* On an account that stays, nothing is made or lost.
<1>16. ASSUME NEW a \in Roots \ A
       PROVE  Value'[a] + Spent'[a][i] = Value[a] + Spent[a][i]
  <2> DEFINE S == Chain(a)
             old == Owed(invoices[i])
             new == Owed(invoices'[i])
             before == [c \in Code |-> Balances[c] + old[c]]
             after == [c \in Code |-> Balances'[c] + new[c]]
  <2>1. S \subseteq Code /\ IsFiniteSet(S) /\ a \in Code /\ Chain(a)' = S
    BY <1>4, <1>11, ChainIsFinite
  <2>2. SumOf(Moved(t), S) = 0
    BY <1>2, OverIs DEF ChainsBalance
  <2>3. Numbers(Moved(t), S)
    BY <1>1, <2>1, MovedIsInt DEF IInv
  <2>4. /\ Numbers(Balances, S) /\ Numbers(Balances', S) /\ Numbers(old, S) /\ Numbers(new, S)
        /\ \A c \in S : /\ Balances[c] \in Nat /\ Balances'[c] \in Nat
                        /\ old[c] \in Nat /\ new[c] \in Nat
    BY <1>1, <1>4, <2>1 DEF Numbers
  <2>5. \A c \in S : Moved(t)[c] = (Balances'[c] - Balances[c]) + (new[c] - old[c])
    <3>1. \A c \in Code : Debt(x)[c] = new[c]
      BY <1>1 DEF Debt
    <3>2. \A c \in Code : View(t)[c].balance = Balances'[c] /\ cards[c].balance = Balances[c]
      BY <1>1 DEF Balances
    <3> QED
      BY <2>1, <3>1, <3>2 DEF Moved
  <2> HIDE DEF S, old, new
  <2>6. /\ \A c \in S : before[c] = Balances[c] + old[c]
        /\ \A c \in S : after[c] = Balances'[c] + new[c]
    BY <2>1
  <2> HIDE DEF before, after
  <2>7. /\ \A c \in S : before[c] \in Int /\ after[c] \in Int
        /\ \A c \in S : after[c] = before[c] + Moved(t)[c]
    BY <2>4, <2>5, <2>6
  <2>8. Numbers(before, S)
    BY <2>7 DEF Numbers
  <2>9. SumOf(before, S) = SumOf(Balances, S) + SumOf(old, S)
    BY <2>1, <2>4, <2>6, SumAdds
  <2>10. SumOf(after, S) = SumOf(Balances', S) + SumOf(new, S)
    BY <2>1, <2>4, <2>6, SumAdds
  <2>11. SumOf(after, S) = SumOf(before, S) + SumOf(Moved(t), S)
    BY <2>1, <2>3, <2>7, <2>8, SumAdds
  <2>12. SumOf(before, S) \in Int
    BY <2>1, <2>8, SumIsInt
  <2>13. SumOf(after, S) = SumOf(before, S)
    BY <2>2, <2>11, <2>12
  <2>14. /\ Value[a] = SumOf(Balances, S) /\ Value'[a] = SumOf(Balances', S)
         /\ Spent[a][i] = SumOf(old, S) /\ Spent'[a][i] = SumOf(new, S)
    BY <1>1, <1>4, <2>1 DEF S, old, new
  <2> QED
    BY <2>9, <2>10, <2>13, <2>14
\* What is opened has its face between the card and the invoice.
<1>17. ASSUME NEW a \in Roots' \ (Roots \ A) PROVE Value'[a] + Spent'[a][i] \in Amount
  <2>1. a \in Code /\ cards'[a].exists /\ Origin(cards'[a]) = None
    BY <1>4, RootsAre
  <2>2. Chain(a)' = {a}
    BY <1>12, <2>1, NoChain
  <2>3. a \in A \/ ~cards[a].exists
    BY <1>1, <1>17, <2>1, RootsAre
  <2>4. a \in W /\ cards'[a] = x.draft[a]
    <3>1. a \in W
      BY <1>1, <1>2, <2>1, <2>3 DEF ChainsBalance
    <3> QED
      BY <1>1, <3>1
  <2>5. a \in x.row.sold
    BY <1>2, <2>1, <2>3, <2>4 DEF ChainsBalance
  <2>6. Selling(t)
    <3> SUFFICES ASSUME ~Selling(t) PROVE FALSE
      OBVIOUS
    <3>1. a \in OldSales(x) /\ ~cards[a].exists
      BY <1>2, <1>3, <2>3, <2>5 DEF WalkBalances
    <3> QED
      BY <1>1, <3>1 DEF OldSales, IInv, CommittedIsWhole
  <2>7. x.draft[a].balance + x.row.redeemed[a] \in Amount
    BY <1>2, <2>4, <2>5, <2>6 DEF ChainsBalance
  <2>8. x.row.refunded[a] = 0 /\ x.row.redeemed[a] \in Nat
    BY <1>1, <1>2, <2>1, <2>6 DEF RowIsSound, Selling, Row
  <2>9. Balances'[a] = x.draft[a].balance /\ Owed(invoices'[i])[a] = x.row.redeemed[a]
    BY <1>1, <2>1, <2>4, <2>8 DEF Balances, Owed
  <2>10. /\ SumOf(Balances', {a}) = Balances'[a]
         /\ SumOf(Owed(invoices'[i]), {a}) = Owed(invoices'[i])[a]
    <3>1. Balances'[a] \in Int /\ Owed(invoices'[i])[a] \in Int
      BY <1>1, <1>4, <2>1
    <3> QED
      BY <2>1, <3>1, SumOfOne
  <2>11. Value'[a] = x.draft[a].balance
    BY <1>4, <2>1, <2>2, <2>9, <2>10
  <2>12. Spent'[a][i] = x.row.redeemed[a]
    <3>1. Spent'[a][i] = SumOf(Owed(invoices'[i]), Chain(a)')
      BY <1>1, <1>4, <2>1
    <3> QED
      BY <2>2, <2>9, <2>10, <3>1
  <2> QED
    BY <2>7, <2>11, <2>12
<1>18. /\ \A a \in Code, j \in Invoice \ {i} : Spent'[a][j] = Spent[a][j]
       /\ A \in SUBSET Roots /\ Roots \ A \subseteq Roots' /\ Roots' \subseteq Code
       /\ \A a \in A, j \in Invoice : Spent[a][j] = 0
       /\ \A a \in Roots \ A : Value'[a] + Spent'[a][i] = Value[a] + Spent[a][i]
       /\ \A a \in Roots' \ (Roots \ A) : Value'[a] + Spent'[a][i] \in 1..MaxFace
  BY <1>4, <1>6, <1>7, <1>13, <1>15, <1>16, <1>17 DEF Amount
<1> HIDE DEF A, i
<1> QED
  BY <1>4, <1>14, <1>18 DEF Accounts!Settle, i

LEMMA NextKeepsAccounts ==
    ASSUME BooksInv, [Next]_vars
    PROVE  Accounts!Next \/ UNCHANGED Accounts!vars
<1>1. IInv /\ IInv' /\ \A t \in Till : BooksOK(t)
  BY NextKeepsIInv DEF BooksInv
<1>2. CASE UNCHANGED <<cards, invoices>>
  BY <1>2, SameAccounts
<1>3. CASE CardStep
  <2>1. ASSUME NEW c \in Code, NEW amount \in Amount, Issue(c, amount) PROVE Accounts!Next
    BY <1>1, <2>1, IssueOpens DEF Accounts!Next
  <2>2. ASSUME NEW c \in Code, ApproveDelivery(c) PROVE UNCHANGED Accounts!vars
    BY <2>2, SameAccounts DEF ApproveDelivery
  <2> QED
    BY <1>1, <1>3, <2>1, <2>2, UpdateIsSilent, ReplaceIsSilent DEF CardStep
<1>4. ASSUME NEW t \in Till, Commit(t) PROVE Accounts!Next
  <2>1. tx[t].invoice \in Invoice
    BY <1>1, <1>4, CommitKeeps
  <2> QED
    BY <1>1, <1>4, <2>1, CommitSettles DEF Accounts!Next
<1> QED
  BY <1>2, <1>3, <1>4, OnlyCommits

-----------------------------------------------------------------------------
(* What holds for every number of codes, invoices and tills and every face. *)

\* However many sales, edits, redemptions and refunds run at once, what each has
\* written is in its hands until it commits (gift_cards/repository.rs,
\* invoices/service.rs update_invoice, returns/service.rs create_refund).
THEOREM Invariant == Spec => []IInv
<1>1. Init => IInv
  BY InitIInv
<1>2. IInv /\ [Next]_vars => IInv'
  BY NextKeepsIInv
<1> QED
  BY <1>1, <1>2, PTL DEF Spec

\* No balance becomes negative, and no amount but those of the types is stored:
\* the gift_cards table has no CHECK that would refuse it.
THEOREM TypeCorrect == Spec => []TypeOK
<1>1. IInv => TypeOK
  BY DEF IInv
<1> QED
  BY <1>1, Invariant, PTL

\* No card gets more back from an invoice than it paid there
\* (returns/service.rs create_refund).
THEOREM Covered == Spec => []RefundsAreCovered
<1>1. IInv => RefundsAreCovered
  BY DEF IInv
<1> QED
  BY <1>1, Invariant, PTL

\* A code that was replaced stays worthless and pays on no further invoice
\* (repository.rs transfer_replacement, lock_current_card).
THEOREM Retired == Spec => RetiredCodesStayRetired
<1> DEFINE Worthless == \A c \in Code : Replaced(c) => cards[c].balance = 0 /\ ~cards[c].active
           NoTender == \A i \in Invoice, c \in Code :
              Replaced(c) /\ invoices'[i].redeemed[c] > 0 => invoices[i].redeemed[c] > 0
<1>1. IInv => Worthless
  BY DEF IInv, CommittedIsWhole
<1>2. IInv /\ [Next]_vars => [NoTender]_vars
  BY NoNewTender
<1> HIDE DEF Worthless, NoTender
<1>3. Spec => []Worthless /\ [][NoTender]_vars
  BY <1>1, <1>2, Invariant, PTL DEF Spec
<1> QED
  BY <1>3 DEF RetiredCodesStayRetired, Worthless, NoTender

\* A code that was sent keeps existing with the face value that was sent
\* (invoices/service.rs update_invoice).
THEOREM SentKept == Spec => SentCodesAreKept
<1> DEFINE SentStays == \A c \in delivered : cards'[c].exists /\ cards'[c].face = cards[c].face
<1>1. IInv /\ [Next]_vars => [SentStays]_vars
  BY SentIsKept
<1> HIDE DEF SentStays
<1>2. Spec => [][SentStays]_vars
  BY <1>1, Invariant, PTL DEF Spec
<1> QED
  BY <1>2 DEF SentCodesAreKept, SentStays

\* Nothing is made or lost along a chain of replacements, however far a sale, an
\* edit, a payment or a refund has come: what it took from a card's holder is
\* what its invoice now shows (gift_cards/repository.rs redeem_line and refund_line,
\* invoices/service.rs update_invoice, returns/service.rs create_refund).
THEOREM BooksBalance == Spec => []BooksInv
BY InitBooks, NextKeepsBooks, PTL DEF Spec

\* Cards and invoices implement the accounts: every step of the code opens an
\* account, settles one invoice or changes nothing that an account shows, through
\* any chain of replacement codes.
THEOREM ImplementsAccounts == Spec => Accounts!Spec
<1>1. Init => Accounts!Init
  BY InitAccounts
<1>2. BooksInv /\ [Next]_vars => [Accounts!Next]_(Accounts!vars)
  BY NextKeepsAccounts
<1> QED
  BY <1>1, <1>2, BooksBalance, PTL DEF Spec, Accounts!Spec

\* The same, as TLC checks it: every commit is one step of the accounts.
THEOREM KeepsAccounts == Spec => AccountsKept
<1> DEFINE OneStep == UNCHANGED <<cards, invoices>> \/ UNCHANGED Accounts!vars \/ Accounts!Next
<1>1. Init => Accounts!Init
  BY InitAccounts
<1>2. BooksInv /\ [Next]_vars => [OneStep]_vars
  BY NextKeepsAccounts
<1> HIDE DEF OneStep
<1>3. Spec => Accounts!Init /\ [][OneStep]_vars
  BY <1>1, <1>2, BooksBalance, PTL DEF Spec
<1> QED
  BY <1>3 DEF AccountsKept, OneStep

=============================================================================
