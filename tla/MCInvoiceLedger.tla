-------------------------- MODULE MCInvoiceLedger --------------------------
(***************************************************************************)
(* Instances of InvoiceLedger for TLC.                                     *)
(***************************************************************************)
EXTENDS InvoiceLedger, TLC

\* Discounts that cannot be shared evenly, a retail line of three pieces, an
\* urgency fee, a gift card sold and one redeemed, whose redemption is stored a
\* cent higher than it was counted; the last sale is cheaper than what may have been
\* paid on the others.
ChosenSales == {
    [price |-> <<1, 2>>, urgent |-> <<1, 0>>, sold |-> <<1, 3>>, gross |-> 2,
     vouchers |-> 0, tender |-> 1, redeemed |-> [c \in Card |-> 1]],
    [price |-> <<1, 1>>, urgent |-> <<0, 0>>, sold |-> <<1, 1>>, gross |-> 1,
     vouchers |-> 1, tender |-> 0, redeemed |-> [c \in Card |-> 0]],
    [price |-> <<0, 1>>, urgent |-> <<0, 0>>, sold |-> <<1, 1>>, gross |-> 1,
     vouchers |-> 0, tender |-> 1, redeemed |-> [c \in Card |-> 2]]}

Symmetry == Permutations(Card) \cup Permutations(Client) \cup Permutations(Request)
              \cup Permutations(Content)

=============================================================================
