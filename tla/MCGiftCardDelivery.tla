------------------------- MODULE MCGiftCardDelivery -------------------------
(***************************************************************************)
(* Instances of GiftCardDelivery for TLC.                                  *)
(***************************************************************************)
EXTENDS GiftCardDelivery, TLC

Symmetry == Permutations(Delivery) \cup Permutations(Card) \cup Permutations(Worker)

=============================================================================
