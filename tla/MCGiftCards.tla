---------------------------- MODULE MCGiftCards ----------------------------
(***************************************************************************)
(* Instances of GiftCards for TLC.                                         *)
(***************************************************************************)
EXTENDS GiftCardsPromise, TLC

Symmetry == Permutations(Code) \cup Permutations(Invoice) \cup Permutations(Till)

=============================================================================
