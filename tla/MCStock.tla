------------------------------- MODULE MCStock -------------------------------
(***************************************************************************)
(* Instances of Stock for TLC.                                             *)
(***************************************************************************)
EXTENDS Stock, TLC

\* No fabric, one line, or a garment and a retail line that share what is left.
ChosenContents ==
    Upto(1, NewLine)
      \cup {c \in Upto(2, NewLine) :
              Len(c) = 2 /\ c[1].garment /\ ~c[2].garment /\ c[1].quantity + c[2].quantity = 2}

Symmetry == Permutations(Location) \cup Permutations(Desk) \cup Permutations(Invoice)

=============================================================================
