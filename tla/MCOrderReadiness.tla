-------------------------- MODULE MCOrderReadiness --------------------------
(***************************************************************************)
(* Instances of OrderReadiness for TLC.                                    *)
(***************************************************************************)
EXTENDS OrderReadiness, TLC

CONSTANTS b1, b2

Work == [active |-> TRUE, transfer |-> FALSE]
Delivery == [active |-> TRUE, transfer |-> TRUE]

\* Two garments while a stage is being edited; and one garment that needs
\* work, a delivery and more work, at two branches.
SituationsDef ==
    {[catalogs |-> {<<Work>>, <<Delivery>>}, branches |-> {b1},
      targets |-> {b1, None, Unchosen}, open |-> 2, generations |-> 2],
     [catalogs |-> {<<Work, Delivery, Work>>}, branches |-> {b1, b2},
      targets |-> {b1, None}, open |-> 1, generations |-> 1]}

Symmetry == Permutations(Order) \cup Permutations(Repair) \cup Permutations(Staff)

=============================================================================
