SPECIFICATION Spec
CONSTANTS
    Order = {o1, o2}
    b1 = b1
    b2 = b2
    Branch = {b1, b2}
    Repair = {p1}
    Staff = {u1}
    Situations <- SituationsDef
    Unchosen = Unchosen
    None = None
SYMMETRY Symmetry
INVARIANTS
    IInv
    ChecklistHasNoGap
PROPERTIES
    ReadyRestsOnWhatWasConfirmed
    GenerationNamesReadiness
