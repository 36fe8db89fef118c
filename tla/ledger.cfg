SPECIFICATION Spec
CONSTANTS
    Lines = 2
    Garment = {1}
    Card = {k1}
    Client = {d1}
    Request = {r1, r2}
    Content = {x1, x2}
    Sales <- ChosenSales
    MaxQty = 3
    MaxAdvances = 2
    None = None
SYMMETRY Symmetry
INVARIANTS IInv RefundsAreCovered CreditsAreExact
PROPERTIES MoneyMovesToBalance ClosedGarmentsStayClosed AnswersAreTrue
CHECK_DEADLOCK FALSE
