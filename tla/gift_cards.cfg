SPECIFICATION Spec
CONSTANTS
    Code = {c1, c2}
    Invoice = {i1, i2}
    Till = {t1, t2}
    MaxFace = 2
    None = None
SYMMETRY Symmetry
INVARIANTS
    BooksInv
    RefundsAreCovered
PROPERTIES
    RetiredCodesStayRetired
    SentCodesAreKept AccountsKept
CHECK_DEADLOCK FALSE
