SPECIFICATION Spec
CONSTANTS
    Code = {c1}
    Invoice = {i1}
    Till = {t1}
    MaxFace = 1
    None = None
PROPERTIES
    VoidCodesStayVoid
CHECK_DEADLOCK FALSE
