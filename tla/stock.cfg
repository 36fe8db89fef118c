SPECIFICATION Spec
CONSTANTS
    Material = {m1}
    Location = {a, b}
    Invoice = {i1}
    Desk = {d1, d2}
    MaxAmount = 2
    MaxEntries = 2
    Contents <- ChosenContents
    MaxReceived = 2
    Idle = Idle
    None = None
SYMMETRY Symmetry
INVARIANTS IInv StockIsAccounted TransfersDoNotWait GoodsArriveWhereStockIsHeld
CHECK_DEADLOCK FALSE
