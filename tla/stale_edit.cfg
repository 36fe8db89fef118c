SPECIFICATION Spec
CONSTANTS
  Session <- InvoiceEdits
  Identities = {}
  MaxRequests = 1
INVARIANT StaleValuesAreKeptOut
CHECK_DEADLOCK FALSE
