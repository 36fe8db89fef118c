SPECIFICATION FairSpec
CONSTANTS
  Session <- SessionDef
  Identities <- IdentitiesDef
  MaxRequests = 1
INVARIANTS
  IInv
  NothingForbiddenIsShown
  OnlyKnownGapsAreStale
PROPERTIES
  MoneyIsReread
  AnswersCloseTheirDialog
  RefreshedOrTold
CHECK_DEADLOCK FALSE
