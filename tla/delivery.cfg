SPECIFICATION FairSpec
CONSTANTS
    Notification = {n1}
    Mobile = {m1}
    Staff = {s1}
    Worker = {w1, w2}
    Kind = {"invoice_created"}
    Request = {1}
    WebhookStatus = {"delivered", "read", "failed"}
    None = None
    NoDelivery = NoDelivery
    MaxAttempts = 2
    MaxRevision = 2
    MaxCatalog = 0
    MaxVersion = 0
    MaxClock = 1
INVARIANTS
    AtMostOneMessage
    NoSilentSend
    NothingStaleIsSent
    IInv
PROPERTIES
    PromiseKept
    CallbacksConverge
    QueueDrains
    CallbacksAreApplied
CHECK_DEADLOCK FALSE
