SPECIFICATION Spec
CONSTANTS
    Notification = {n1}
    Mobile = {m1}
    Staff = {s1}
    Worker = {w1}
    Kind = {"invoice_created"}
    Request = {1}
    WebhookStatus = {}
    None = None
    NoDelivery = NoDelivery
    MaxAttempts = 2
    MaxRevision = 2
    MaxCatalog = 0
    MaxVersion = 0
    MaxClock = 1
INVARIANTS
    StaleQueuesAreCancelled
CHECK_DEADLOCK FALSE
