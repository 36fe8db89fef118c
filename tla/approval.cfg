SPECIFICATION StaffSpec
CONSTANTS
    Notification = {n1, n2, n3}
    Mobile = {m1}
    Staff = {s1, s2}
    Worker = {}
    Kind = {"invoice_ready"}
    Request = {1, 2}
    WebhookStatus = {}
    None = None
    NoDelivery = NoDelivery
    MaxAttempts = 1
    MaxRevision = 4
    MaxCatalog = 1
    MaxVersion = 1
    MaxClock = 3
SYMMETRY Symmetry
INVARIANTS
    OneNotificationPerEvent
    ResentAtMostOnce
PROPERTIES
    ApprovalIsPermanent
    ApprovesWhatIsShown
CHECK_DEADLOCK FALSE
