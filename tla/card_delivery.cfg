SPECIFICATION FairSpec
CONSTANTS
    Delivery = {r1, r2}
    Card = {c1}
    Content = {x1, x2, void, bad}
    Sendable = {x1, x2}
    Invalid = {bad}
    Unprintable = {}
    WebhookStatus = {"delivered", "failed"}
    Worker = {w1, w2}
    MaxAttempts = 2
    None = None
INVARIANT IInv
PROPERTIES DeliveriesEnd PromiseKept
