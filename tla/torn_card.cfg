SPECIFICATION FairSpec
CONSTANTS
    Delivery = {r1}
    Card = {c1}
    Content = {x1, torn}
    Sendable = {x1}
    Invalid = {}
    Unprintable = {torn}
    WebhookStatus = {"failed"}
    Worker = {w1}
    MaxAttempts = 2
    None = None
PROPERTIES ChangesCancel
