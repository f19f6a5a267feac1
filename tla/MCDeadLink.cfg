SPECIFICATION Spec
CONSTANTS
    n1 = n1
    n2 = n2
    w1 = w1
    w2 = w2
    b1 = b1
    NoOne = NoOne
    Notifications = {n1, n2}
    Entities = {b1}
    Bids = {b1}
    Workers = {w1, w2}
    MaxAttempts = 2
    BatchSize = 2
    MaxRetries <- MCMaxRetries
PROPERTIES
    DeadLinkIsNotDelivered
CHECK_DEADLOCK FALSE
