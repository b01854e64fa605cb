SPECIFICATION TokenSpec
CONSTANTS
    Senders = {w1, w2}
    Uploader = w1
    Refresher = refresher
    Ids = {1, 2, 3, 4, 5}
    NoToken = NoToken
    StaticToken = StaticToken
    Lives = {2}
    ForwardTTL = 1
    Margin = 1
    Timeout = 1
    Wire = 1
    MaxRevoked = 1
INVARIANTS
    RetryIsFresh
    NoLostWakeup
PROPERTIES
    RequestReturns
CHECK_DEADLOCK FALSE
