\* Three calls on one user and two connections: a call waits for the row with a
\* connection in hand while others wait for a connection, and for what lost calls left.
SPECIFICATION FairSpec
CONSTANTS
    Ids = {u1}
    Methods = {"getProfile", "removeUser"}
    Requests = {r1, r2, r3}
    Ttl = 0
    PoolSize = 2
    MaxTime = 0
    MaxVersions = 2
    NoEntry = NoEntry
    NoOne = NoOne
PROPERTY EveryCallSettles
