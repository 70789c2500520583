\* One user, a cache time of one tick: entries age, expire and are refilled.
SPECIFICATION Spec
CONSTANTS
    Ids = {u1}
    Methods = {"getProfile", "updateProfile", "removeUser"}
    Requests = {r1, r2}
    Ttl = 1
    PoolSize = 2
    MaxTime = 2
    MaxVersions = 3
    NoEntry = NoEntry
    NoOne = NoOne
SYMMETRY Symmetry
INVARIANT ResultsFaithful
PROPERTIES
    BoundedStaleness
    ImplementsContract
