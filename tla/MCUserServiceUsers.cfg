\* Two users and a stopped clock: no cached result expires, calls share it.
SPECIFICATION Spec
CONSTANTS
    Ids = {u1, u2}
    Methods = {"getProfile", "updateProfile", "removeUser"}
    Requests = {r1, r2}
    Ttl = 0
    PoolSize = 2
    MaxTime = 0
    MaxVersions = 2
    NoEntry = NoEntry
    NoOne = NoOne
SYMMETRY Symmetry
INVARIANTS
    TypeOK
    AnswersOwnProfile
    ConnectionsAccounted
