\* Every environment, every interleaving of the streams, stops at any time.
SPECIFICATION Spec
CONSTANTS
    Defaulted <- MCDefaulted
    OfUserDb <- MCOfUserDb
    Others <- MCOthers
    Type <- MCType
    Default <- MCDefault
    Optional = {"REDIS_USERNAME"}
    NotEmpty = {"LOG_DEBUG_MODE", "PORT", "DB_LOG_PORT"}
    Text <- MCText
    Shells <- MCShells
    Truths = {"true", "TRUE"}
    Number <- MCNumber
    DotEnvs <- MCDotEnvs
    Exported <- MCExported
    Also <- MCAlso
    ReadAs <- MCReadAs
INVARIANTS
    TypeOK
    StartsAlike
    EndsWhole
\* A start with an invalid environment ends the process for good.
CHECK_DEADLOCK FALSE
