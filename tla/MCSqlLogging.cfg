\* Four records on two connections, more than the pool can take at a time; the process
\* may end at any time.
SPECIFICATION FairSpec
CONSTANTS
    LogPoolSize = 2
    MaxRecords = 4
INVARIANTS
    TypeOK
    NoLogOfLogging
    Accounted
    BoundedOvertaking
    EndsOnlyWhenTold
PROPERTY EveryInsertSettles
\* The process ends for good: no successor is modelled.
CHECK_DEADLOCK FALSE
