\* Two clients, two signals, any number of requests on connections that may be kept alive.
SPECIFICATION FairSpec
CONSTANTS
    Clients = {c1, c2}
    MaxSignals = 2
INVARIANTS
    TypeOK
    GracefulOnceListening
PROPERTIES
    PhasesOfLogging
    EndsWhenTold
\* The process ends for good: no successor is modelled.
CHECK_DEADLOCK FALSE
