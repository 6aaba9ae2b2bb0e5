\* Three requests share one connection; three failures, kills or signals.
\* When the requests are used up the server has nothing left to do.
SPECIFICATION FairServerSpec
CHECK_DEADLOCK FALSE
CONSTANTS
    Requests = {1, 2, 3}
    PoolSize = 1
    MaxCalls = 2
    MaxMishaps = 3
INVARIANTS
    ServerTypeOK
    ServingIsReady
PROPERTIES
    OrderlyExit
    RefusedOnlyLate
    RequestsEnd
    StopsOnSignal
    Recovers
