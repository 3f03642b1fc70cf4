CONSTANTS
    Producers = {rx}
    Consumers = {c1, c2}
    Messages = {m1, m2}
    NoMessage = NoMessage
    UDS_QUEUE_CAP = 2
SPECIFICATION FairSpec
INVARIANT TypeOK NoLostWakeup
PROPERTY ImplementsFifo ShutdownReleasesCallers EveryPushReturns
CHECK_DEADLOCK FALSE
