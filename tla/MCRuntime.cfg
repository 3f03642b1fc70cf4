CONSTANTS
    Messages = {m1, m2}
    NoMessage = NoMessage
    UDS_QUEUE_CAP = 2
SPECIFICATION FairSpec
INVARIANT TypeOK DestroyedUnused ReceiverFailureLosesNothing
PROPERTY ShutdownCompletes DispatcherFollowsReceiver
CHECK_DEADLOCK FALSE
