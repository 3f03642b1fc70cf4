CONSTANTS
    Messages = {m1}
    NoMessage = NoMessage
    UDS_QUEUE_CAP = 2
SPECIFICATION FairSpec
PROPERTY SignalStopsProcess
CHECK_DEADLOCK FALSE
