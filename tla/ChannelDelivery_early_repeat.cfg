SPECIFICATION Spec
CONSTANTS
    s1 = s1
    s2 = s2
    f1 = f1
    RxWait = 2
    PruneSlack = 1
    Senders <- OneSender
    Channels <- OneChannel
    HashOf <- OneHashOf
    Tables <- OneTable
    Foreign <- OneForeign
    ForeignChan <- OnFirst
    Shapes <- NamedShapes
    MinRepeats = 1
    MaxAttempts = 2
    ReplyDelay = 0
    MaxRtt = 2
    MaxLag = 1
    LastCall = 0
    MaxHeard = 2
    MaxTime = 10

PROPERTIES HeardIsNotResent
