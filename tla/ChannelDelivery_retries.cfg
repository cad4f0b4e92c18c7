SPECIFICATION FairSpec
CONSTANTS
    s1 = s1
    s2 = s2
    f1 = f1
    RxWait = 2
    PruneSlack = 1
    Senders <- OneSender
    Channels <- OneChannel
    HashOf <- OneHashOf
    Tables <- SomeTables
    Foreign <- OneForeign
    ForeignChan <- OnFirst
    Shapes <- KeyShapes
    MinRepeats = 2
    MaxAttempts = 2
    ReplyDelay = 0
    MaxRtt = 1
    MaxLag = 1
    LastCall = 0
    MaxHeard = 2
    MaxTime = 12

PROPERTIES PromiseSpec EveryCallReturns
