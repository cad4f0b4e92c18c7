SPECIFICATION FairSpec
CONSTANTS
    s1 = s1
    s2 = s2
    a = a
    b = b
    Senders <- TwoSenders
    PeerOf <- TwoReplies
    TextOf <- SameText
    MaxAttempts = 2
    WaitAck = TRUE
    MaxClock = 1
INVARIANTS TypeOK AckedWasReceived ShownOnce
PROPERTIES ReplySpec AttemptsAreDistinct NotResentAfterAck EveryReplyEnds
