SPECIFICATION FairSpec
CONSTANTS
    s1 = s1
    s2 = s2
    s3 = s3
    Stream = {s1, s2, s3}
    MaxSubscribers = 2
    QueueSize = 2
    MaxEvents = 3
    None = None
INVARIANTS TypeOK NoGap ListedIsOpen
PROPERTY ClosedReaderEnds
CHECK_DEADLOCK FALSE
