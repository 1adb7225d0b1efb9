\* One crash, after which the drainer is started again.
CONSTANTS
    m1 = m1
    m2 = m2
    Ids = {m1}
    MaxAttempts = 2
    Batch = 1
    Hosts = 1
    MaxCrashes = 1
    Ops = {}
SPECIFICATION FairQueueSpec
PROPERTIES DueIsPickedUp
CHECK_DEADLOCK FALSE
