\* Two rows in one batch, every operation, one crash.
CONSTANTS
    m1 = m1
    m2 = m2
    Ids = {m1, m2}
    MaxAttempts = 3
    Batch = 2
    Hosts = 2
    MaxCrashes = 1
    Ops = {"retry", "flush", "stop"}
SPECIFICATION FairQueueSpec
INVARIANTS QueueTypeOK NeverDoubleSends GivesUp
PROPERTIES  DueIsPickedUpWhileRunning
