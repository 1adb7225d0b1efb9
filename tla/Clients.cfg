\* Two DAV clients over two objects, whose default names another object may be
\* asked to take; four keystrokes of every kind; a file whose block numbers wrap,
\* to a receiver that has room for it and to one that has not; a source with a
\* message that is too large, polled by the spooler and an administrator.
CONSTANTS
    c1 = c1
    c2 = c2
    Clients = {c1, c2}
    Uids = {"u1", "u2"}
    DavNames = {"d1", "d2"}
    DefaultName <- MCDefault
    MaxVersion = 3
    MaxLocks = 2
    Keys = {"a", "ff", "cr", "lf", "nul", "bs", "do echo", "dont echo", "do other", "will other", "will ttype"}
    MaxKeys = 4
    FileBlocks = 6
    BlockMod = 4
    MaxRetries = 3
    Limits = {4, 6}
    MaxLate = 4
    MaxNoise = 2
    Runners = {"spool", "admin"}
    MaxItem = 3
    Big = {2}
    PerRun = 1
    SeenKeep = 2
    MaxRuns = 3
    MaxDeaths = 1
    Kinds = {"pop3", "imap", "rss"}
SPECIFICATION MCSpec
INVARIANTS ClientsTypeOK    
PROPERTIES NameKeepsItsObject
SYMMETRY MCSymmetry
CHECK_DEADLOCK FALSE
