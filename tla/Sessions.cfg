\* One caller of the listener's Start and Stop, sessions up to the cap, strangers
\* and restarts; one caller of the worker. One IMAP and one POP3 session over two
\* mailboxes; two news peers offering an article this site carries and one it
\* does not.
CONSTANTS
    c1 = c1
    f1 = f1
    f2 = f2
    f3 = f3
    t1 = t1
    t2 = t2
    t3 = t3
    Callers = {c1}
    Fds = {f1, f2, f3}
    Threads = {t1, t2, t3}
    Cap = 2
    MaxStarts = 2
    Stoppers = {"a"}
    MaxLoops = 3
    b1 = b1
    b2 = b2
    i1 = i1
    p1 = p1
    Boxes = {b1, b2}
    Inbox = b1
    Imaps = {i1}
    Pops = {p1}
    MaxNum = 4
    MaxMail = 2
    n1 = n1
    n2 = n2
    a1 = a1
    a2 = a2
    Peers = {n1, n2}
    Articles = {a1, a2}
    Carried = {a1}
    MaxRows = 3
SPECIFICATION MCSpec
INVARIANTS SessionsTypeOK ThreadsAreSound
PROPERTIES HistoryIsHonest MailboxIsHonest StopsReturn 
CHECK_DEADLOCK FALSE
