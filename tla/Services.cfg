\* One account, two connections, one session and its presence rows; one managed
\* certificate, the worker and the administrator running the client, one process
\* death; two editors of one wiki page; one user's express messages from two
\* correspondents, one of whom has a conversation of two,
\* read on the terminal, in the browser and over XMPP.
CONSTANTS
    Conns = {"k1", "k2"}
    Tokens = {"t1"}
    MaxNow = 2
    MaxGen = 2
    MaxIds = 2
    Idle = 2
    Lifetime = 3
    Heartbeat = 0
    Window = 1
    MaxFailures = 1
    Runners = {"worker", "admin"}
    CaTokens = {1}
    MaxIssued = 2
    MaxCrashes = 1
    Editors = {"e1", "e2"}
    Texts = {1, 2}
    MaxWikiMsg = 4
    Writers = {"alice", "bob"}
    Pollers = {"xmpp"}
    Me = "me"
    Partners = {"alice"}
    MaxMsg = 2
    Limit = 1
SPECIFICATION MCSpec
INVARIANTS ServicesTypeOK   CertificateIsSound DeliveredWasShown
PROPERTIES RevokedIsFinal
CHECK_DEADLOCK FALSE
