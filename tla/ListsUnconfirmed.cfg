\* Submission: one connection, local delivery that may fail; a session may end.
\* Inbound: an MX and an LMTP connection, a group address and a room address,
\* a mailbox that one letter almost fills.
\* Rooms: two connections, two messages for one new user, one floor to add.
\* Lists: a member for posts and one for digests, and the list's own spooler;
\* two moderators and two held messages.
CONSTANTS
    s1 = s1
    bob = bob
    carol = carol
    dora = dora
    Sessions = {s1}
    Remote = {bob, carol}
    Local = {dora}
    BurstMax = 3
    MaxRcpts = 2
    MaxMails = 3
    LocalFails = TRUE
    alice = alice
    eve = eve
    team = team
    news = news
    m1 = m1
    m2 = m2
    Conns = {"c1", "c2"}
    ModeOf <- MCModeOf
    Users = {alice, eve}
    Addrs = {team, news}
    Resolve <- MCResolve
    Senders = {"s1", "s2"}
    SendersOf <- MCSendersOf
    Letters = {m1, m2}
    Size <- MCSize
    Limit <- MCLimit
    Filters <- MCFilters
    Enforce = {"spf", "dmarc"}
    MaxInMails <- MCMaxInMails
    NoSender = "nos"
    NoLetter = "nol"
    k1 = k1
    k2 = k2
    p1 = p1
    p2 = p2
    Carriers = {k1, k2}
    Parcels = {p1, p2}
    FolderNames = {"Mail"}
    RoomNames = {"Mail", "Old"}
    MaxRooms = 2
    MaxUserNum = 2
    MaxFloor = 1
    w1 = w1
    d1 = d1
    d2 = d2
    h1 = h1
    h2 = h2
    Addresses = {"x", "y"}
    KindOf <- MCKindOf
    Spoolers = {w1}
    DigestMax = 1
    MaxPosts = 2
    MaxTokens = 1
    MaxAdmin = 2
    Moderators = {d1, d2}
    HeldIds = {h1, h2}
    NoHeld = "nh"
    MaxPosted = 2
SPECIFICATION MCSpec
PROPERTIES UnconfirmedChangesNothing
CHECK_DEADLOCK FALSE
