\* One writer that saves, deletes, files and moves; both clients; pruning.
CONSTANTS
    r1 = r1
    r2 = r2
    a1 = a1
    a2 = a2
    e1 = e1
    e2 = e2
    NoEuid = NoEuid
    DavRoom = r1
    Policy <- MCPolicy
    Keep = 1
    Rooms = {r1, r2}
    Actors = {a1}
    Euids = {e1}
    Ops = {"upsert", "delete", "move"}
    MaxSeq = 4
    Clients = {"dav", "jmap"}
    Housekeeping = TRUE
SPECIFICATION SyncSpec
INVARIANTS  DavSyncConverges 
